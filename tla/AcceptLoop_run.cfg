SPECIFICATION FairSpec
CONSTANTS
  Clients = {c1, c2}
  SamePort = {"other"}
  None = None
INVARIANTS
  TypeOK
  AdvertisedIsListening
PROPERTIES
  RunSpec
  ReturnsOnCancel
  QueuedIsTaken
CHECK_DEADLOCK FALSE
