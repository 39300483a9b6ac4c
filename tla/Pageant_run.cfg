SPECIFICATION FairSpec
CONSTANTS
  Clients = {p1, p2}
  Word = 32
  MaxMsglen = 12
  Lens = {0, 8, 9, 28, 31}
  MaxHandlers = 2
INVARIANTS
  TypeOK
  OnlyWholeRequestsServed
  OneRequestAtATime
PROPERTIES
  RunSpec
  AnsweredOnceReady
  RunReturnsOnCancel
