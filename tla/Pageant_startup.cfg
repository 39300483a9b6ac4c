SPECIFICATION FairSpec
CONSTANTS
  Clients = {p1, p2}
  Word = 32
  MaxMsglen = 12
  Lens = {1, 31}
  MaxHandlers = 2
PROPERTY EveryMessageAnswered
