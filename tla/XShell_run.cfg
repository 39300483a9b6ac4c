SPECIFICATION Spec
CONSTANTS
  Modulus = 32
  MaxAgent = 14
  CookieLen = 3
  RequestLens = {0, 1, 14, 15}
  ReplyLens = {1, 14, 15}
  MaxRequests = 3
INVARIANTS
  TypeOK
  FramesAligned
PROPERTIES
  AnswersWhole
CHECK_DEADLOCK FALSE
