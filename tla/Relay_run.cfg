SPECIFICATION FairSpec
CONSTANTS
  MaxIn = 2
  MaxOut = 2
  PipeCap = 1
INVARIANTS
  TypeOK
  ExitsLoseOnlyTheOtherSide
  EndSignalNotSkipped
PROPERTIES
  InPumpSpec
  OutPumpSpec
  PollConnects
  EitherEndExits
