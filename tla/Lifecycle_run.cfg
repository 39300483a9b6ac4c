SPECIFICATION FairSpec
CONSTANTS
  Draining = {pipe, wsl}
  Ignoring = {xshell, vsock}
  Waiting = {pipe, xshell}
  PubKeyView = pubkey
  Main = Main
INVARIANTS
  TypeOK
  CutOffOnlyIfAbandoned
PROPERTIES
  QuitEnds
CHECK_DEADLOCK FALSE
