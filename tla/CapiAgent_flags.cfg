SPECIFICATION Spec
CONSTANTS
  cl1 = cl1
  cl2 = cl2
  c1 = c1
  c2 = c2
  c3 = c3
  k1 = k1
  k2 = k2
  Clients = {cl1}
  Certs = {c1, c2, c3}
  Keys = {k1, k2}
  Attr <- MCAttr
  StoreConfigs <- MCStores
  FileConfigs <- MCFiles
  FlagValues = {0, 2, 4, 6}
  MaxLost = 0
INVARIANT SignatureMatchesRequest
