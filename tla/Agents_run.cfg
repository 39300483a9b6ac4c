SPECIFICATION Spec
CONSTANTS
  Clients = {cl1, cl2}
  Keys = {k1, k2}
  RsaKeys = {k1}
  CertKeys = {k1}
  Comments = {a, b}
  FlagValues = {0, 2}
  Fallback = fallback
INVARIANTS
  TypeOK
  ListIsRegular
  SignTriesAll
  NotificationIsTrue
PROPERTIES
  ListForgetsRemoved
SYMMETRY Symmetry
