SPECIFICATION Spec
CONSTANTS
  Clients = {cl1}
  Keys = {k1, k2}
  RsaKeys = {k1}
  CertKeys = {k1}
  Comments = {a}
  FlagValues = {0, 2}
  Fallback = fallback
INVARIANT ForwardsEveryRequest
