CONSTANTS
  c1 = c1
  c2 = c2
  srv = srv
  Server = srv
  Clients <- Two
  Nonces = {n1, n2}
  Convs = {v1}
  Keys = {k1, k2}
  ConvReuse = TRUE
  ReqTimes = 1
  ResendInterval = 1
  ExpireTimeout = 1
  ConnectTimeout = 1
  MaxOut <- OneSender
SPECIFICATION Spec
SYMMETRY Symmetry
INVARIANTS NoCrossTalk
PROPERTIES NoTakeover
