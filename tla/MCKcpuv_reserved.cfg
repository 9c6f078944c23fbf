CONSTANTS
  c1 = c1
  c2 = c2
  srv = srv
  Server = srv
  Clients <- One
  Nonces = {n1}
  Convs = {1, v1}
  Keys = {k1}
  ConvReuse = FALSE
  ReqTimes = 1
  ResendInterval = 1
  ExpireTimeout = 1
  ConnectTimeout = 1
  MaxOut <- Greet
SPECIFICATION Spec
INVARIANTS ReservedConvsUnused
