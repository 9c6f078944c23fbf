CONSTANTS
  c1 = c1
  c2 = c2
  srv = srv
  Server = srv
  Clients <- One
  Nonces = {n1}
  Convs = {v1}
  Keys = {k1}
  ConvReuse = FALSE
  ReqTimes = 1
  ResendInterval = 1
  ExpireTimeout = 2
  ConnectTimeout = 3
  MaxOut <- Greet
SPECIFICATION Spec
INVARIANTS ExpiredConnNotCalled
