CONSTANTS
  a = a
  b = b
  Endpoints <- MCEndpoints
  MaxCount = 3
  IKCP_WND_SND = 2
  IKCP_WND_RCV = 2
  MaxSent <- OneWay
  NetCap = 3
SPECIFICATION Spec
INVARIANTS NeverWedged
