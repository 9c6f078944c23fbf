CONSTANTS
  a = a
  b = b
  Endpoints <- MCEndpoints
  MaxCount = 2
  IKCP_WND_SND = 2
  IKCP_WND_RCV = 2
  MaxSent <- BothWays
  NetCap = 2
SPECIFICATION Spec
INVARIANTS TypeOK SentIsHeld WindowBounds NeverWedged IInv
PROPERTIES ImplementsPipe EdgesAdvance
