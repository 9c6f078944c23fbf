CONSTANTS
  a = a
  b = b
  Endpoints <- MCEndpoints
  MaxCount = 1
  IKCP_WND_SND = 2
  IKCP_WND_RCV = 1
  MaxSent <- OneWay
  NetCap = 3
  MaxFaults = 2
SPECIFICATION LiveSpec
PROPERTIES EverythingArrives
