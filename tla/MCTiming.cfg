CONSTANTS
  Modulus = 18
  IKCP_INTERVAL = 3
  MinInterval = 2
  MaxInterval = 3
  Requests = {1, 9}
  SlapLimit = 4
  MaxRto = 2
  MaxSegs = 1
  MaxGap = 2
  Jumps = {5, 9, 13, 16}
  Count = 3
  snd_wnd = 4
  nodelay = 1
  fastresend = 2
  IKCP_DEADLINK = 3
  Rtos = {5}
  Period = 2
  Delay = 1
  MaxLost = 2
  IKCP_PROBE_INIT = 4
  IKCP_PROBE_LIMIT = 7
  NetCap = 2
  SnModulus = 10
  wnd = 2
  Stale = 3
  MaxSent = 12
  MaxAcks = 2
  IntMax = 1023
  IKCP_RTO_NDL = 3
  IKCP_RTO_MIN = 12
  IKCP_RTO_DEF = 20
  IKCP_RTO_MAX = 100
  Samples = {0, 10, 100, 1000}
  MaxWild = 2
  Steadies = {0, 13, 60}
  mss = 26
  RmtWnds = {0, 1, 3, 6}
  resent = 2
  IKCP_THRESH_INIT = 2
  IKCP_THRESH_MIN = 2
SPECIFICATION TimingSpec
INVARIANTS FlushOnTime CheckInTime RecoversInTime Paid ReopensInTime InSequence HeldUntilReceived IncrMatches
PROPERTIES FlushSpaced Recovers Opens
