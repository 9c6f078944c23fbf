CONSTANTS
  N = 6
  DeepN = 9
  NULL = NULL
  Node = Node
  FirstBlock = 2
  Sns = {0, 1}
  Tss = {5}
  Junk = Junk
  MaxAcks = 5
  Byte = 4
  IKCP_OVERHEAD = 2
  IKCP_MTU_DEF = 5
  MinMtu = 4
  MaxCount = 3
  Mtus = {3, 4}
  Lengths = {0, 9}
  Rooms = {0, 9}
  MaxMsgs = 2
  MaxSmall = 1
  NetCap = 1
SPECIFICATION StructuresSpec
INVARIANTS RedBlack InOrder Acknowledges Fits Faithful
PROPERTIES RbImplementsSet SplayImplementsSet AllSent
