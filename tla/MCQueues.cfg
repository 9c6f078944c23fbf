CONSTANTS
  Segs = {s1, s2, s3, s4}
  NULL = NULL
  Windows = {1, 4}
  MaxFrags = 2
  MaxSnd = 4
  MaxRcv = 5
SPECIFICATION QueuesSpec
VIEW AllButInput
SYMMETRY SymmetryOfSegs
INVARIANTS WellLinked
PROPERTIES ImplementsQueues
CHECK_DEADLOCK FALSE
