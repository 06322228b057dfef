SPECIFICATION Spec
CONSTANTS
  nMap = 2
  nReduce = 2
  Proc = {w1, w2}
  MaxExits = 2
  MaxLate = 1
  MaxPanics = 1
INVARIANTS OutputComplete InputsThere
PROPERTY JobFinishes
CHECK_DEADLOCK FALSE
