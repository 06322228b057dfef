SPECIFICATION Spec
CONSTANTS
  n = 2
  Rpc = {c1}
  MaxInstances = 2
INVARIANT AckedIsKept
PROPERTIES OldInstancesMute CallReturns
CHECK_DEADLOCK FALSE
