SPECIFICATION CtrlSpec
CONSTANTS
  N = 1
  Clerk = {c1}
  None = None
  Op <- MCOp
  SM0 <- NewCtrlerStateMachine
  Exec <- applyToStateMachine
  ReadOnly <- OpQuery
  Reelect = FALSE
  MaxOps = 3
  MaxCalls = 3
  MaxTerm = 1
  MaxSnapshots = 0
  MaxRestarts = 1
  NShards = 5
PROPERTIES  JoinRebalances LeaveMovesOnlyTheirs
VIEW View
CHECK_DEADLOCK FALSE
