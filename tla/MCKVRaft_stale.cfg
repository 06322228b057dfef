SPECIFICATION Spec
CONSTANTS
  N = 2
  c1 = c1
  c2 = c2
  Clerk = {c1, c2}
  Op <- MCOp
  None = None
  SM0 <- NewMemoryKVStateMachine
  Exec <- applyToStateMachine
  ReadOnly <- OpGet
  Reelect = TRUE
  MaxOps = 1
  MaxCalls = 2
  MaxTerm = 3
  MaxSnapshots = 0
  MaxRestarts = 0
SYMMETRY Symmetry
VIEW View
PROPERTY Linearizable
CHECK_DEADLOCK FALSE
