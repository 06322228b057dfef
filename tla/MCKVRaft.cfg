SPECIFICATION Spec
CONSTANTS
  N = 2
  c1 = c1
  c2 = c2
  Clerk = {c1, c2}
  Op <- MCOp
  None = None
  SM0 <- NewMemoryKVStateMachine
  Exec <- applyToStateMachine
  ReadOnly <- OpGet
  Reelect = FALSE
  MaxOps = 1
  MaxCalls = 2
  MaxTerm = 2
  MaxSnapshots = 1
  MaxRestarts = 1
SYMMETRY Symmetry
VIEW View
INVARIANTS StateIsLog 
PROPERTY Linearizable
CHECK_DEADLOCK FALSE
