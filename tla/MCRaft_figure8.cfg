SPECIFICATION Figure8Spec
CONSTANTS
  s1 = s1
  s2 = s2
  s3 = s3
  Server = {s1, s2, s3}
  Nil = Nil
  a = a
  Cmd = {a}
  NoCmd = NoCmd
  Reorder = FALSE
  Lossy = FALSE
  MaxTerm = 4
  MaxLog = 2
  MaxCalls = 1
  MaxRestarts = 0
  MaxSnapshots = 0
SYMMETRY Symmetry
VIEW View
INVARIANTS LogMatching LeaderCompleteness StateMachineSafety
CHECK_DEADLOCK FALSE
