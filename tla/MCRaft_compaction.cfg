SPECIFICATION Leader2Spec
CONSTANTS
  s1 = s1
  s2 = s2
  s3 = s3
  Server = {s1, s2, s3}
  Nil = Nil
  a = a
  b = b
  Cmd = {a, b}
  NoCmd = NoCmd
  Reorder = FALSE
  Lossy = FALSE
  MaxTerm = 2
  MaxLog = 2
  MaxCalls = 1
  MaxRestarts = 1
  MaxSnapshots = 1
SYMMETRY Symmetry
VIEW View
INVARIANTS    LeaderIndexesInRange
PROPERTY LeaderAppendOnly
CHECK_DEADLOCK FALSE
