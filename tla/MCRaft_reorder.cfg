SPECIFICATION Leader1Spec
CONSTANTS
  s1 = s1
  s2 = s2
  s3 = s3
  Server = {s1, s2, s3}
  Nil = Nil
  a = a
  Cmd = {a}
  NoCmd = NoCmd
  Reorder = TRUE
  Lossy = FALSE
  MaxTerm = 2
  MaxLog = 2
  MaxCalls = 2
  MaxRestarts = 0
  MaxSnapshots = 0
SYMMETRY Symmetry
VIEW View
INVARIANT LeaderCompleteness
CHECK_DEADLOCK FALSE
