SPECIFICATION Spec
CONSTANTS
  s1 = s1
  s2 = s2
  s3 = s3
  Server = {s1, s2, s3}
  Nil = Nil
  a = a
  Cmd = {a}
  NoCmd = NoCmd
  Reorder = TRUE
  Lossy = TRUE
  MaxTerm = 2
  MaxLog = 0
  MaxCalls = 1
  MaxRestarts = 2
  MaxSnapshots = 0
SYMMETRY Symmetry
VIEW View
INVARIANTS TypeOK ElectionSafety Durable
PROPERTY VoteOncePerTerm
CHECK_DEADLOCK FALSE
