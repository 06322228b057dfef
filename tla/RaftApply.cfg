\* The apply loop when requests come in time.
CONSTANTS
  MaxIndex = 4
  MaxRestarts = 1
  Late = FALSE
SPECIFICATION FairSpec
INVARIANTS TypeOK  OnlyCommitted  
PROPERTY RoundDelivers
