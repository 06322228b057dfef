SPECIFICATION Spec
CONSTANTS
  History <- MCHistory
  MaxTime = 2
  Timeout = TRUE
INVARIANTS AnswerRight PartialsExplain
PROPERTY Decides
CHECK_DEADLOCK FALSE
