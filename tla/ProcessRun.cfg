SPECIFICATION Spec
CONSTANTS
  Deadline = 2
  Limit = 2
  MaxChunks = 2
INVARIANT TypeOK
INVARIANT OutcomeIsHonest
INVARIANT CutLeavesNothing
PROPERTY Ends
CHECK_DEADLOCK FALSE
