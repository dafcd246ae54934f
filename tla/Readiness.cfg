SPECIFICATION Spec
CONSTANTS
  Timeouts <- MCTimeouts
  LockTime = 1
  StatusTime = 3
  SshTime = 3
  DiagTime = 2
INVARIANT TypeOK
INVARIANT BudgetIsKept
INVARIANT BudgetIsUsed
INVARIANT VerdictIsEarned
PROPERTY WaitEnds
CHECK_DEADLOCK FALSE
