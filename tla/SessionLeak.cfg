CONSTANTS
  MaxRetries = 0
  Operations <- MCOperations
SPECIFICATION Spec
CHECK_DEADLOCK FALSE
INVARIANTS
  SessionsDoNotLeak
