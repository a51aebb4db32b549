CONSTANTS
  MaxRetries = 3
  Operations <- MCOperations
SPECIFICATION Spec
CHECK_DEADLOCK FALSE
INVARIANTS
  TypeOK
  EffectsBounded
  NeverExhausted
  ResultMeansDone
  FailureExplained
  SessionClosed
PROPERTIES
  RunAnswered
