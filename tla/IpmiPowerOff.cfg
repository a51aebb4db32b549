CONSTANTS
  c1 = c1
  c2 = c2
  Host = Host
  Lower <- MCLower
  Commands <- MCCommands
  Tasks <- MCTasks
  Controllers <- MCIpmi
  Graceful = TRUE
  MaxRetries = 1
SPECIFICATION Spec
CHECK_DEADLOCK FALSE
INVARIANTS
  DocumentedForBoth
