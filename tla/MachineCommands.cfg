CONSTANTS
  c1 = c1
  c2 = c2
  Host = Host
  Lower <- MCLower
  Commands <- MCCommands
  Tasks <- MCTasks
  Controllers <- MCControllers
  Graceful = TRUE
  MaxRetries = 1
SPECIFICATION Spec
CHECK_DEADLOCK FALSE
INVARIANTS
  TypeOK
  RepeatsGuarded
  OnlyListedValues
  
  LostLinksReported
  GapsOnlyOverIpmi
  ReportsWereSo
PROPERTIES
  BootIsCompareAndSet
