CONSTANTS
  MaxItems = 5
  Limits <- MCLimits
SPECIFICATION GatherSpec
INVARIANTS
  GatherTypeOK
  SlotsAccounted
  NoIdleSlot
  ServedInOrder
PROPERTIES
  AllSettle
  RunsBounded
CHECK_DEADLOCK FALSE
