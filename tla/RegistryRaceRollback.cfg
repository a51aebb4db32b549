CONSTANTS
  n1 = n1
  n2 = n2
  x = x
  y = y
  Adds = {a1, a2}
  Blank = Blank
  NoMachine = NoMachine
  NoRow = NoRow
  Startup = Startup
  HasDefaultUser = TRUE
  DeleteDuringAdd = TRUE
  SaveMayFail = FALSE
  Names <- MCNames
  Addresses <- MCAddresses
  InitialConfigs <- TidyConfigs
SPECIFICATION Spec
PROPERTIES
  RollbackTakesOnlyItsOwn
