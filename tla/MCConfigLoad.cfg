CONSTANTS
  n1 = n1
  n2 = n2
  x = x
  y = y
  Blank = Blank
  NoMachine = NoMachine
  Startup = Startup
  HasDefaultUser = FALSE
  MaxRows = 4
  Names <- MCNames
  Addresses <- MCAddresses
  RowPool <- MCRowPool
  Configs <- MCConfigs
SPECIFICATION StartSpec
INVARIANTS
  TypeOK
  LoopComputesLoad
  
  SettingsAsMeant
CHECK_DEADLOCK FALSE
