CONSTANTS
  n1 = n1
  n2 = n2
  n3 = n3
  x = x
  all = all
  All = All
  Adds = {a1}
  Blank = Blank
  NoMachine = NoMachine
  NoRow = NoRow
  Startup = Startup
  HasDefaultUser = TRUE
  DeleteDuringAdd = TRUE
  SaveMayFail = FALSE
  MaxItems = 3
  Names <- MCNames
  Addresses <- MCAddresses
  AllWords <- MCAllWords
  InitialConfigs <- MCConfigs
  Selectors <- MCSelectors
  Limits <- MCLimits
SPECIFICATION BatchSpec
INVARIANTS
  BatchTypeOK
  WithinLimit
  OncePerMachine
  ResultsAreReal
  WholeUnlessDeleted

  
