CONSTANTS
  n1 = n1
  n2 = n2
  x = x
  y = y
  Adds = {a1, a2, a3}
  Blank = Blank
  NoMachine = NoMachine
  NoRow = NoRow
  Startup = Startup
  HasDefaultUser = TRUE
  DeleteDuringAdd = TRUE
  SaveMayFail = TRUE
  Names <- MCNames
  Addresses <- MCAddresses
  InitialConfigs <- TidyConfigs
SPECIFICATION Spec
SYMMETRY AddSymmetry
INVARIANTS
  TypeOK
  NoRejectedMachine
  OnlyProbedRowsPersist
  AcknowledgedAddsDurable
  DeletedStaysDeleted
