SPECIFICATION FairSpec
CONSTANTS
  p1 = p1
  p2 = p2
  None = None
  Processes <- TwoProcesses
  Files = 2
  Roles <- TwoRoles
INVARIANTS
  TypeOK
  MigratedOnceInOrder
  OneTenant
  ServesAccounts
  NoDemoInProduction
PROPERTIES
  Serves
