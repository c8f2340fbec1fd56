SPECIFICATION Spec
CONSTANTS
  k1 = k1
  a1 = a1
  None = None
  ApiKeys <- OneApiKey
  Addresses <- OneAddress
  Limit <- Limits
  Minute = 2
  MaxNow = 3
  MaxChecking = 2
  MaxSignIns = 2
INVARIANTS
  TypeOK
  BelowTwiceLimit
  RefusedOnlyAtLimit
  SuccessBuysOneLimit
