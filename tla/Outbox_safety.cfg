SPECIFICATION Spec
CONSTANTS
  p1 = p1
  p2 = p2
  s1 = s1
  s2 = s2
  s3 = s3
  home = home
  other = other
  NoServer = NoServer
  NoJob = NoJob
  NoSub = NoSub
  Servers <- TwoServers
  Dashboards <- NoDashboards
  ChannelCap <- Cap
  Subs <- ThreeSubs
  Jobs <- OneJob
  OrgOf <- Orgs
  MaxAttempts = 3
  Faults <- AllFaults
  MaxReplaying = 1
  MaxAge = 4
INVARIANTS
  TypeOK
  ExclusiveClaim
  RetryBudget
  DoneMeansDelivered
  LogIsTruthful
  DeadOnlyAfterFullBackoff
PROPERTIES
  KeepsPromise
SYMMETRY Symmetry
