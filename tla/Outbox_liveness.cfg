SPECIFICATION OperatedSpec
CONSTANTS
  p1 = p1
  p2 = p2
  s1 = s1
  home = home
  NoServer = NoServer
  NoJob = NoJob
  NoSub = NoSub
  Servers <- TwoServers
  Dashboards <- NoDashboards
  ChannelCap <- Cap
  Subs <- OneSub
  Jobs <- TwoJobs
  OrgOf <- Orgs
  MaxAttempts = 2
  Faults <- Refusals
  MaxReplaying = 1
  MaxAge = 0
INVARIANTS
  NoOrphan
  LogExplainsOutcome
PROPERTIES
  Settles
  RecoversAfterReplay
CHECK_DEADLOCK FALSE
