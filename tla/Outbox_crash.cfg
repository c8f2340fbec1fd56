SPECIFICATION RestartedSpec
CONSTANTS
  p1 = p1
  p2 = p2
  s1 = s1
  home = home
  NoServer = NoServer
  NoJob = NoJob
  NoSub = NoSub
  Servers <- TwoServers
  Dashboards <- NoDashboards
  ChannelCap <- Cap
  Subs <- OneSub
  Jobs <- OneJob
  OrgOf <- Orgs
  MaxAttempts = 2
  Faults <- CrashAndRefuse
  MaxReplaying = 1
  MaxAge = 0
PROPERTIES
  CrashedJobIsRetaken
CHECK_DEADLOCK FALSE
