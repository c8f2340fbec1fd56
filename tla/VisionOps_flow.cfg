SPECIFICATION BegunSpec
CONSTANTS
  p1 = p1
  c1 = c1
  a1 = a1
  s1 = s1
  home = home
  NoServer = NoServer
  None = None
  NoJob = NoJob
  NoSub = NoSub
  Servers <- OneServer
  Dashboards <- NoDashboards
  ChannelCap <- Cap
  Requests <- ThreeRequests
  Actions <- OneAction
  Cameras <- OneCamera
  Events <- ThreeEvents
  Bodies <- LaterBodies
  Window = 5
  Subs <- OneSub
  MaxAttempts = 1
  MaxReplaying = 1
  OrgOf <- Orgs
  HandlerFaults <- CrashAndDb
  WorkerFaults <- CrashAndRefuse
  PoolSize = 2
INVARIANTS
  AnsweredMeansQueued
PROPERTIES
  EveryRequestAnswered
  EveryDetectionSettled
CHECK_DEADLOCK FALSE
