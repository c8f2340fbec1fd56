SPECIFICATION HistorySpec
CONSTANTS
  p1 = p1
  c1 = c1
  c2 = c2
  r1 = r1
  r2 = r2
  r3 = r3
  a1 = a1
  a2 = a2
  home = home
  other = other
  NoServer = NoServer
  None = None
  Servers <- OneServer
  Dashboards <- NoDashboards
  ChannelCap <- Cap
  Requests <- ThreeRequests
  Actions <- TwoActions
  Cameras <- TwoCameras
  OrgOf <- Orgs
  Events <- ThreeEvents
  Bodies <- Mixed
  Window = 5
  Faults <- DatabaseFaults
INVARIANTS
  TypeOK
  RepliesAreTruthful
  OneOperatorWins
PROPERTIES
  KeepsLedger
  NoNeedlessIncident
SYMMETRY Symmetry
CHECK_DEADLOCK FALSE
