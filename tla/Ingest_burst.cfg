SPECIFICATION Spec
CONSTANTS
  p1 = p1
  c1 = c1
  r1 = r1
  r2 = r2
  home = home
  NoServer = NoServer
  None = None
  Servers <- OneServer
  Dashboards <- NoDashboards
  ChannelCap <- Cap
  Requests <- TwoRequests
  Actions <- NoActions
  Cameras <- OneCamera
  OrgOf <- Orgs
  Events <- TwoEvents
  Bodies <- Burst
  Window = 5
  Faults <- NoFaults
INVARIANTS
  OneIncidentPerBurst
CHECK_DEADLOCK FALSE
