SPECIFICATION Spec
CONSTANTS
  p1 = p1
  p2 = p2
  d1 = d1
  d2 = d2
  NoServer = NoServer
  Servers <- TwoServers
  Dashboards <- TwoDashboards
  ChannelCap <- SmallCap
  MaxSent = 4
INVARIANTS
  TypeOK
  InOrder
  LossNeedsLag
  NoLostWakeup
SYMMETRY Symmetry
