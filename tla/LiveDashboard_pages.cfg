SPECIFICATION FairSpec
CONSTANTS
  p1 = p1
  p2 = p2
  d1 = d1
  NoServer = NoServer
  Servers <- TwoServers
  Dashboards <- OneDashboard
  ChannelCap <- Cap
  MaxChanges = 3
  Slots <- TwoSlots
  Faults <- AllFaults
INVARIANTS
  TypeOK
PROPERTIES
  PageNeverGoesBack
  Converges
