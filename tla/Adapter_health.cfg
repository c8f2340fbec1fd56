SPECIFICATION Spec
CONSTANTS
  a1 = a1
  a2 = a2
  c1 = c1
  c2 = c2
  home = home
  other = other
  gate = gate
  AnyName = AnyName
  None = None
  Hung = Hung
  Adapters <- TwoAdapters
  Cameras <- TwoCameras
  Seeded <- DemoCamera
  OrgOf <- Orgs
  NameOf <- Names
  Wanted <- Gate
  Scenarios <- Files
  Pause = 1
  Interval = 1
  Window = 2
  MaxDelay = 1
  Faults <- AllFaults
INVARIANTS
  TypeOK
  HealthIsHonest
  HealthyIsOnline
  ScenarioAccountedFor
SYMMETRY Symmetry
