SPECIFICATION MCSpec
CONSTANTS
  Pid = {p1, p2}
  Shell = {s1, s2}
  Port = {5901}
  Scale = {100}
  DefaultPort = 5901
  DefaultScale = 100
  NoPort = NoPort
  Requests = {"START", "STOP", "INIT", "HALT", "FINISH"}
  Faults = {"exit", "deaf", "busy", "java", "exec"}
  MaxRequests = 2
  MaxFaults = 2
SYMMETRY Symmetry
INVARIANT TypeOK
PROPERTY NothingStartsUnasked
PROPERTY NothingStopsUnasked
PROPERTY HealthyServerIsLeftAlone
