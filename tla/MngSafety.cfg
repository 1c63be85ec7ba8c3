SPECIFICATION MCSpec
CONSTANTS
  Server = {s1, s2, s3}
  Null = Null
  Port = {p5000}
  DefaultPort = p5000
  NoPort = NoPort
  Requests = {"START", "INIT", "HALT", "GET", "FINISH", "CONNECT"}
  Faults = {"busy", "reply", "java"}
  MaxRequests = 2
  MaxFaults = 1
INVARIANT TypeOK
PROPERTY NothingStartsUnasked
PROPERTY HealthyServerIsLeftAlone
