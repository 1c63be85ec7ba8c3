SPECIFICATION MCFairSpec
CONSTANTS
  Server = {s1, s2, s3}
  Null = Null
  Port = {p5000}
  DefaultPort = p5000
  NoPort = NoPort
  Requests = {"START", "STOP", "FINISH"}
  Faults = {}
  MaxRequests = 2
  MaxFaults = 0
PROPERTY Converges
