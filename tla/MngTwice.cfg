SPECIFICATION FairSpec
CONSTANTS
  Server = {s1, s2, s3}
  Null = Null
  Port = {p5000}
  DefaultPort = p5000
  NoPort = NoPort
  Requests = {"START"}
  Faults = {}
  MaxRequests = 1
  MaxFaults = 0
PROPERTY WantedServerServes
