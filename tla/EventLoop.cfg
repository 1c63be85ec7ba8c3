SPECIFICATION LoopSpec
CONSTANTS
  Viewers = {v1, v2}
  Stalling = {v2}
  Minors = {3, 7, 8}
  Configs <- MCConfigs
  MaxConnections = 4
  None = None
  Browser = {b1, b2}
  Requests <- MCRequests
  Symbol = {"a", "b", "$", "W", "P", "width", "ok", "bad", "long"}
  Files <- MCFiles
  Pages = {"/index.vnc", "/long.vnc"}
  BUF_SIZE = 12
  MaxParams = 2
  httpEnableProxyConnect = FALSE
  Nobody = Nobody
INVARIANTS Framed ServedAreAdmitted InStep NeverShared AnswersAreWhole
PROPERTIES NotThrownOut Decided WholeRequestsAreAnswered
CHECK_DEADLOCK FALSE
