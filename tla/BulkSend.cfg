SPECIFICATION MCSpec
CONSTANTS
  s1 = s1
  s2 = s2
  Null = Null
  Sender = {s1, s2}
  Ports <- MCPorts
  Modes <- MCModes
  Sends <- MCSends
  d1 = d1
  d2 = d2
  Data = {d1, d2}
  Counts = {2}
  HeaderLen = 1
  Bulk = 2
  NumOfChannel = 4
  MayFail = TRUE
  Short = {2}
  MaxWire = 4
INVARIANTS TypeOK Contiguous HeaderMatchesBody SentInFull
PROPERTIES LinkSpec
CHECK_DEADLOCK FALSE
