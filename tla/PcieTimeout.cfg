SPECIFICATION Spec
CONSTANTS
  t1 = t1
  t2 = t2
  Null = Null
  Cut = Cut
  Thread = {t1}
  RfId = {0}
  Reg = {1, 2}
  Value = {0, 1}
  Streams <- NoStreams
  Modes <- CommandModes
  NumOfChannel = 3
  Faults <- Timeout
  MaxQueue = 2
CHECK_DEADLOCK FALSE
INVARIANTS GetFills
