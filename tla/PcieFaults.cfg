SPECIFICATION Spec
CONSTANTS
  t1 = t1
  t2 = t2
  Null = Null
  Cut = Cut
  Thread = {t1, t2}
  RfId = {0, 1}
  Reg = {1}
  Value = {0, 1}
  Streams <- MixedStreams
  Modes <- MixedModes
  NumOfChannel = 3
  Faults <- AllFaults
  MaxQueue = 1
CHECK_DEADLOCK FALSE
INVARIANTS Exclusive QuietWhenFree ReplyCurrent
