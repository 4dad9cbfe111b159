SPECIFICATION FairSpec
CONSTANTS
  t1 = t1
  t2 = t2
  Null = Null
  Cut = Cut
  Thread = {t1, t2}
  RfId = {0}
  Reg = {1}
  Value = {0, 1}
  Streams <- OwnStreams
  Modes <- OwnModes
  NumOfChannel = 4
  Faults <- NoFault
  MaxQueue = 1
INVARIANTS TypeOK StreamAnswered
PROPERTIES LockReleased ReadEnds ServiceSpec
