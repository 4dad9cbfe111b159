SPECIFICATION MCSpec
CONSTANTS
  t1 = t1
  t2 = t2
  Null = Null
  Thread = {t1, t2}
  Streams <- MCStreams
  Modes <- MCModes
  Counts = {1, 2}
  Time = {0, 1}
  HeaderLen = 1
  Mtu = 2
  Faulty = {3}
  MayFail = TRUE
  MayLose = TRUE
  MaxAir = 2
INVARIANTS TypeOK ReadWhole LeavesNothing
PROPERTIES ReadEnds
