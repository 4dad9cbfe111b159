SPECIFICATION Spec
CONSTANTS
  d1 = d1
  d2 = d2
  Free = Free
  Device = {d1, d2}
  Fd = {3, 4, 5}
  Concurrent = FALSE
  Faults <- AllFaults
SYMMETRY Devices
INVARIANTS TypeOK SocketsOwned NoDoubleFree NothingLeft
