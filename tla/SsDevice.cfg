CONSTANTS
  d1 = d1  d2 = d2  u1 = u1  u2 = u2
  None = None
  Device <- MCDevice
  User <- MCUser
  Streams = 2
  NumFpgas = 2
  Address <- MCAddress
  Faults = {"memory", "fpga", "socket", "command"}
SPECIFICATION Spec
SYMMETRY Alike
INVARIANTS TypeOK OwnPeer Owned LockWorks
