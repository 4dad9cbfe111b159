----------------------------- MODULE MCSsDevice -----------------------------
(* Two devices, two boards and one address, two threads with commands.     *)
EXTENDS SsDevice, TLC

CONSTANTS d1, d2, u1, u2

MCDevice  == {d1, d2}
MCUser    == {u1, u2}
MCAddress == {192}

(* Neither the devices nor the threads are told apart.                     *)
Alike == Permutations(MCDevice) \cup Permutations(MCUser)
=============================================================================
