---------------------------- MODULE MCEthDevice ----------------------------
(* A small instance of EthDevice for TLC.                                  *)
EXTENDS EthDevice, TLC

CONSTANTS d1, d2

AllFaults == {"socket", "hello", "connect", "memory"}
Devices == Permutations({d1, d2})
=============================================================================
