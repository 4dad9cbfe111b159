----------------------------- MODULE MCPcieLink -----------------------------
(* Small instances of PcieLink for TLC.                                    *)
EXTENDS PcieLink

CONSTANTS t1, t2

(* Commands only: nobody reads a stream.                                   *)
NoStreams == [t \in Thread |-> {}]

(* t1 reads channels 1 and 2, also at once; t2 reads channel 3 and tries 4.*)
OwnStreams == [t \in Thread |-> IF t = t1 THEN {1, 2} ELSE {3, 4}]

CommandModes == [t \in Thread |-> Commands]
(* The multi-port read shares the buffer of channel 1 with whoever reads   *)
(* channel 1, so only the thread that owns channel 1 uses it.              *)
OwnModes == [t \in Thread |-> Commands \cup (IF t = t1 THEN {"recv3"} ELSE {"recv"})]
(* t1 issues commands, t2 reads stream channel 1.                          *)
MixedStreams == [t \in Thread |-> IF t = t1 THEN {} ELSE {1}]
MixedModes == [t \in Thread |-> IF t = t1 THEN Commands ELSE {"get", "recv2", "recv3"}]

NoFault == {}
NegativeReturn == {"send_neg", "recv_neg"}
Timeout == {"send_zero", "recv_zero"}
AllFaults == FaultKinds
=============================================================================
