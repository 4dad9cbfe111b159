---------------------------- MODULE MCSfpStream ----------------------------
(* A small instance of SfpStream for TLC.                                  *)
EXTENDS SfpStream

CONSTANTS t1, t2

(* t1 owns the first buffer and reads two channels at once, or the second  *)
(* of them by itself; t2 reads one channel.                                *)
MCStreams == [t \in Thread |-> IF t = t1 THEN {1, 2} ELSE {3}]
MCModes == [t \in Thread |-> IF t = t1 THEN {"recv2", "recv3"} ELSE {"recv"}]

(* Reads ask for one sample at one time or for two at another, so that the *)
(* frames of two reads differ in their time and in their length.  t2 does  *)
(* not let more than one datagram of earlier reads pile up.                *)
Asks(r) ==
  /\ r.time = r.count - 1
  /\ r.op = "recv2" => r.chans = {2}
  /\ r.op = "recv3" => r.chans \in {{}, {1, 2}}
  /\ r.op = "recv" => Len(air[3]) + Len(sock[3]) <= 1

MCNext == Next /\ \A t \in Thread : pc[t] = "idle" /\ pc'[t] = "send" => Asks(call'[t])

MCInit == Init /\ \A t \in Thread : call[t].count = 2 /\ call[t].time = 1

MCSpec == MCInit /\ [][MCNext]_vars /\ Fairness
=============================================================================
