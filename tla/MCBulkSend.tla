----------------------------- MODULE MCBulkSend -----------------------------
(* A small instance of BulkSend for TLC.                                   *)
EXTENDS BulkSend

CONSTANTS s1, s2, d1, d2

(* s1 owns the first buffer: it transmits on channels 1 and 3, with the    *)
(* multi-port send, and on channel 1 with the single-port one as well.  s2 *)
(* transmits on channel 2, where sends may be short, and tries channel 4,  *)
(* which the board does not have.  Either has two contents to transmit.    *)
MCPorts == [s \in Sender |-> IF s = s1 THEN {1, 3} ELSE {2, 4}]
MCModes == [s \in Sender |-> IF s = s1 THEN {"send", "send3"} ELSE {"send", "send4"}]
MCSends == [s \in Sender |-> Data]

VARIABLE active  \* the threads that transmit in this behaviour

(* A thread by itself starts calls on a channel until it holds MaxWire     *)
(* pieces, that is two frames or more of broken ones; two threads start    *)
(* them while nothing has reached the channel.  The burst bit of a         *)
(* multi-port frame goes with its contents.                                *)
Starts(s) ==
  LET a == args'[s] IN
    /\ s \in active
    /\ active = Sender => \A c \in a.chans : wire[c] = <<>>
    /\ a.op = "send3" => a.chans = Ports[s] /\ (a.burst <=> a.data = d2)
    /\ a.op = "send" => 3 \notin a.chans

MCNext ==
  /\ Next
  /\ \A s \in Sender : args'[s] # args[s] \/ pc'[s] = "header" => Starts(s)
  /\ UNCHANGED active

MCInit ==
  /\ Init
  /\ \A s \in Sender : args[s].data = d1
  /\ active \in SUBSET Sender

MCSpec == MCInit /\ [][MCNext]_<<vars, active>>
=============================================================================
