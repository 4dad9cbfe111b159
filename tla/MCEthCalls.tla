----------------------------- MODULE MCEthCalls -----------------------------
(* Four programs on libyunsdr, each with its own state: one that sets the  *)
(* base band rate, one that sends other commands, one that reads streams   *)
(* and one that converts time stamps.  "use" says which it is.  The first  *)
(* two use one socket; one program of both is not followed, but what other *)
(* commands leave on the socket looks like what earlier questions leave.   *)
EXTENDS BasebandRate, TickTime, EthCommand, EthStream

CONSTANTS r1, r2, d1, d2

VARIABLE use

MCRate  == {[num |-> n, den |-> d] : n \in 3 .. 63, d \in {1, 2, 3}}
MCStamp == {1, 2, 3, 20, 21, 59, 60, 61, 62, 119, 120, 121, 150}
MCDelay == {0, 1, 30, 59, 60, 61}

all == <<vars, timeVars, cmdVars, streamVars>>

MCInit ==
  /\ use \in {"rate", "command", "stream", "time"}
  /\ Init /\ TimeInit /\ CmdInit /\ StreamInit
  /\ use # "rate" => want = LowRate /\ dev.rate = LowRate
  /\ use # "time" => rate = [num |-> 3, den |-> 1]
  /\ use # "command" => regs = [r \in Reg |-> 0]

(* Nothing is said of streams of two lengths: they are not followed.       *)
StreamStep ==
  IF OneSize THEN StreamNext ELSE UNCHANGED streamVars

MCNext ==
  /\ UNCHANGED use
  /\ \/ use = "rate" /\ Next /\ UNCHANGED <<timeVars, cmdVars, streamVars>>
     \/ use = "time" /\ TimeNext /\ UNCHANGED <<vars, cmdVars, streamVars>>
     \/ use = "command" /\ CmdNext /\ UNCHANGED <<vars, timeVars, streamVars>>
     \/ use = "stream" /\ StreamStep /\ UNCHANGED <<vars, timeVars, cmdVars>>

MCSpec ==
  MCInit /\ [][MCNext]_<<use, all>> /\ CmdFairness /\ StreamFairness
=============================================================================
