---------------------------- MODULE Correction ----------------------------
(***************************************************************************)
(* What the channel correction calls promise: the ports of each chip have  *)
(* coefficients and a switch.  A call makes its own change, once, at one   *)
(* instant between its begin and its end, and nothing else changes; it may *)
(* fail, with or without having made it.  One that reports success has.    *)
(***************************************************************************)
EXTENDS Integers

CONSTANTS Thread, Chip, Dir, Channels, Coef, Null

VARIABLES
  coef,   \* coef[p]: the coefficients of port p
  on,     \* the ports whose correction is enabled
  phase,  \* phase[t]: "idle", "begun", "applied" or "failed"
  req,    \* req[t]: the request of t's call, Null outside one
  ret     \* ret[t]: what t's last call returned, "none" before it does

vars == <<coef, on, phase, req, ret>>

Port == Chip \X Dir \X (Channels \ {1})

Request ==
  [op : {"coef"}, rf : Chip, dir : Dir, ch : Channels \ {1}, coef : Coef]
    \cup [op : {"switch"}, rf : Chip, dir : Dir, ch : Channels, on : BOOLEAN]

Own(r) == <<r.rf, r.dir, r.ch>>

Init ==
  /\ \E k \in Coef : coef = [p \in Port |-> k]
  /\ on \in SUBSET Port
  /\ phase = [t \in Thread |-> "idle"]
  /\ req = [t \in Thread |-> Null]
  /\ ret = [t \in Thread |-> "none"]

Begin(t) ==
  /\ phase[t] = "idle"
  /\ phase' = [phase EXCEPT ![t] = "begun"]
  /\ req'[t] \in Request /\ req' = [req EXCEPT ![t] = req'[t]]
  /\ ret' = [ret EXCEPT ![t] = "none"]
  /\ UNCHANGED <<coef, on>>

(* The switches of a chip become those of chip 0, but for the call's own.  *)
SwitchesAfter(r) ==
  LET before == on IN
  {p \in Port : IF p[1] # r.rf THEN p \in before
                ELSE IF p = Own(r) THEN r.on
                ELSE <<0, p[2], p[3]>> \in before}

Apply(t) ==
  /\ phase[t] = "begun"
  /\ phase' = [phase EXCEPT ![t] = "applied"]
  /\ IF req[t].op = "coef"
       THEN coef' = [coef EXCEPT ![Own(req[t])] = req[t].coef] /\ UNCHANGED on
       ELSE on' = SwitchesAfter(req[t]) /\ UNCHANGED coef
  /\ UNCHANGED <<req, ret>>

(* From here on the call can only fail, and takes no effect.               *)
Lose(t) ==
  /\ phase[t] \in {"begun", "applied"}
  /\ phase' = [phase EXCEPT ![t] = "failed"]
  /\ UNCHANGED <<coef, on, req, ret>>

End(t) ==
  /\ phase[t] # "idle"
  /\ phase' = [phase EXCEPT ![t] = "idle"]
  /\ req' = [req EXCEPT ![t] = Null]
  /\ \/ phase[t] = "applied" /\ ret' = [ret EXCEPT ![t] = "ok"]
     \/ ret' = [ret EXCEPT ![t] = "failed"]
  /\ UNCHANGED <<coef, on>>

(* Channel 1 has no coefficients: a call for them returns at once.         *)
Nothing(t) ==
  /\ phase[t] = "idle"
  /\ ret' = [ret EXCEPT ![t] = "ok"]
  /\ UNCHANGED <<coef, on, phase, req>>

Next == \E t \in Thread : Begin(t) \/ Apply(t) \/ Lose(t) \/ End(t) \/ Nothing(t)

Spec == Init /\ [][Next]_vars
=============================================================================
