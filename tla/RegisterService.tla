-------------------------- MODULE RegisterService --------------------------
(***************************************************************************)
(* What the command interface of a device promises to its callers: every   *)
(* get or set of a register takes effect at one instant between its call   *)
(* and its return (transport.h: cmd_send and cmd_send_then_recv).          *)
(***************************************************************************)
CONSTANTS Thread, Register, Value, Null

VARIABLES
  regs,   \* the registers
  phase,  \* phase[t]: "idle", "invoked", "applied" or "failed"
  req,    \* req[t]: the request of t's call, Null outside one
  out     \* out[t]: the value t's call will return, Null until it is applied

vars == <<regs, phase, req, out>>

Request == [op : {"get", "set"}, reg : Register, val : Value]

Init ==
  /\ \E v \in Value : regs = [x \in Register |-> v]
  /\ phase = [t \in Thread |-> "idle"]
  /\ req = [t \in Thread |-> Null]
  /\ out = [t \in Thread |-> Null]

Invoke(t) ==
  /\ phase[t] = "idle"
  /\ phase' = [phase EXCEPT ![t] = "invoked"]
  /\ \E r \in Request : req' = [req EXCEPT ![t] = r]
  /\ UNCHANGED <<regs, out>>

Apply(t) ==
  /\ phase[t] = "invoked"
  /\ phase' = [phase EXCEPT ![t] = "applied"]
  /\ regs' = IF req[t].op = "set" THEN [regs EXCEPT ![req[t].reg] = req[t].val] ELSE regs
  /\ out' = [out EXCEPT ![t] = regs'[req[t].reg]]
  /\ UNCHANGED req

(* The call ends; its outcome, if any, is handed to the caller.            *)
End(t) ==
  /\ phase' = [phase EXCEPT ![t] = "idle"]
  /\ req' = [req EXCEPT ![t] = Null]
  /\ out' = [out EXCEPT ![t] = Null]
  /\ UNCHANGED regs

Return(t) == phase[t] \in {"applied", "failed"} /\ End(t)

(* A call may fail, whether or not it has taken effect, at once or by      *)
(* losing its outcome first; from then on it takes no effect.              *)
Lose(t) ==
  /\ phase[t] \in {"invoked", "applied"}
  /\ phase' = [phase EXCEPT ![t] = "failed"]
  /\ out' = [out EXCEPT ![t] = Null]
  /\ UNCHANGED <<regs, req>>

Fail(t) == phase[t] = "invoked" /\ End(t)

Next == \E t \in Thread : Invoke(t) \/ Apply(t) \/ Return(t) \/ Lose(t) \/ Fail(t)

Spec == Init /\ [][Next]_vars
=============================================================================
