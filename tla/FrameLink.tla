----------------------------- MODULE FrameLink -----------------------------
(***************************************************************************)
(* What the stream_send functions promise (transport.h): a call hands the  *)
(* channels it names one whole frame each, or stops before the frame of    *)
(* some channel; a channel carries whole frames in the order of the calls. *)
(***************************************************************************)
EXTENDS Sequences, Integers

CONSTANTS Sender, Channel, Frame

VARIABLES
  job,     \* job[s]: the channels s's call has still to serve
  what,    \* what[s]: the frame of s's current or last call
  frames   \* frames[c]: the frames channel c has carried

vars == <<job, what, frames>>

Init ==
  /\ job = [s \in Sender |-> {}]
  /\ what \in [Sender -> Frame]
  /\ frames = [c \in Channel |-> <<>>]

Submit(s) ==
  /\ job[s] = {}
  /\ \E chans \in SUBSET Channel : job' = [job EXCEPT ![s] = chans]
  /\ \E f \in Frame : what' = [what EXCEPT ![s] = f]
  /\ UNCHANGED frames

Carry(s, c) ==
  /\ c \in job[s]
  /\ job' = [job EXCEPT ![s] = @ \ {c}]
  /\ frames' = [frames EXCEPT ![c] = Append(@, what[s])]
  /\ UNCHANGED what

Abort(s) ==
  /\ job[s] # {}
  /\ job' = [job EXCEPT ![s] = {}]
  /\ UNCHANGED <<what, frames>>

Next == \E s \in Sender : Submit(s) \/ (\E c \in Channel : Carry(s, c)) \/ Abort(s)

Spec == Init /\ [][Next]_vars
=============================================================================
