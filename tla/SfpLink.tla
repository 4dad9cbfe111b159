------------------------------ MODULE SfpLink ------------------------------
(***************************************************************************)
(* The command channel of the SFP transport of libyunsdr_ss: every register *)
(* command is one UDP datagram, answered by one, on a socket that all       *)
(* threads share without a lock (interface_sfp.c).  Datagrams carry no      *)
(* sequence number; a call waits three seconds for any datagram.            *)
(***************************************************************************)
EXTENDS Integers, Sequences, FiniteSets

CONSTANTS
  Thread,    \* application threads
  Reg,       \* registers: a chip and a cmd_id
  Value,     \* register values
  MayLose,   \* whether a datagram may get lost
  MayBeLate, \* whether a datagram may take longer than the time-out
  Errors,    \* which of "sendto" and "recvfrom" may return an error
  MaxLate,   \* bound: datagrams under way, or unread, when a call gives up
  Null       \* "no request", "no value" in the abstract view

ASSUME SfpAssumption ==
  /\ IsFiniteSet(Thread)
  /\ {MayLose, MayBeLate} \subseteq BOOLEAN
  /\ Errors \subseteq {"sendto", "recvfrom"}
  /\ MaxLate \in Nat
  /\ Reg # {} /\ Value # {}

VARIABLES
  pc,      \* pc[t]: "idle", or the next step of t's call
  call,    \* call[t]: arguments of t's current or last call
  buf,     \* buf[t]: sfp_cmd, the request of t's call until a reply takes its place
  result,  \* result[t]: what t's last call returned
  toDev,   \* requests on their way to the device
  toHost,  \* replies on their way to the host
  socket,  \* replies that have arrived in cmd_sock
  regs     \* the registers of the device

vars == <<pc, call, buf, result, toDev, toHost, socket, regs>>
net == <<toDev, toHost, socket>>

Message == [op : {"set", "get"}, reg : Reg, val : Value]
Reply   == [reg : Reg, val : Value]

Init ==
  /\ pc = [t \in Thread |-> "idle"]
  /\ result = [t \in Thread |-> "none"]
  /\ \E g \in Reg, v \in Value :
       /\ call = [t \in Thread |-> [op |-> "get", reg |-> g, val |-> v]]
       /\ buf = [t \in Thread |-> [reg |-> g, val |-> v]]
       /\ regs = [x \in Reg |-> v]
  /\ toDev = <<>>
  /\ toHost = <<>>
  /\ socket = <<>>

Pending == Len(toDev) + Len(toHost) + Len(socket)

Goto(t, next) ==
  /\ pc' = [pc EXCEPT ![t] = next]
  /\ UNCHANGED result

Return(t, ret) ==
  /\ pc' = [pc EXCEPT ![t] = "idle"]
  /\ result' = [result EXCEPT ![t] = ret]

Enter(t, op, g, v) ==
  /\ pc[t] = "idle"
  /\ call' = [call EXCEPT ![t] = [op |-> op, reg |-> g, val |-> v]]
  /\ buf' = [buf EXCEPT ![t] = [reg |-> g, val |-> v]]
  /\ pc' = [pc EXCEPT ![t] = "send"]
  /\ result' = [result EXCEPT ![t] = "none"]
  /\ UNCHANGED <<net, regs>>

CmdSend(t, g, v) == Enter(t, "set", g, v)
CmdSendThenRecv(t, g, v) == Enter(t, "get", g, v)

Sendto(t) ==
  /\ pc[t] = "send"
  /\ \/ /\ toDev' = Append(toDev, call[t])
        /\ Goto(t, "select")
     \/ /\ "sendto" \in Errors
        /\ Return(t, "failed")
        /\ UNCHANGED toDev
  /\ UNCHANGED <<call, buf, toHost, socket, regs>>

SelectReady(t) ==
  /\ pc[t] = "select"
  /\ socket # <<>>
  /\ Goto(t, "recv")
  /\ UNCHANGED <<call, buf, net, regs>>

(* Mutant: the time-out does not look at how long the call has waited.     *)
SelectTimeoutEarly(t) ==
  /\ pc[t] = "select"
  /\ socket = <<>>
  /\ Return(t, "ETIMEDOUT")
  /\ UNCHANGED <<call, buf, net, regs>>

(* Mutant: the wait has no time limit.                                     *)
SelectTimeoutNever(t) == FALSE /\ UNCHANGED vars

(* select with nothing to read for three seconds.  Unless datagrams may be *)
(* late, three seconds are enough for everything under way to arrive.      *)
SelectTimeout(t) ==
  /\ pc[t] = "select"
  /\ socket = <<>>
  /\ \/ toDev = <<>> /\ toHost = <<>>
     \/ MayBeLate /\ Pending <= MaxLate
  /\ Return(t, "ETIMEDOUT")
  /\ UNCHANGED <<call, buf, net, regs>>

(* Mutant: the socket is emptied before the call returns.                  *)
RecvfromFlushes(t) ==
  /\ pc[t] = "recv"
  /\ socket # <<>>
  /\ buf' = [buf EXCEPT ![t] = Head(socket)]
  /\ socket' = <<>>
  /\ Return(t, "ok")
  /\ UNCHANGED <<call, toDev, toHost, regs>>

(* recvfrom: the oldest datagram, whatever it answers.  It blocks while    *)
(* there is none: another thread may have taken the one select saw.  An    *)
(* error leaves the datagram where it is.                                  *)
Recvfrom(t) ==
  /\ pc[t] = "recv"
  /\ socket # <<>>
  /\ \/ /\ buf' = [buf EXCEPT ![t] = Head(socket)]
        /\ socket' = Tail(socket)
        /\ Return(t, "ok")
     \/ /\ "recvfrom" \in Errors /\ Pending <= MaxLate
        /\ Return(t, "failed")
        /\ UNCHANGED <<buf, socket>>
  /\ UNCHANGED <<call, toDev, toHost, regs>>

Device ==
  /\ toDev # <<>>
  /\ toDev' = Tail(toDev)
  /\ LET m == Head(toDev) IN
     /\ regs' = IF m.op = "set" THEN [regs EXCEPT ![m.reg] = m.val] ELSE regs
     /\ toHost' = Append(toHost, [reg |-> m.reg, val |-> regs'[m.reg]])
  /\ UNCHANGED <<pc, call, buf, result, socket>>

Arrive ==
  /\ toHost # <<>>
  /\ socket' = Append(socket, Head(toHost))
  /\ toHost' = Tail(toHost)
  /\ UNCHANGED <<pc, call, buf, result, toDev, regs>>

Lose ==
  /\ MayLose
  /\ \/ toDev # <<>> /\ toDev' = Tail(toDev) /\ UNCHANGED toHost
     \/ toHost # <<>> /\ toHost' = Tail(toHost) /\ UNCHANGED toDev
  /\ UNCHANGED <<pc, call, buf, result, socket, regs>>

Step(t) ==
  Sendto(t) \/ SelectReady(t) \/ SelectTimeout(t) \/ Recvfrom(t)

Next ==
  \/ \E t \in Thread : Step(t) \/ \E g \in Reg, v \in Value :
       CmdSend(t, g, v) \/ CmdSendThenRecv(t, g, v)
  \/ Device \/ Arrive \/ Lose

Spec == Init /\ [][Next]_vars

-----------------------------------------------------------------------------
(* Values stay in their types, and a call reports nothing before it ends.  *)
TypeOK ==
  /\ pc \in [Thread -> {"idle", "send", "select", "recv"}]
  /\ call \in [Thread -> Message]
  /\ buf \in [Thread -> Reply]
  /\ result \in [Thread -> {"none", "ok", "failed", "ETIMEDOUT"}]
  /\ toDev \in Seq(Message)
  /\ toHost \in Seq(Reply)
  /\ socket \in Seq(Reply)
  /\ regs \in [Reg -> Value]
  /\ \A t \in Thread : pc[t] # "idle" => result[t] = "none"

(* A call of a single-threaded program that reports success has the answer *)
(* to its own request: a get has the value the register has, a set has     *)
(* taken effect.                                                           *)
SuccessIsOwn ==
  \A t \in Thread :
    pc[t] = "idle" /\ result[t] = "ok" =>
      /\ call[t].op = "get" => buf[t].reg = call[t].reg /\ buf[t].val = regs[call[t].reg]
      /\ call[t].op = "set" => regs[call[t].reg] = call[t].val

(* Threads may take one another's datagrams, but only a loss costs one its *)
(* reply: the threads that wait outnumber the requests and replies under   *)
(* way by no more than what the network has lost, so that without losses   *)
(* recvfrom never blocks for good.                                         *)
Waiting == {t \in Thread : pc[t] \in {"select", "recv"}}
Short == Cardinality(Waiting) - Pending
OnlyLossStarves == [][Short' <= Short + (IF Lose THEN 1 ELSE 0)]_vars

(* Register commands of a single-threaded program are atomic, and one that *)
(* has failed takes no effect later.                                       *)
Replies == socket \o toHost
Applied(t) == pc[t] \in {"select", "recv"} /\ Replies # <<>>

Service == INSTANCE RegisterService WITH
  Register <- Reg,
  phase <- [t \in Thread |-> IF pc[t] = "idle" THEN "idle"
                             ELSE IF Applied(t) THEN "applied"
                             ELSE IF pc[t] = "send" \/ toDev # <<>> THEN "invoked"
                             ELSE "failed"],
  req <- [t \in Thread |-> IF pc[t] = "idle" THEN Null ELSE call[t]],
  out <- [t \in Thread |-> IF Applied(t) THEN Head(Replies).val ELSE Null]

ServiceSpec == Service!Spec
=============================================================================
