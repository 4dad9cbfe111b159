--------------------------- MODULE SfpLinkProofs ---------------------------
(***************************************************************************)
(* What the SFP command channel guarantees: for every number of threads,   *)
(* that only a loss costs a waiting thread its reply; for a single thread  *)
(* and a network that loses datagrams but never delays them beyond the     *)
(* time-out, that its commands are atomic operations on the registers.     *)
(***************************************************************************)
EXTENDS ChannelCorr, FiniteSetTheorems, SequenceTheorems, TLAPS

-----------------------------------------------------------------------------
(* An open device has every variable in its type.                          *)
LEMMA InitTypeOK == Init => TypeOK
<1> SUFFICES ASSUME Init PROVE TypeOK
  OBVIOUS
<1>1. PICK g \in Reg, v \in Value :
        /\ call = [t \in Thread |-> [op |-> "get", reg |-> g, val |-> v]]
        /\ buf = [t \in Thread |-> [reg |-> g, val |-> v]]
        /\ regs = [x \in Reg |-> v]
  BY DEF Init
<1>2. call \in [Thread -> Message] /\ buf \in [Thread -> Reply] /\ regs \in [Reg -> Value]
  BY <1>1 DEF Message, Reply
<1> QED BY <1>2 DEF Init, TypeOK

(* Every step of a call, of the network and of the device keeps the types. *)
LEMMA TypeOKStep == TypeOK /\ [Next]_vars => TypeOK'
<1> SUFFICES ASSUME TypeOK, [Next]_vars PROVE TypeOK'
  OBVIOUS
<1> USE DEF TypeOK, net, Goto, Return
<1>1. ASSUME NEW t \in Thread, NEW g \in Reg, NEW v \in Value,
             CmdSend(t, g, v) \/ CmdSendThenRecv(t, g, v)
      PROVE  TypeOK'
  <2>1. PICK op \in {"set", "get"} : Enter(t, op, g, v)
    BY <1>1 DEF CmdSend, CmdSendThenRecv
  <2>2. [op |-> op, reg |-> g, val |-> v] \in Message /\ [reg |-> g, val |-> v] \in Reply
    BY DEF Message, Reply
  <2> QED BY <2>1, <2>2 DEF Enter
<1>2. ASSUME NEW t \in Thread, Sendto(t) PROVE TypeOK'
  <2>1. call[t] \in Message
    OBVIOUS
  <2>2. toDev' \in Seq(Message)
    <3>1. toDev' = Append(toDev, call[t]) \/ toDev' = toDev
      BY <1>2 DEF Sendto
    <3>2. toDev \in Seq(Message)
      OBVIOUS
    <3>3. Append(toDev, call[t]) \in Seq(Message)
      BY <2>1, <3>2, AppendProperties
    <3> QED BY <3>1, <3>2, <3>3
  <2> QED BY <1>2, <2>2 DEF Sendto
<1>3. ASSUME NEW t \in Thread, SelectReady(t) PROVE TypeOK'
  BY <1>3 DEF SelectReady
<1>4. ASSUME NEW t \in Thread, SelectTimeout(t) PROVE TypeOK'
  BY <1>4 DEF SelectTimeout
<1>5. ASSUME NEW t \in Thread, Recvfrom(t) PROVE TypeOK'
  <2>1. Head(socket) \in Reply /\ Tail(socket) \in Seq(Reply)
    BY <1>5, HeadTailProperties DEF Recvfrom
  <2>2. buf' \in [Thread -> Reply] /\ socket' \in Seq(Reply)
    BY <1>5, <2>1 DEF Recvfrom
  <2> QED BY <1>5, <2>2 DEF Recvfrom
<1>6. CASE Device
  <2> DEFINE m == Head(toDev)
  <2>6. m \in Message
    BY <1>6, HeadTailProperties DEF Device
  <2>1. m.reg \in Reg /\ m.val \in Value
    BY <2>6 DEF Message
  <2>2. regs' = IF m.op = "set" THEN [regs EXCEPT ![m.reg] = m.val] ELSE regs
    BY <1>6 DEF Device
  <2>3. regs' \in [Reg -> Value]
    BY <2>1, <2>2
  <2>4. [reg |-> m.reg, val |-> regs'[m.reg]] \in Reply
    BY <2>1, <2>3 DEF Reply
  <2>5. toHost' \in Seq(Reply)
    BY <1>6, <2>4 DEF Device
  <2> QED BY <1>6, <2>3, <2>5 DEF Device
<1>7. CASE Arrive
  BY <1>7 DEF Arrive
<1>8. CASE Lose
  <2>1. CASE toDev # <<>> /\ toDev' = Tail(toDev) /\ UNCHANGED toHost
    BY <1>8, <2>1, HeadTailProperties DEF Lose
  <2>2. CASE toHost # <<>> /\ toHost' = Tail(toHost) /\ UNCHANGED toDev
    BY <1>8, <2>2, HeadTailProperties DEF Lose
  <2> QED BY <1>8, <2>1, <2>2 DEF Lose
<1>9. CASE UNCHANGED vars
  BY <1>9 DEF vars
<1> QED BY <1>1, <1>2, <1>3, <1>4, <1>5, <1>6, <1>7, <1>8, <1>9 DEF Next, Step

(* Every variable has its type, and no call reports before it ends.        *)
THEOREM SfpTypeOK == Spec => []TypeOK
BY InitTypeOK, TypeOKStep, PTL DEF Spec

-----------------------------------------------------------------------------
(* Threads that wait and datagrams under way.                              *)

(* The waiting threads can be counted.                                     *)
LEMMA WaitingFinite == IsFiniteSet(Waiting) /\ Cardinality(Waiting) \in Nat
<1>1. IsFiniteSet(Waiting)
  BY SfpAssumption, FS_Subset DEF Waiting
<1> QED BY <1>1, FS_CardinalityType

(* So can the datagrams.                                                   *)
LEMMA PendingNat == TypeOK => Pending \in Nat
BY DEF TypeOK, Pending

(* A thread stops waiting.                                                 *)
LEMMA OneLess ==
  ASSUME NEW t \in Waiting, Waiting' = Waiting \ {t}
  PROVE  Cardinality(Waiting') = Cardinality(Waiting) - 1
BY WaitingFinite, FS_RemoveElement

(* And one that starts.                                                    *)
LEMMA OneMore ==
  ASSUME NEW t \in Thread, t \notin Waiting, Waiting' = Waiting \cup {t}
  PROVE  Cardinality(Waiting') = Cardinality(Waiting) + 1
BY WaitingFinite, FS_AddElement

(* A step that leaves the steps and the count of the datagrams alone.      *)
LEMMA SameShort ==
  ASSUME TypeOK, Waiting' = Waiting, Pending' = Pending
  PROVE  Short' <= Short
BY WaitingFinite, PendingNat DEF Short

(* Only Lose leaves the waiting threads one datagram shorter.              *)
LEMMA ShortStep ==
  TypeOK /\ TypeOK' /\ [Next]_vars => [Short' <= Short + (IF Lose THEN 1 ELSE 0)]_vars
<1> SUFFICES ASSUME TypeOK, TypeOK', Next
             PROVE  Short' <= Short + (IF Lose THEN 1 ELSE 0)
  OBVIOUS
<1> DEFINE W == Cardinality(Waiting)
           P == Pending
<1>a. W \in Nat /\ P \in Nat /\ Short = W - P /\ Short' = W' - P'
  BY WaitingFinite, PendingNat DEF Short
<1>c. Len(toDev) \in Nat /\ Len(toHost) \in Nat /\ Len(socket) \in Nat
  BY DEF TypeOK
<1>b. ASSUME W' = W, P' = P PROVE Short' <= Short
  BY <1>a, <1>b
<1>1. ASSUME NEW t \in Thread, NEW g \in Reg, NEW v \in Value,
             CmdSend(t, g, v) \/ CmdSendThenRecv(t, g, v)
      PROVE  Short' <= Short
  <2>1. Waiting' = Waiting /\ P' = P
    BY <1>1 DEF CmdSend, CmdSendThenRecv, Enter, Waiting, Pending, TypeOK, net
  <2> QED BY <2>1, <1>b
<1>2. ASSUME NEW t \in Thread, Sendto(t) PROVE Short' <= Short
  <2>1. CASE toDev' = Append(toDev, call[t]) /\ Goto(t, "select")
    <3>1. P' = P + 1
      BY <1>2, <2>1 DEF Sendto, Pending, TypeOK
    <3>2. t \notin Waiting /\ Waiting' = Waiting \cup {t}
      BY <1>2, <2>1 DEF Sendto, Waiting, TypeOK, Goto
    <3>3. W' = W + 1
      BY <3>2, OneMore
    <3> HIDE DEF W, P
    <3> QED BY <1>a, <3>1, <3>3
  <2>2. CASE Return(t, "failed") /\ UNCHANGED toDev
    <3>1. Waiting' = Waiting /\ P' = P
      BY <1>2, <2>2 DEF Sendto, Waiting, Pending, TypeOK, Return
    <3> QED BY <3>1, <1>b
  <2> QED BY <1>2, <2>1, <2>2 DEF Sendto
<1>3. ASSUME NEW t \in Thread, SelectReady(t) PROVE Short' <= Short
  <2>1. Waiting' = Waiting /\ P' = P
    BY <1>3 DEF SelectReady, Waiting, Pending, TypeOK, Goto, net
  <2> QED BY <2>1, <1>b
<1>4. ASSUME NEW t \in Thread, SelectTimeout(t) PROVE Short' <= Short
  <2>1. t \in Waiting /\ Waiting' = Waiting \ {t} /\ P' = P
    BY <1>4 DEF SelectTimeout, Waiting, Pending, TypeOK, Return, net
  <2>2. W' = W - 1
    BY <2>1, OneLess
  <2> HIDE DEF W, P
  <2> QED BY <1>a, <2>1, <2>2
<1>5. ASSUME NEW t \in Thread, Recvfrom(t) PROVE Short' <= Short
  <2>1. t \in Waiting /\ Waiting' = Waiting \ {t}
    BY <1>5 DEF Recvfrom, Waiting, TypeOK, Return
  <2>2. W' = W - 1
    BY <2>1, OneLess
  <2>3. Len(socket') = Len(socket) \/ Len(socket') = Len(socket) - 1
    BY <1>5, HeadTailProperties DEF Recvfrom, TypeOK
  <2>4. toDev' = toDev /\ toHost' = toHost
    BY <1>5 DEF Recvfrom
  <2>5. P' = P \/ P' = P - 1
    BY <1>c, <2>3, <2>4 DEF Pending
  <2> HIDE DEF W, P
  <2> QED BY <1>a, <2>2, <2>5
<1>6. ASSUME Device PROVE Short' <= Short
  <2>1. Waiting' = Waiting
    BY <1>6 DEF Device, Waiting
  <2>2. Len(toDev') = Len(toDev) - 1
    BY <1>6, HeadTailProperties DEF Device, TypeOK
  <2>3. Len(toHost') = Len(toHost) + 1
    BY <1>6 DEF Device, TypeOK
  <2>4. P' = P
    BY <1>6, <2>2, <2>3 DEF Device, Pending, TypeOK
  <2> QED BY <2>1, <2>4, <1>b
<1>7. ASSUME Arrive PROVE Short' <= Short
  <2>1. Len(toHost') = Len(toHost) - 1
    BY <1>7, HeadTailProperties DEF Arrive, TypeOK
  <2>2. Len(socket') = Len(socket) + 1
    BY <1>7 DEF Arrive, TypeOK
  <2>3. Waiting' = Waiting /\ P' = P
    BY <1>7, <2>1, <2>2 DEF Arrive, Waiting, Pending, TypeOK
  <2> QED BY <2>3, <1>b
<1>8. ASSUME Lose PROVE Short' <= Short + 1
  <2>1. \/ Len(toDev') = Len(toDev) - 1 /\ toHost' = toHost
        \/ Len(toHost') = Len(toHost) - 1 /\ toDev' = toDev
    BY <1>8, HeadTailProperties DEF Lose, TypeOK
  <2>2. Waiting' = Waiting
    BY <1>8 DEF Lose, Waiting
  <2>3. socket' = socket
    BY <1>8 DEF Lose
  <2>4. P' = P - 1
    BY <1>c, <2>1, <2>3 DEF Pending
  <2>5. W' = W
    BY <2>2
  <2> HIDE DEF W, P
  <2> QED BY <1>a, <2>4, <2>5
<1>9. Lose \/ Short' <= Short
  BY <1>1, <1>2, <1>3, <1>4, <1>5, <1>6, <1>7 DEF Next, Step
<1> HIDE DEF W, P
<1> QED BY <1>8, <1>9, <1>a

(* However many threads share the socket, and whatever is late or fails:   *)
(* a thread is left without a datagram only by a loss.                     *)
THEOREM SfpOnlyLossStarves == Spec => OnlyLossStarves
<1>1. TypeOK /\ TypeOK' /\ [Next]_vars => [Short' <= Short + (IF Lose THEN 1 ELSE 0)]_vars
  BY ShortStep
<1> QED BY <1>1, SfpTypeOK, PTL DEF Spec, OnlyLossStarves

-----------------------------------------------------------------------------
(* One thread, and no datagram later than the time-out.                    *)

Answers(r, t) ==
  /\ r.reg = call[t].reg
  /\ r.val = regs[call[t].reg]
  /\ call[t].op = "set" => r.val = call[t].val

Nothing   == toDev = <<>> /\ toHost = <<>> /\ socket = <<>>
Asked(t)  == toDev = <<call[t]>> /\ toHost = <<>> /\ socket = <<>>
OnWay(t)  == toDev = <<>> /\ socket = <<>> /\ \E r \in Reply : toHost = <<r>> /\ Answers(r, t)
There(t)  == toDev = <<>> /\ toHost = <<>> /\ \E r \in Reply : socket = <<r>> /\ Answers(r, t)

(* Between calls nothing is under way; a thread that waits has its request *)
(* or its own reply under way, unless it was lost.                         *)
InStep(t) ==
  /\ pc[t] \in {"idle", "send"} => Nothing
  /\ pc[t] = "select" => Nothing \/ Asked(t) \/ OnWay(t) \/ There(t)
  /\ pc[t] = "recv" => There(t)
  /\ pc[t] = "idle" /\ result[t] = "ok" => Answers(buf[t], t)

(* The only thread stays in step.                                          *)
LEMMA InStepStep ==
  ASSUME NEW t \in Thread, Thread = {t}, ~MayBeLate, "recvfrom" \notin Errors,
         TypeOK, InStep(t), [Next]_vars
  PROVE  InStep(t)'
<1> USE DEF TypeOK, net, Goto, Return
<1>1. ASSUME NEW g \in Reg, NEW v \in Value, CmdSend(t, g, v) \/ CmdSendThenRecv(t, g, v)
      PROVE  InStep(t)'
  BY <1>1 DEF CmdSend, CmdSendThenRecv, Enter, InStep, Nothing
<1>2. CASE Sendto(t)
  <2>1. Nothing
    BY <1>2 DEF Sendto, InStep
  <2> QED BY <1>2, <2>1 DEF Sendto, InStep, Nothing, Asked
<1>3. CASE SelectReady(t)
  <2>1. There(t)
    BY <1>3 DEF SelectReady, InStep, Nothing, Asked, OnWay
  <2> QED BY <1>3, <2>1 DEF SelectReady, InStep, There, Answers
<1>4. CASE SelectTimeout(t)
  BY <1>4 DEF SelectTimeout, InStep, Nothing
<1>5. CASE Recvfrom(t)
  <2>1. PICK r \in Reply : socket = <<r>> /\ Answers(r, t) /\ toDev = <<>> /\ toHost = <<>>
    BY <1>5 DEF Recvfrom, InStep, There
  <2>2. buf'[t] = r /\ socket' = <<>> /\ pc'[t] = "idle" /\ Nothing'
    BY <1>5, <2>1 DEF Recvfrom, Nothing
  <2> QED BY <1>5, <2>1, <2>2 DEF Recvfrom, InStep, Answers
<1>6. CASE Device
  <2> DEFINE m == call[t]
             r == [reg |-> m.reg, val |-> regs'[m.reg]]
  <2>1. Asked(t) /\ pc[t] = "select"
    BY <1>6 DEF Device, InStep, Nothing, Asked, OnWay, There
  <2>2. Head(toDev) = m /\ Tail(toDev) = <<>>
    BY <2>1 DEF Asked
  <2>3. toDev' = <<>> /\ toHost' = <<r>> /\ socket' = <<>> /\ UNCHANGED <<pc, call, buf, result>>
    BY <1>6, <2>1, <2>2 DEF Device, Asked
  <2>4. regs' = IF m.op = "set" THEN [regs EXCEPT ![m.reg] = m.val] ELSE regs
    BY <1>6, <2>2 DEF Device
  <2>5. m \in Message /\ m.reg \in Reg
    BY DEF Message
  <2>6. r \in Reply
    BY <2>4, <2>5 DEF Reply, Message
  <2>7. PICK q \in Reply : q = r
    BY <2>6
  <2>8. q.reg = m.reg /\ q.val = regs'[m.reg] /\ (m.op = "set" => q.val = m.val)
    BY <2>4, <2>5, <2>7
  <2>10. Answers(q, t)'
    BY <2>3, <2>8 DEF Answers
  <2>9. OnWay(t)'
    BY <2>3, <2>7, <2>10 DEF OnWay
  <2> QED BY <2>1, <2>3, <2>9 DEF InStep
<1>7. CASE Arrive
  <2>1. OnWay(t) /\ pc[t] = "select"
    BY <1>7 DEF Arrive, InStep, Nothing, Asked, There
  <2>2. PICK r \in Reply : toHost = <<r>> /\ Answers(r, t)
    BY <2>1 DEF OnWay
  <2>3. socket' = <<r>> /\ toHost' = <<>> /\ toDev' = <<>>
    BY <1>7, <2>1, <2>2 DEF Arrive, OnWay
  <2>4. Answers(r, t)' /\ pc'[t] = "select"
    BY <1>7, <2>1, <2>2 DEF Arrive, Answers
  <2> QED BY <2>3, <2>4 DEF InStep, There
<1>8. CASE Lose
  <2>1. pc[t] = "select" /\ (Asked(t) \/ OnWay(t))
    BY <1>8 DEF Lose, InStep, Nothing, There
  <2>2. Nothing'
    BY <1>8, <2>1 DEF Lose, Asked, OnWay, Nothing
  <2> QED BY <1>8, <2>1, <2>2 DEF Lose, InStep
<1>9. CASE UNCHANGED vars
  BY <1>9 DEF vars, InStep, Nothing, Asked, OnWay, There, Answers
<1> QED BY <1>1, <1>2, <1>3, <1>4, <1>5, <1>6, <1>7, <1>8, <1>9 DEF Next, Step


(* A thread that is alone is in step in every reachable state.             *)
LEMMA AlwaysInStep ==
  ASSUME NEW t \in Thread, Thread = {t}, ~MayBeLate, "recvfrom" \notin Errors
  PROVE  Spec => [](TypeOK /\ InStep(t))
<1>1. Init => TypeOK /\ InStep(t)
  BY InitTypeOK DEF Init, InStep, Nothing
<1>2. TypeOK /\ InStep(t) /\ [Next]_vars => (TypeOK /\ InStep(t))'
  BY TypeOKStep, InStepStep
<1> QED BY <1>1, <1>2, PTL DEF Spec

(* What a call of the only thread returns as its own is its own.  That no  *)
(* datagram is late is what it takes: with late ones TLC finds another     *)
(* call's answer reported.                                                 *)
THEOREM SfpSuccessIsOwn ==
  ASSUME NEW t \in Thread, Thread = {t}, ~MayBeLate, "recvfrom" \notin Errors
  PROVE  Spec => []SuccessIsOwn
<1>1. TypeOK /\ InStep(t) => SuccessIsOwn
  BY DEF InStep, SuccessIsOwn, Answers, TypeOK, Message
<1> QED BY AlwaysInStep, <1>1, PTL

-----------------------------------------------------------------------------
(* The abstract view of SfpLink: RegisterService.                          *)

Phase == [t \in Thread |-> IF pc[t] = "idle" THEN "idle"
                           ELSE IF Applied(t) THEN "applied"
                           ELSE IF pc[t] = "send" \/ toDev # <<>> THEN "invoked"
                           ELSE "failed"]
Req == [t \in Thread |-> IF pc[t] = "idle" THEN Null ELSE call[t]]
Out == [t \in Thread |-> IF Applied(t) THEN Head(Replies).val ELSE Null]

(* The view of the only thread.                                            *)
View(t, p, q, o) == Phase = [x \in Thread |-> p] /\ Req = [x \in Thread |-> q] /\ Out = [x \in Thread |-> o]

Views(t) ==
  /\ pc[t] = "idle" => View(t, "idle", Null, Null)
  /\ pc[t] = "send" => View(t, "invoked", call[t], Null)
  /\ pc[t] = "select" /\ Nothing => View(t, "failed", call[t], Null)
  /\ Asked(t) /\ pc[t] = "select" => View(t, "invoked", call[t], Null)
  /\ OnWay(t) \/ There(t) =>
       pc[t] \in {"select", "recv"} /\ View(t, "applied", call[t], regs[call[t].reg])

(* The view follows from where the request or its reply is.                *)
LEMMA ViewOf ==
  ASSUME NEW t \in Thread, Thread = {t}
  PROVE  TypeOK /\ InStep(t) => Views(t)
<1> SUFFICES ASSUME TypeOK, InStep(t) PROVE Views(t)
  OBVIOUS
<1> USE DEF Views
<1>1. CASE pc[t] = "idle"
  BY <1>1 DEF View, Phase, Req, Out, Applied, InStep, Nothing, OnWay, There
<1>2. CASE pc[t] = "send"
  BY <1>2 DEF View, Phase, Req, Out, Applied, InStep, Nothing, OnWay, There
<1>3. CASE pc[t] = "select" /\ Nothing
  <2>1. Replies = <<>>
    BY <1>3 DEF Nothing, Replies
  <2> QED BY <1>3, <2>1 DEF View, Phase, Req, Out, Applied, Nothing, OnWay, There, Asked
<1>4. CASE Asked(t) /\ pc[t] = "select"
  <2>1. Replies = <<>>
    BY <1>4 DEF Asked, Replies
  <2> QED BY <1>4, <2>1 DEF View, Phase, Req, Out, Applied, Nothing, OnWay, There, Asked
<1>5. CASE (OnWay(t) \/ There(t)) /\ pc[t] \in {"select", "recv"}
  <2>1. PICK r \in Reply : Replies = <<r>> /\ Answers(r, t)
    <3>1. CASE OnWay(t)
      <4>1. PICK r \in Reply : toHost = <<r>> /\ Answers(r, t) /\ socket = <<>>
        BY <3>1 DEF OnWay
      <4>2. <<>> \o <<r>> = <<r>>
        BY ConcatEmptySeq, <<r>> \in Seq(Reply)
      <4> QED BY <4>1, <4>2 DEF Replies
    <3>2. CASE There(t)
      <4>1. PICK r \in Reply : socket = <<r>> /\ Answers(r, t) /\ toHost = <<>>
        BY <3>2 DEF There
      <4>2. <<r>> \o <<>> = <<r>>
        BY ConcatEmptySeq, <<r>> \in Seq(Reply)
      <4> QED BY <4>1, <4>2 DEF Replies
    <3> QED BY <1>5, <3>1, <3>2
  <2>2. Replies # <<>> /\ Head(Replies) = r
    BY <2>1
  <2>3. Applied(t) /\ Head(Replies).val = regs[call[t].reg]
    BY <1>5, <2>1, <2>2 DEF Applied, Answers
  <2>4. ~Nothing /\ ~Asked(t)
    BY <1>5 DEF Nothing, OnWay, There, Asked
  <2>5. View(t, "applied", call[t], regs[call[t].reg])
    BY <1>5, <2>3 DEF View, Phase, Req, Out
  <2> QED BY <1>5, <2>4, <2>5
<1> QED BY <1>1, <1>2, <1>3, <1>4, <1>5 DEF TypeOK, InStep, Nothing, OnWay, There

(* Two views make a step of the abstract view.                             *)
LEMMA ViewStep ==
  ASSUME NEW t \in Thread, Thread = {t}, NEW p, NEW q, NEW o, NEW p2, NEW q2, NEW o2,
         View(t, p, q, o), View(t, p2, q2, o2)'
  PROVE  /\ Phase[t] = p /\ Req[t] = q /\ Out[t] = o
         /\ Phase' = [Phase EXCEPT ![t] = p2]
         /\ Req' = [Req EXCEPT ![t] = q2]
         /\ Out' = [Out EXCEPT ![t] = o2]
         /\ p = p2 => Phase' = Phase
         /\ q = q2 => Req' = Req
         /\ o = o2 => Out' = Out
BY DEF View

(* The same after a step.                                                  *)
LEMMA ViewOfNext ==
  ASSUME NEW t \in Thread, Thread = {t}
  PROVE  TypeOK' /\ InStep(t)' => Views(t)'
<1>1. TypeOK /\ InStep(t) => Views(t)
  BY ViewOf
<1> QED BY <1>1, PTL

(* Every step of the only thread, of the network and of the device is one  *)
(* of RegisterService, or leaves its view as it is.                        *)
LEMMA Refines ==
  ASSUME NEW t \in Thread, Thread = {t}, ~MayBeLate, "recvfrom" \notin Errors,
         TypeOK, InStep(t), TypeOK', InStep(t)', [Next]_vars
  PROVE  [Service!Next]_(Service!vars)
<1> USE DEF Goto, Return, net
<1>v. Views(t) /\ Views(t)'
  BY ViewOf, ViewOfNext
<1>a. ASSUME NEW q \in Message, NEW o, View(t, "idle", Null, o), View(t, "invoked", q, o)', regs' = regs
      PROVE  Service!Invoke(t)
  <2>1. /\ Phase[t] = "idle" /\ Phase' = [Phase EXCEPT ![t] = "invoked"]
        /\ Req' = [Req EXCEPT ![t] = q] /\ Out' = Out
    BY <1>a, ViewStep
  <2>2. q \in Service!Request
    BY DEF Message, Service!Request
  <2> QED BY <1>a, <2>1, <2>2 DEF Service!Invoke, Phase, Req, Out
<1>b. ASSUME NEW p \in {"invoked", "applied", "failed"}, NEW q, NEW o,
             View(t, p, q, o), View(t, "idle", Null, Null)', regs' = regs
      PROVE  Service!Return(t) \/ Service!Fail(t)
  <2>1. /\ Phase[t] = p /\ Phase' = [Phase EXCEPT ![t] = "idle"]
        /\ Req' = [Req EXCEPT ![t] = Null] /\ Out' = [Out EXCEPT ![t] = Null]
    BY <1>b, ViewStep
  <2> QED BY <1>b, <2>1 DEF Service!Return, Service!Fail, Service!End, Phase, Req, Out
<1>c. ASSUME NEW p \in {"invoked", "applied"}, NEW q, NEW o,
             View(t, p, q, o), View(t, "failed", q, Null)', regs' = regs
      PROVE  Service!Lose(t)
  <2>1. /\ Phase[t] = p /\ Phase' = [Phase EXCEPT ![t] = "failed"]
        /\ Req' = Req /\ Out' = [Out EXCEPT ![t] = Null]
    BY <1>c, ViewStep
  <2> QED BY <1>c, <2>1 DEF Service!Lose, Phase, Req, Out
<1>d. ASSUME NEW p, NEW q, NEW o, View(t, p, q, o), View(t, p, q, o)', regs' = regs
      PROVE  UNCHANGED Service!vars
  <2>1. Phase' = Phase /\ Req' = Req /\ Out' = Out
    BY <1>d, ViewStep
  <2> QED BY <1>d, <2>1 DEF Service!vars, Phase, Req, Out
<1>1. ASSUME NEW g \in Reg, NEW v \in Value, CmdSend(t, g, v) \/ CmdSendThenRecv(t, g, v)
      PROVE  Service!Invoke(t)
  <2>1. pc[t] = "idle" /\ pc'[t] = "send" /\ regs' = regs /\ call'[t] \in Message
    BY <1>1 DEF CmdSend, CmdSendThenRecv, Enter, TypeOK
  <2>2. View(t, "idle", Null, Null) /\ View(t, "invoked", call[t], Null)'
    BY <2>1, <1>v DEF Views
  <2>3. PICK q \in Message : q = call'[t]
    BY <2>1
  <2>4. View(t, "invoked", q, Null)'
    BY <2>2, <2>3 DEF View
  <2> QED BY <1>a, <2>1, <2>2, <2>4 DEF View
<1>2. CASE Sendto(t)
  <2>1. View(t, "invoked", call[t], Null) /\ regs' = regs /\ call' = call
    BY <1>2, <1>v DEF Sendto, Views
  <2>2. CASE pc'[t] = "idle"
    <3>1. View(t, "idle", Null, Null)'
      BY <2>2, <1>v DEF Views
    <3> QED BY <1>b, <2>1, <3>1 DEF Service!Next
  <2>3. CASE toDev' = Append(toDev, call[t]) /\ pc'[t] = "select"
    <3>1. toDev' # <<>>
      BY <2>3 DEF TypeOK
    <3>2. Asked(t)' /\ pc'[t] = "select"
      BY <1>2, <2>3, <3>1 DEF Sendto, InStep, Nothing, Asked
    <3>3. View(t, "invoked", call[t], Null)'
      BY <3>2, <1>v DEF Views
    <3>4. PICK q : q = call[t]
      OBVIOUS
    <3>5. View(t, "invoked", q, Null) /\ View(t, "invoked", q, Null)'
      BY <2>1, <3>3, <3>4 DEF View
    <3> QED BY <1>d, <2>1, <3>5 DEF View
  <2> QED BY <1>2, <2>2, <2>3 DEF Sendto, TypeOK
<1>3. CASE SelectReady(t)
  <2>1. There(t)
    BY <1>3 DEF SelectReady, InStep, Nothing, Asked, OnWay
  <2>2. There(t)' /\ call' = call /\ regs' = regs
    BY <1>3, <2>1 DEF SelectReady, InStep, TypeOK
  <2>3. PICK q, o : q = call[t] /\ o = regs[call[t].reg]
    OBVIOUS
  <2>4. View(t, "applied", q, o) /\ View(t, "applied", q, o)'
    BY <2>1, <2>2, <2>3, <1>v DEF View, Views
  <2> QED BY <1>d, <2>2, <2>4 DEF View
<1>4. CASE SelectTimeout(t)
  <2>1. Nothing /\ pc[t] = "select" /\ pc'[t] = "idle" /\ regs' = regs
    BY <1>4 DEF SelectTimeout, Nothing, TypeOK
  <2>2. View(t, "failed", call[t], Null) /\ View(t, "idle", Null, Null)'
    BY <2>1, <1>v DEF Views
  <2> QED BY <1>b, <2>1, <2>2 DEF Service!Next
<1>5. CASE Recvfrom(t)
  <2>1. There(t) /\ pc'[t] = "idle" /\ regs' = regs
    BY <1>5 DEF Recvfrom, InStep, TypeOK
  <2>2. View(t, "applied", call[t], regs[call[t].reg]) /\ View(t, "idle", Null, Null)'
    BY <2>1, <1>v DEF Views
  <2> QED BY <1>b, <2>1, <2>2 DEF Service!Next
<1>6. CASE Device
  <2>1. Asked(t) /\ pc[t] = "select"
    BY <1>6 DEF Device, InStep, Nothing, Asked, OnWay, There, TypeOK
  <2>2. Head(toDev) = call[t] /\ call' = call /\ toHost' # <<>> /\ pc' = pc
    BY <1>6, <2>1 DEF Device, Asked, TypeOK
  <2>3. regs' = IF call[t].op = "set" THEN [regs EXCEPT ![call[t].reg] = call[t].val] ELSE regs
    BY <1>6, <2>2 DEF Device
  <2>4. OnWay(t)'
    BY <2>1, <2>2 DEF InStep, Nothing, Asked, There
  <2>5. View(t, "invoked", call[t], Null)
    BY <2>1, <1>v DEF Views
  <2>6. View(t, "applied", call[t], regs[call[t].reg])'
    BY <2>4, <1>v DEF Views
  <2>7. PICK q, o : q = call[t] /\ o = regs'[call[t].reg]
    OBVIOUS
  <2>8. View(t, "invoked", q, Null) /\ View(t, "applied", q, o)'
    BY <2>2, <2>5, <2>6, <2>7 DEF View
  <2>9. /\ Phase[t] = "invoked" /\ Phase' = [Phase EXCEPT ![t] = "applied"]
        /\ Req' = Req /\ Req[t] = q /\ Out' = [Out EXCEPT ![t] = o]
    BY <2>8, ViewStep
  <2>10. Service!Apply(t)
    BY <2>3, <2>7, <2>9 DEF Service!Apply, Phase, Req, Out
  <2> QED BY <2>10 DEF Service!Next
<1>7. CASE Arrive
  <2>1. OnWay(t) /\ pc[t] = "select"
    BY <1>7 DEF Arrive, InStep, Nothing, Asked, There, TypeOK
  <2>2. socket' # <<>> /\ call' = call /\ regs' = regs /\ pc' = pc
    BY <1>7 DEF Arrive, TypeOK
  <2>3. There(t)'
    BY <2>1, <2>2 DEF InStep, Nothing, Asked, OnWay
  <2>4. PICK q, o : q = call[t] /\ o = regs[call[t].reg]
    OBVIOUS
  <2>5. View(t, "applied", q, o) /\ View(t, "applied", q, o)'
    BY <2>1, <2>2, <2>3, <2>4, <1>v DEF View, Views
  <2> QED BY <1>d, <2>2, <2>5 DEF View
<1>8. CASE Lose
  <2>1. pc[t] = "select" /\ (Asked(t) \/ OnWay(t))
    BY <1>8 DEF Lose, InStep, Nothing, There, TypeOK
  <2>2. Nothing' /\ pc'[t] = "select" /\ call' = call /\ regs' = regs
    BY <1>8, <2>1 DEF Lose, Asked, OnWay, Nothing, TypeOK
  <2>3. PICK q : q = call[t]
    OBVIOUS
  <2>4. View(t, "failed", q, Null)'
    BY <2>2, <2>3, <1>v DEF View, Views
  <2>5. PICK p, o : p \in {"invoked", "applied"} /\ View(t, p, q, o)
    BY <2>1, <2>3, <1>v DEF Views
  <2> QED BY <1>c, <2>2, <2>4, <2>5 DEF View, Service!Next
<1>9. CASE UNCHANGED vars
  BY <1>9 DEF vars, Service!vars, Phase, Req, Out, Applied, Replies
<1>10. ASSUME NEW g \in Reg, NEW v \in Value, CmdSend(t, g, v) \/ CmdSendThenRecv(t, g, v)
       PROVE  Service!Next
  BY <1>1, <1>10 DEF Service!Next
<1> QED BY <1>2, <1>3, <1>4, <1>5, <1>6, <1>7, <1>8, <1>9, <1>10 DEF Next, Step

(* The commands of a program of one thread are atomic operations on the    *)
(* registers, over a network that loses but does not delay: get and set    *)
(* take effect at one instant, and a failed one never afterwards.          *)
THEOREM SfpImplementsService ==
  ASSUME NEW t \in Thread, Thread = {t}, ~MayBeLate, "recvfrom" \notin Errors
  PROVE  Spec => ServiceSpec
<1>1. Init => Service!Init
  <2> SUFFICES ASSUME Init PROVE Service!Init
    OBVIOUS
  <2>1. TypeOK /\ InStep(t) /\ pc[t] = "idle"
    BY InitTypeOK DEF Init, InStep, Nothing
  <2>2. View(t, "idle", Null, Null)
    BY <2>1, ViewOf DEF Views
  <2>3. \E v \in Value : regs = [x \in Reg |-> v]
    BY DEF Init
  <2> QED BY <2>2, <2>3 DEF View, Service!Init, Phase, Req, Out
<1>2. (TypeOK /\ InStep(t)) /\ (TypeOK /\ InStep(t))' /\ [Next]_vars
        => [Service!Next]_(Service!vars)
  BY Refines
<1> QED BY <1>1, <1>2, AlwaysInStep, PTL DEF Spec, ServiceSpec, Service!Spec

-----------------------------------------------------------------------------
(* Registers and bits.                                                     *)

(* What a port is.                                                         *)
LEMMA PortParts ==
  ASSUME NEW p \in Port
  PROVE  /\ p = <<p[1], p[2], p[3]>> /\ p[1] \in Chip /\ p[2] \in {"rx", "tx"}
         /\ p[3] \in Channels \ {1} /\ p[3] \in 2 .. 4
<1>1. p = <<p[1], p[2], p[3]>> /\ p[1] \in Chip /\ p[2] \in Dir /\ p[3] \in Channels \ {1}
  BY DEF Port
<1>2. Channels \subseteq 1 .. 4
  BY CorrAssumption
<1>3. PICK c \in 1 .. 4 : c = p[3] /\ c # 1
  BY <1>1, <1>2
<1>4. c \in 2 .. 4
  BY <1>3
<1> QED BY <1>1, <1>3, <1>4 DEF Dir

(* Each port has a register of its own, and a bit of its own in the switch *)
(* register of its chip.  Other calls use none of these.                   *)
LEMMA PortRegs ==
  /\ \A rf \in Chip : Status(rf) \in Reg /\ Status(rf) \notin Plain
  /\ \A p \in Port : CoefOf(p) \in Reg /\ CoefOf(p) \notin Plain
  /\ \A p \in Port, rf \in Chip : CoefOf(p) # Status(rf)
  /\ \A p, q \in Port : CoefOf(p) = CoefOf(q) => p = q
  /\ \A p, q \in Port : p[1] = q[1] /\ SwitchOf(p) = SwitchOf(q) => p = q
  /\ \A rf, c \in Chip : Status(rf) = Status(c) => rf = c
<1>1. ASSUME NEW rf \in Chip
      PROVE  Status(rf) \in Reg /\ Status(rf) \notin Plain
  <2>1. Status(rf) \in Reg
    BY CorrAssumption
  <2>2. Status(rf) \in Chip \X (35 .. 41)
    BY DEF Status, SwitchReg
  <2> QED BY <2>1, <2>2, CorrAssumption
<1>2. ASSUME NEW p \in Port
      PROVE  CoefOf(p) \in Reg /\ CoefOf(p) \notin Plain /\ RegOf(p[2], p[3]) # SwitchReg
  <2>1. CoefOf(p) \in Reg
    BY CorrAssumption
  <2>2. RegOf(p[2], p[3]) \in 35 .. 41 /\ RegOf(p[2], p[3]) # SwitchReg
    BY PortParts DEF RegOf, SwitchReg
  <2>3. CoefOf(p) \in Chip \X (35 .. 41)
    BY <2>2, PortParts DEF CoefOf
  <2> QED BY <2>1, <2>2, <2>3, CorrAssumption
<1>3. \A p \in Port, rf \in Chip : CoefOf(p) # Status(rf)
  BY <1>2 DEF CoefOf, Status
<1>4. ASSUME NEW p \in Port, NEW q \in Port
      PROVE  /\ CoefOf(p) = CoefOf(q) => p = q
             /\ p[1] = q[1] /\ SwitchOf(p) = SwitchOf(q) => p = q
  <2>1. /\ p = <<p[1], p[2], p[3]>> /\ p[2] \in {"rx", "tx"} /\ p[3] \in 2 .. 4
        /\ q = <<q[1], q[2], q[3]>> /\ q[2] \in {"rx", "tx"} /\ q[3] \in 2 .. 4
    BY PortParts
  <2>2. RegOf(p[2], p[3]) = RegOf(q[2], q[3]) => p[2] = q[2] /\ p[3] = q[3]
    BY <2>1 DEF RegOf
  <2>3. BitOf(p[2], p[3]) = BitOf(q[2], q[3]) => p[2] = q[2] /\ p[3] = q[3]
    BY <2>1 DEF BitOf
  <2>4. CoefOf(p) = CoefOf(q) => p[1] = q[1] /\ RegOf(p[2], p[3]) = RegOf(q[2], q[3])
    BY DEF CoefOf
  <2> QED BY <2>1, <2>2, <2>3, <2>4 DEF SwitchOf
<1>5. \A rf, c \in Chip : Status(rf) = Status(c) => rf = c
  BY DEF Status
<1> QED BY <1>1, <1>2, <1>3, <1>4, <1>5

(* The arguments of a call, by kind.                                       *)
LEMMA ArgsParts ==
  ASSUME NEW a \in Args
  PROVE  /\ a.rf \in Chip /\ a.dir \in Dir /\ a.ch \in Channels /\ a.op \in {"coef", "switch"}
         /\ a.op = "coef" => a.coef \in Coef
         /\ a.op = "switch" => a.on \in BOOLEAN
         /\ a.ch # 1 => <<a.rf, a.dir, a.ch>> \in Port
BY DEF Args, Port

-----------------------------------------------------------------------------
(* Every step of a correction call is one of the command channel, or       *)
(* leaves it alone.                                                        *)

CorrTypes ==
  /\ step \in [Thread -> {"idle", "read", "write"}]
  /\ args \in [Thread -> Args]
  /\ ret \in [Thread -> {"none", "ok", "failed"}]
  /\ \A t \in Thread : step[t] # "idle" => ret[t] = "none"

(* The new contents of the switch register are contents it can have.       *)
LEMMA NewStatusType ==
  ASSUME NEW t \in Thread, TypeOK, CorrTypes, NEW v \in Value
  PROVE  NewStatus(t, v) \in Value
<1>1. args[t].dir \in Dir /\ args[t].ch \in Channels
  BY ArgsParts DEF CorrTypes
<1>2. CASE args[t].ch = 1
  BY <1>2 DEF NewStatus
<1>3. CASE args[t].ch # 1
  <2>1. {v \cup {BitOf(args[t].dir, args[t].ch)}, v \ {BitOf(args[t].dir, args[t].ch)}} \subseteq Value
    BY <1>1, <1>3, CorrAssumption
  <2> QED BY <1>3, <2>1 DEF NewStatus
<1> QED BY <1>2, <1>3

(* Whatever a call reads or writes is a register of the device.            *)
LEMMA SetsARegister ==
  /\ \A rf \in Chip, dir \in Dir, ch \in Channels \ {1} : <<rf, RegOf(dir, ch)>> \in Reg
  /\ \A rf \in Chip : Status(rf) \in Reg
  /\ 0 \in Chip /\ {} \in Value /\ Coef \subseteq Value /\ Plain \subseteq Reg
<1>1. ASSUME NEW rf \in Chip, NEW dir \in Dir, NEW ch \in Channels \ {1} PROVE <<rf, RegOf(dir, ch)>> \in Reg
  <2>1. <<rf, dir, ch>> \in Port
    BY DEF Port
  <2>2. CoefOf(<<rf, dir, ch>>) \in Reg
    BY <2>1, PortRegs
  <2> QED BY <2>2 DEF CoefOf
<1> QED BY <1>1, CorrAssumption, PortRegs

(* Every step is one of SfpLink or leaves its variables alone.             *)
LEMMA CorrIsLink ==
  ASSUME TypeOK, CorrTypes, [CorrNext]_<<api, vars>>
  PROVE  [Next]_vars /\ CorrTypes'
<1> USE DEF CorrTypes
<1>1. ASSUME NEW t \in Thread, ReadReturns(t) PROVE (Next \/ UNCHANGED vars) /\ CorrTypes'
  <2>1. CASE WriteBack(t)
    <3>1. buf[t].val \in Value
      BY DEF TypeOK, Reply
    <3>2. args[t].rf \in Chip
      BY ArgsParts
    <3>3. NewStatus(t, buf[t].val) \in Value /\ Status(args[t].rf) \in Reg
      BY <3>1, <3>2, NewStatusType, PortRegs
    <3>4. Next
      BY <2>1, <3>3 DEF WriteBack, Next
    <3> QED BY <1>1, <2>1, <3>4 DEF WriteBack, ReadReturns
  <2>2. CASE ReadFails(t)
    BY <1>1, <2>2 DEF ReadFails, Finish, ReadReturns
  <2> QED BY <1>1, <2>1, <2>2 DEF ReadReturns
<1>2. ASSUME NEW t \in Thread, WriteReturns(t) PROVE UNCHANGED vars /\ CorrTypes'
  BY <1>2 DEF WriteReturns, Finish
<1>3. ASSUME NEW t \in Thread, OtherCall(t) PROVE Next /\ CorrTypes'
  <2>1. PICK g \in Plain, v \in Coef : CmdSend(t, g, v) \/ CmdSendThenRecv(t, g, v)
    BY <1>3 DEF OtherCall
  <2>2. g \in Reg /\ v \in Value
    BY SetsARegister
  <2>3. Next
    BY <2>1, <2>2 DEF Next
  <2> QED BY <1>3, <2>3 DEF OtherCall, api
<1>4. ASSUME NEW t \in Thread, Link(t) PROVE Next /\ CorrTypes'
  BY <1>4 DEF Link, Next, api
<1>5. ASSUME NEW t \in Thread, NEW rf \in Chip, NEW dir \in Dir, NEW ch \in Channels, NEW k \in Coef,
             SetCoef(t, rf, dir, ch, k)
      PROVE  [Next]_vars /\ CorrTypes'
  <2>1. [op |-> "coef", rf |-> rf, dir |-> dir, ch |-> ch, coef |-> k] \in Args
    BY DEF Args
  <2>2. CASE ch = 1
    BY <1>5, <2>1, <2>2 DEF SetCoef, Finish
  <2>3. CASE ch # 1
    <3>1. <<rf, RegOf(dir, ch)>> \in Reg /\ k \in Value
      BY <2>3, SetsARegister
    <3>2. CmdSend(t, <<rf, RegOf(dir, ch)>>, k)
      BY <1>5, <2>3 DEF SetCoef
    <3>3. Next
      BY <3>1, <3>2 DEF Next
    <3> QED BY <1>5, <2>1, <2>3, <3>3 DEF SetCoef, Begin
  <2> QED BY <2>2, <2>3
<1>6. ASSUME NEW t \in Thread, NEW rf \in Chip, NEW dir \in Dir, NEW ch \in Channels, NEW b \in BOOLEAN,
             EnableCorr(t, rf, dir, ch, b)
      PROVE  Next /\ CorrTypes'
  <2>1. [op |-> "switch", rf |-> rf, dir |-> dir, ch |-> ch, on |-> b] \in Args
    BY DEF Args
  <2>2. CmdSendThenRecv(t, Status(0), {}) /\ Status(0) \in Reg /\ {} \in Value
    BY <1>6, SetsARegister DEF EnableCorr
  <2>3. Next
    BY <2>2 DEF Next
  <2> QED BY <1>6, <2>1, <2>3 DEF EnableCorr, Begin
<1>7. CASE UNCHANGED <<api, vars>>
  BY <1>7 DEF api
<1> QED BY <1>1, <1>2, <1>3, <1>4, <1>5, <1>6, <1>7 DEF CorrNext, CorrStep

-----------------------------------------------------------------------------
(* What the exchange under way has to do with the call it belongs to.      *)

Bit(t) == BitOf(args[t].dir, args[t].ch)

Reads(t) ==
  /\ args[t].op = "switch"
  /\ call[t].op = "get" /\ call[t].reg = Status(0)

SetsCoef(t) ==
  /\ args[t].ch # 1
  /\ call[t].op = "set"
  /\ call[t].reg = <<args[t].rf, RegOf(args[t].dir, args[t].ch)>>
  /\ call[t].val = args[t].coef

SetsSwitch(t) ==
  /\ call[t].op = "set" /\ call[t].reg = Status(args[t].rf)
  /\ call[t].val = NewStatus(t, regs[Status(0)])

Corr(t) ==
  /\ step[t] = "idle" /\ pc[t] # "idle" => call[t].reg \in Plain
  /\ step[t] = "read" => Reads(t)
  /\ step[t] = "write" /\ args[t].op = "coef" => SetsCoef(t)
  /\ step[t] = "write" /\ args[t].op = "switch" => SetsSwitch(t)
  /\ step[t] = "idle" /\ ret[t] = "ok" /\ args[t].op = "switch" /\ args[t].ch # 1 =>
       (Bit(t) \in regs[Status(args[t].rf)] <=> args[t].on)

CorrInv(t) == TypeOK /\ InStep(t) /\ CorrTypes /\ Corr(t)

(* Setting or clearing a bit is done or not, but not undone by a second    *)
(* time.                                                                   *)
LEMMA NewStatusTwice ==
  ASSUME NEW t, NEW v
  PROVE  /\ NewStatus(t, NewStatus(t, v)) = NewStatus(t, v)
         /\ args[t].ch # 1 /\ args[t].on \in BOOLEAN => (Bit(t) \in NewStatus(t, v) <=> args[t].on)
<1>1. NewStatus(t, NewStatus(t, v)) = NewStatus(t, v)
  <2>1. CASE args[t].ch = 1
    BY <2>1 DEF NewStatus
  <2>2. CASE args[t].ch # 1 /\ args[t].on
    BY <2>2 DEF NewStatus
  <2>3. CASE args[t].ch # 1 /\ ~args[t].on
    BY <2>3 DEF NewStatus
  <2> QED BY <2>1, <2>2, <2>3
<1>2. ASSUME args[t].ch # 1, args[t].on PROVE Bit(t) \in NewStatus(t, v)
  BY <1>2 DEF NewStatus, Bit
<1>3. ASSUME args[t].ch # 1, ~args[t].on PROVE Bit(t) \notin NewStatus(t, v)
  BY <1>3 DEF NewStatus, Bit
<1> QED BY <1>1, <1>2, <1>3

(* What Device does with a command of the only thread.                     *)
LEMMA DeviceSets ==
  ASSUME NEW t \in Thread, TypeOK, InStep(t), Device
  PROVE  /\ pc[t] = "select" /\ Asked(t) /\ UNCHANGED <<pc, call, buf, result>>
         /\ call[t] \in Message
         /\ regs' = IF call[t].op = "set" THEN [regs EXCEPT ![call[t].reg] = call[t].val] ELSE regs
<1>1. Asked(t) /\ pc[t] = "select"
  BY DEF Device, InStep, Nothing, Asked, OnWay, There, TypeOK
<1>2. Head(toDev) = call[t]
  BY <1>1 DEF Asked
<1> QED BY <1>1, <1>2 DEF Device, TypeOK

(* What a correction call that has read register 38 does next.             *)
LEMMA WritesBack ==
  ASSUME NEW t \in Thread, CorrInv(t), ReadReturns(t), WriteBack(t)
  PROVE  /\ step[t] = "read" /\ pc[t] = "idle" /\ step'[t] = "write" /\ pc'[t] = "send"
         /\ UNCHANGED <<args, regs, ret>>
         /\ SetsSwitch(t)'
<1> USE DEF CorrInv
<1>1. /\ step[t] = "read" /\ pc[t] = "idle" /\ step'[t] = "write" /\ pc'[t] = "send"
      /\ UNCHANGED <<args, regs, ret>>
      /\ call'[t] = [op |-> "set", reg |-> Status(args[t].rf), val |-> NewStatus(t, buf[t].val)]
  BY DEF ReadReturns, WriteBack, CmdSend, Enter, CorrTypes, TypeOK
<1>2. result[t] = "ok"
  BY <1>1 DEF ReadReturns, ReadFails, Finish, CorrTypes
<1>3. buf[t].val = regs[Status(0)]
  BY <1>1, <1>2 DEF InStep, Answers, Corr, Reads
<1>4. NewStatus(t, regs[Status(0)])' = NewStatus(t, regs[Status(0)])
  BY <1>1 DEF NewStatus
<1>5. Status(args[t].rf)' = Status(args[t].rf)
  BY <1>1
<1> QED BY <1>1, <1>3, <1>4, <1>5 DEF SetsSwitch

(* Every step keeps the exchange in line with its call.                    *)
LEMMA CorrStepKeeps ==
  ASSUME NEW t \in Thread, Thread = {t}, ~MayBeLate, "recvfrom" \notin Errors,
         CorrInv(t), TypeOK', CorrTypes', InStep(t)', [CorrNext]_<<api, vars>>
  PROVE  Corr(t)'
<1> USE DEF CorrInv, Reads, SetsCoef, SetsSwitch
<1>t. /\ call[t] \in Message /\ args[t] \in Args /\ args[t].rf \in Chip
      /\ args[t].op = "switch" => args[t].on \in BOOLEAN
  BY ArgsParts DEF TypeOK, CorrTypes
<1>s. 0 \in Chip /\ Status(0) \in Reg /\ Status(args[t].rf) \in Reg
  BY <1>t, SetsARegister
<1>1. CASE ReadReturns(t)
  <2>1. CASE WriteBack(t)
    <3>1. step'[t] = "write" /\ args' = args /\ SetsSwitch(t)' /\ args[t].op = "switch"
      BY <1>1, <2>1, WritesBack DEF Corr
    <3> QED BY <3>1 DEF Corr
  <2>2. CASE ReadFails(t)
    BY <1>1, <2>2 DEF ReadFails, ReadReturns, Finish, Corr, CorrTypes, vars
  <2> QED BY <1>1, <2>1, <2>2 DEF ReadReturns
<1>2. CASE WriteReturns(t)
  <2>1. /\ step[t] = "write" /\ pc[t] = "idle" /\ step'[t] = "idle" /\ pc'[t] = "idle"
        /\ ret'[t] = "ok" => result[t] = "ok"
        /\ regs' = regs /\ args' = args
    BY <1>2 DEF WriteReturns, Finish, vars, CorrTypes
  <2>2. ret'[t] = "ok" /\ args[t].op = "switch" /\ args[t].ch # 1 =>
          (Bit(t) \in regs[Status(args[t].rf)] <=> args[t].on)
    <3> SUFFICES ASSUME ret'[t] = "ok", args[t].op = "switch", args[t].ch # 1
                 PROVE  Bit(t) \in regs[Status(args[t].rf)] <=> args[t].on
      OBVIOUS
    <3>1. regs[Status(args[t].rf)] = call[t].val /\ call[t].val = NewStatus(t, regs[Status(0)])
      BY <2>1 DEF InStep, Answers, Corr
    <3> QED BY <1>t, <3>1, NewStatusTwice
  <2>3. Bit(t)' = Bit(t) /\ Status(args[t].rf)' = Status(args[t].rf)
    BY <2>1 DEF Bit
  <2> QED BY <2>1, <2>2, <2>3 DEF Corr
<1>3. CASE OtherCall(t)
  <2>1. PICK g \in Plain : pc'[t] = "send" /\ call'[t].reg = g /\ UNCHANGED <<api, regs>> /\ step[t] = "idle"
    BY <1>3 DEF OtherCall, Idle, CmdSend, CmdSendThenRecv, Enter, TypeOK
  <2>2. UNCHANGED <<step, args, ret>>
    BY <2>1 DEF api
  <2>3. Bit(t)' = Bit(t) /\ Status(args[t].rf)' = Status(args[t].rf)
    BY <2>2 DEF Bit
  <2> QED BY <2>1, <2>2, <2>3 DEF Corr
<1>4. CASE Link(t)
  <2>1. CASE Device
    <3>1. /\ pc[t] = "select" /\ UNCHANGED <<pc, call, step, args, ret>>
          /\ regs' = IF call[t].op = "set" THEN [regs EXCEPT ![call[t].reg] = call[t].val] ELSE regs
      BY <1>4, <2>1, DeviceSets DEF Link, api
    <3>2. step[t] = "idle" => regs'[Status(args[t].rf)] = regs[Status(args[t].rf)]
      <4>1. step[t] = "idle" => call[t].reg # Status(args[t].rf)
        BY <1>t, <3>1, PortRegs DEF Corr
      <4> QED BY <1>s, <3>1, <4>1 DEF TypeOK
    <3>3. step[t] = "write" /\ args[t].op = "switch" => call[t].val = NewStatus(t, regs'[Status(0)])
      <4> SUFFICES ASSUME step[t] = "write", args[t].op = "switch"
                   PROVE  call[t].val = NewStatus(t, regs'[Status(0)])
        OBVIOUS
      <4>1. call[t].val = NewStatus(t, regs[Status(0)])
        BY DEF Corr
      <4>2. regs'[Status(0)] = regs[Status(0)] \/ regs'[Status(0)] = call[t].val
        BY <1>s, <3>1 DEF Corr, TypeOK
      <4> QED BY <4>1, <4>2, NewStatusTwice
    <3>4. NewStatus(t, regs[Status(0)])' = NewStatus(t, regs'[Status(0)])
      BY <3>1 DEF NewStatus
    <3>5. Bit(t)' = Bit(t) /\ Status(args[t].rf)' = Status(args[t].rf)
      BY <3>1 DEF Bit
    <3> QED BY <3>1, <3>2, <3>3, <3>4, <3>5 DEF Corr
  <2>2. CASE Step(t) \/ Arrive \/ Lose
    <3>1. UNCHANGED <<call, regs, step, args, ret>> /\ (pc'[t] # "idle" => pc[t] # "idle")
      BY <1>4, <2>2 DEF Link, api, Step, Sendto, SelectReady, SelectTimeout, Recvfrom, Arrive, Lose,
                        Goto, Return, TypeOK, net
    <3>2. NewStatus(t, regs[Status(0)])' = NewStatus(t, regs[Status(0)])
      BY <3>1 DEF NewStatus
    <3>3. Bit(t)' = Bit(t) /\ Status(args[t].rf)' = Status(args[t].rf)
      BY <3>1 DEF Bit
    <3> QED BY <3>1, <3>2, <3>3 DEF Corr
  <2> QED BY <1>4, <2>1, <2>2 DEF Link
<1>5. ASSUME NEW rf \in Chip, NEW dir \in Dir, NEW ch \in Channels, NEW k \in Coef, SetCoef(t, rf, dir, ch, k)
      PROVE  Corr(t)'
  <2>1. args'[t] = [op |-> "coef", rf |-> rf, dir |-> dir, ch |-> ch, coef |-> k]
    BY <1>5 DEF SetCoef, CorrTypes
  <2>2. CASE ch = 1
    <3>1. step'[t] = "idle" /\ pc'[t] = "idle"
      BY <1>5, <2>2 DEF SetCoef, Idle, Finish, vars, CorrTypes
    <3> QED BY <2>1, <3>1 DEF Corr
  <2>3. CASE ch # 1
    <3>1. step'[t] = "write" /\ call'[t] = [op |-> "set", reg |-> <<rf, RegOf(dir, ch)>>, val |-> k]
      BY <1>5, <2>3 DEF SetCoef, Begin, CmdSend, Enter, CorrTypes, TypeOK
    <3> QED BY <2>1, <2>3, <3>1 DEF Corr
  <2> QED BY <2>2, <2>3
<1>6. ASSUME NEW rf \in Chip, NEW dir \in Dir, NEW ch \in Channels, NEW b \in BOOLEAN, EnableCorr(t, rf, dir, ch, b)
      PROVE  Corr(t)'
  <2>1. args'[t].op = "switch" /\ step'[t] = "read" /\ call'[t].op = "get" /\ call'[t].reg = Status(0)
    BY <1>6 DEF EnableCorr, Begin, CmdSendThenRecv, Enter, CorrTypes, TypeOK
  <2> QED BY <2>1 DEF Corr
<1>7. CASE UNCHANGED <<api, vars>>
  BY <1>7 DEF api, vars, Corr, Bit, NewStatus
<1> QED BY <1>1, <1>2, <1>3, <1>4, <1>5, <1>6, <1>7 DEF CorrNext, CorrStep

(* A program that has called nothing yet.                                  *)
LEMMA CorrInitTypes == CorrInit => TypeOK /\ CorrTypes
<1> SUFFICES ASSUME CorrInit PROVE TypeOK /\ CorrTypes
  OBVIOUS
<1>1. PICK ch \in Channels :
        args = [x \in Thread |-> [op |-> "switch", rf |-> 0, dir |-> "rx", ch |-> ch, on |-> FALSE]]
  BY DEF CorrInit
<1>2. [op |-> "switch", rf |-> 0, dir |-> "rx", ch |-> ch, on |-> FALSE] \in Args
  BY CorrAssumption DEF Args, Dir
<1> QED BY <1>1, <1>2, InitTypeOK DEF CorrInit, CorrTypes

(* It is in step, too.                                                     *)
LEMMA InitCorrInv ==
  ASSUME NEW t \in Thread, Thread = {t}
  PROVE  CorrInit => CorrInv(t)
BY CorrInitTypes DEF CorrInit, Init, CorrInv, InStep, Nothing, Corr

(* The parts together are inductive, with SfpLink's own invariant.         *)
LEMMA CorrInvStep ==
  ASSUME NEW t \in Thread, Thread = {t}, ~MayBeLate, "recvfrom" \notin Errors
  PROVE  CorrInv(t) /\ [CorrNext]_<<api, vars>> => CorrInv(t)'
<1> SUFFICES ASSUME CorrInv(t), [CorrNext]_<<api, vars>> PROVE CorrInv(t)'
  OBVIOUS
<1>1. [Next]_vars /\ CorrTypes'
  BY CorrIsLink DEF CorrInv
<1>2. TypeOK'
  BY <1>1, TypeOKStep DEF CorrInv
<1>3. InStep(t)'
  BY <1>1, InStepStep DEF CorrInv
<1>4. Corr(t)'
  BY <1>1, <1>2, <1>3, CorrStepKeeps
<1> QED BY <1>1, <1>2, <1>3, <1>4 DEF CorrInv

(* The invariant holds in every state of a program of one thread.          *)
LEMMA AlwaysCorrInv ==
  ASSUME NEW t \in Thread, Thread = {t}, ~MayBeLate, "recvfrom" \notin Errors
  PROVE  CorrSpec => []CorrInv(t)
BY InitCorrInv, CorrInvStep, PTL DEF CorrSpec

(* Types do not need the program to have one thread.                       *)
THEOREM CorrKeepsTypes == CorrSpec => []CorrTypeOK
<1>1. (TypeOK /\ CorrTypes) /\ [CorrNext]_<<api, vars>> => (TypeOK /\ CorrTypes)'
  BY CorrIsLink, TypeOKStep
<1>2. TypeOK /\ CorrTypes => CorrTypeOK
  BY DEF CorrTypes, CorrTypeOK
<1> QED BY CorrInitTypes, <1>1, <1>2, PTL DEF CorrSpec

(* A switch call of the only thread that reports success has left its      *)
(* channel as asked, on the chip it was asked for.                         *)
THEOREM CorrSwitchSet ==
  ASSUME NEW t \in Thread, Thread = {t}, ~MayBeLate, "recvfrom" \notin Errors
  PROVE  CorrSpec => []SwitchSet
<1>1. CorrInv(t) => SwitchSet
  BY DEF CorrInv, Corr, SwitchSet, Bit
<1> QED BY AlwaysCorrInv, <1>1, PTL

-----------------------------------------------------------------------------
(* The abstract view of ChannelCorr: Correction.                           *)

CoefMap == [p \in Port |-> regs[CoefOf(p)]]
OnMap   == {p \in Port : SwitchOf(p) \in regs[Status(p[1])]}
Course  == [t \in Thread |-> IF step[t] = "idle" THEN "idle"
                             ELSE IF step[t] = "read" \/ pc[t] = "send" THEN "begun"
                             ELSE IF Applied(t) \/ result[t] = "ok" THEN "applied"
                             ELSE IF pc[t] # "idle" /\ toDev # <<>> THEN "begun"
                             ELSE "failed"]
Asks    == [t \in Thread |-> IF step[t] = "idle" THEN Null ELSE args[t]]

(* The view of the only thread.                                            *)
CallView(t, p, q) == Course = [x \in Thread |-> p] /\ Asks = [x \in Thread |-> q]

CallViews(t) ==
  /\ step[t] = "idle" => CallView(t, "idle", Null)
  /\ step[t] = "read" => CallView(t, "begun", args[t])
  /\ step[t] = "write" =>
       /\ pc[t] = "send" => CallView(t, "begun", args[t])
       /\ pc[t] = "select" /\ Asked(t) => CallView(t, "begun", args[t])
       /\ pc[t] = "select" /\ Nothing => CallView(t, "failed", args[t])
       /\ OnWay(t) \/ There(t) => CallView(t, "applied", args[t])
       /\ pc[t] = "idle" => CallView(t, IF result[t] = "ok" THEN "applied" ELSE "failed", args[t])

(* The view follows from the step of the call and where its datagram is.   *)
LEMMA CallViewOf ==
  ASSUME NEW t \in Thread, Thread = {t}
  PROVE  TypeOK /\ InStep(t) /\ CorrTypes => CallViews(t)
<1> SUFFICES ASSUME TypeOK, InStep(t), CorrTypes PROVE CallViews(t)
  OBVIOUS
<1> USE DEF CallView, Course, Asks
<1>1. CASE step[t] \in {"idle", "read"}
  BY <1>1 DEF CallViews
<1>2. CASE step[t] = "write" /\ pc[t] \in {"idle", "send"}
  <2>1. ~Applied(t) /\ ~OnWay(t) /\ ~There(t)
    BY <1>2 DEF Applied, InStep, Nothing, OnWay, There
  <2> QED BY <1>2, <2>1 DEF CallViews
<1>3. CASE step[t] = "write" /\ pc[t] \in {"select", "recv"}
  <2>1. result[t] = "none"
    BY <1>3 DEF TypeOK
  <2>2. CASE Nothing \/ Asked(t)
    <3>1. Replies = <<>> /\ ~OnWay(t) /\ ~There(t) /\ (Nothing <=> toDev = <<>>)
      BY <2>2 DEF Replies, Nothing, Asked, OnWay, There
    <3> QED BY <1>3, <2>1, <2>2, <3>1 DEF CallViews, Applied, Asked
  <2>3. CASE OnWay(t) \/ There(t)
    <3>1. Views(t)
      BY ViewOf
    <3>2. View(t, "applied", call[t], regs[call[t].reg])
      BY <2>3, <3>1 DEF Views
    <3>3. Applied(t)
      BY <1>3, <3>2 DEF View, Phase
    <3>4. ~Nothing /\ ~Asked(t)
      BY <2>3 DEF Nothing, Asked, OnWay, There
    <3> QED BY <1>3, <3>3, <3>4 DEF CallViews
  <2> QED BY <1>3, <2>2, <2>3 DEF InStep
<1> QED BY <1>1, <1>2, <1>3 DEF CorrTypes, TypeOK

(* The same after a step.                                                  *)
LEMMA CallViewOfNext ==
  ASSUME NEW t \in Thread, Thread = {t}
  PROVE  TypeOK' /\ InStep(t)' /\ CorrTypes' => CallViews(t)'
<1>1. TypeOK /\ InStep(t) /\ CorrTypes => CallViews(t)
  BY CallViewOf
<1> QED BY <1>1, PTL

(* Two views make a step of the abstract view.                             *)
LEMMA CallViewStep ==
  ASSUME NEW t \in Thread, Thread = {t}, NEW p, NEW q, NEW p2, NEW q2,
         CallView(t, p, q), CallView(t, p2, q2)'
  PROVE  /\ Course[t] = p /\ Asks[t] = q /\ Asks'[t] = q2
         /\ Course' = [Course EXCEPT ![t] = p2]
         /\ Asks' = [Asks EXCEPT ![t] = q2]
         /\ p = p2 => Course' = Course
         /\ q = q2 => Asks' = Asks
BY DEF CallView

(* Registers that stay as they are leave every port as it is.              *)
LEMMA SamePorts ==
  ASSUME UNCHANGED regs
  PROVE  UNCHANGED <<CoefMap, OnMap>>
BY DEF CoefMap, OnMap

(* So does a set of a register that no port uses.                          *)
LEMMA PlainKeepsPorts ==
  ASSUME TypeOK, NEW g \in Plain, NEW v, regs' = [regs EXCEPT ![g] = v]
  PROVE  UNCHANGED <<CoefMap, OnMap>>
<1>1. \A p \in Port : p[1] \in Chip
  BY PortParts
<1>2. \A p \in Port : regs'[CoefOf(p)] = regs[CoefOf(p)] /\ regs'[Status(p[1])] = regs[Status(p[1])]
  BY <1>1, PortRegs DEF TypeOK
<1> QED BY <1>2 DEF CoefMap, OnMap

(* A new coefficient goes to its own port.                                 *)
LEMMA CoefSet ==
  ASSUME TypeOK, NEW o \in Port, NEW v, regs' = [regs EXCEPT ![CoefOf(o)] = v]
  PROVE  CoefMap' = [CoefMap EXCEPT ![o] = v] /\ OnMap' = OnMap
<1>1. \A p \in Port : p[1] \in Chip
  BY PortParts
<1>2. \A p \in Port : /\ regs'[CoefOf(p)] = IF p = o THEN v ELSE regs[CoefOf(p)]
                      /\ regs'[Status(p[1])] = regs[Status(p[1])]
  BY <1>1, PortRegs DEF TypeOK
<1> QED BY <1>2 DEF CoefMap, OnMap

(* A new switch register makes a chip's switches those of chip 0, but for  *)
(* the call's own.                                                         *)
LEMMA SwitchesSet ==
  ASSUME TypeOK, NEW t \in Thread, args[t] \in Args, args[t].op = "switch",
         regs' = [regs EXCEPT ![Status(args[t].rf)] = NewStatus(t, regs[Status(0)])]
  PROVE  CoefMap' = CoefMap /\ OnMap' = Ports!SwitchesAfter(args[t])
<1> DEFINE r == args[t]
           o == <<r.rf, r.dir, r.ch>>
           new == NewStatus(t, regs[Status(0)])
<1>1. r.rf \in Chip /\ 0 \in Chip /\ r.on \in BOOLEAN
  BY ArgsParts, CorrAssumption
<1>2. ASSUME NEW p \in Port
      PROVE  /\ p[1] \in Chip /\ p = <<p[1], p[2], p[3]>> /\ <<0, p[2], p[3]>> \in Port
             /\ regs'[CoefOf(p)] = regs[CoefOf(p)]
             /\ regs'[Status(p[1])] = IF p[1] = r.rf THEN new ELSE regs[Status(p[1])]
             /\ SwitchOf(<<0, p[2], p[3]>>) = SwitchOf(p)
  <2>1. p[1] \in Chip /\ p = <<p[1], p[2], p[3]>> /\ p[2] \in Dir /\ p[3] \in Channels \ {1}
    BY PortParts DEF Dir
  <2>2. <<0, p[2], p[3]>> \in Port
    BY <1>1, <2>1 DEF Port
  <2>3. Status(p[1]) \in Reg /\ CoefOf(p) \in Reg /\ CoefOf(p) # Status(r.rf)
    BY <1>1, <2>1, PortRegs
  <2>4. Status(p[1]) = Status(r.rf) <=> p[1] = r.rf
    BY <1>1, <2>1, PortRegs
  <2> QED BY <2>1, <2>2, <2>3, <2>4 DEF TypeOK, SwitchOf
<1>3. ASSUME NEW p \in Port, p[1] = r.rf
      PROVE  SwitchOf(p) \in new <=> IF p = o THEN r.on ELSE SwitchOf(p) \in regs[Status(0)]
  <2>1. CASE r.ch = 1
    <3>1. p # o
      BY <2>1, PortParts
    <3> QED BY <2>1, <3>1 DEF NewStatus
  <2>2. CASE r.ch # 1
    <3>1. o \in Port
      BY <2>2, ArgsParts
    <3>2. SwitchOf(p) = SwitchOf(o) <=> p = o
      BY <1>3, <3>1, PortRegs
    <3>3. SwitchOf(o) = BitOf(r.dir, r.ch)
      BY DEF SwitchOf
    <3> QED BY <1>1, <2>2, <3>2, <3>3 DEF NewStatus
  <2> QED BY <2>1, <2>2
<1>4. CoefMap' = CoefMap
  BY <1>2 DEF CoefMap
<1>5. OnMap' = {p \in Port : IF p[1] # r.rf THEN p \in OnMap
                             ELSE IF p = o THEN r.on ELSE <<0, p[2], p[3]>> \in OnMap}
  <2>1. ASSUME NEW p \in Port
        PROVE  SwitchOf(p) \in regs'[Status(p[1])]
                 <=> IF p[1] # r.rf THEN p \in OnMap
                     ELSE IF p = o THEN r.on ELSE <<0, p[2], p[3]>> \in OnMap
    <3>1. p \in OnMap <=> SwitchOf(p) \in regs[Status(p[1])]
      BY DEF OnMap
    <3>2. <<0, p[2], p[3]>> \in OnMap <=> SwitchOf(p) \in regs[Status(0)]
      BY <1>2 DEF OnMap
    <3> QED BY <1>2, <1>3, <3>1, <3>2
  <2> QED BY <2>1 DEF OnMap
<1> QED BY <1>4, <1>5 DEF Ports!SwitchesAfter, Ports!Port, Ports!Own, Port, OnMap

(* Every step is one of Correction, or leaves its view as it is: the call  *)
(* takes effect where the device executes its write.                       *)
LEMMA CorrRefines ==
  ASSUME NEW t \in Thread, Thread = {t}, ~MayBeLate, "recvfrom" \notin Errors,
         CorrInv(t), CorrInv(t)', [CorrNext]_<<api, vars>>
  PROVE  [Ports!Next]_(Ports!vars)
<1> USE DEF CorrInv
<1>v. CallViews(t) /\ CallViews(t)'
  BY CallViewOf, CallViewOfNext
<1>t. args[t] \in Args /\ call[t] \in Message
  BY DEF CorrTypes, TypeOK
<1>a. ASSUME NEW q, q \in Ports!Request, CallView(t, "idle", Null), CallView(t, "begun", q)',
             ret' = [ret EXCEPT ![t] = "none"], regs' = regs
      PROVE  Ports!Next
  <2>1. /\ Course[t] = "idle" /\ Course' = [Course EXCEPT ![t] = "begun"]
        /\ Asks'[t] = q /\ Asks' = [Asks EXCEPT ![t] = q]
    BY <1>a, CallViewStep
  <2>2. UNCHANGED <<CoefMap, OnMap>>
    BY <1>a, SamePorts
  <2>3. Ports!Begin(t)
    BY <1>a, <2>1, <2>2 DEF Ports!Begin, Course, Asks, CoefMap, OnMap
  <2> QED BY <2>3 DEF Ports!Next
<1>b. ASSUME NEW p \in {"begun", "applied", "failed"}, NEW q,
             CallView(t, p, q), CallView(t, "idle", Null)', regs' = regs,
             \/ p = "applied" /\ ret' = [ret EXCEPT ![t] = "ok"]
             \/ ret' = [ret EXCEPT ![t] = "failed"]
      PROVE  Ports!Next
  <2>1. /\ Course[t] = p /\ Course' = [Course EXCEPT ![t] = "idle"]
        /\ Asks' = [Asks EXCEPT ![t] = Null]
    BY <1>b, CallViewStep
  <2>2. UNCHANGED <<CoefMap, OnMap>>
    BY <1>b, SamePorts
  <2>3. Ports!End(t)
    BY <1>b, <2>1, <2>2 DEF Ports!End, Course, Asks, CoefMap, OnMap
  <2> QED BY <2>3 DEF Ports!Next
<1>c. ASSUME NEW p \in {"begun", "applied"}, NEW q,
             CallView(t, p, q), CallView(t, "failed", q)', regs' = regs, ret' = ret
      PROVE  Ports!Next
  <2>1. /\ Course[t] = p /\ Course' = [Course EXCEPT ![t] = "failed"] /\ Asks' = Asks
    BY <1>c, CallViewStep
  <2>2. UNCHANGED <<CoefMap, OnMap>>
    BY <1>c, SamePorts
  <2>3. Ports!Lose(t)
    BY <1>c, <2>1, <2>2 DEF Ports!Lose, Course, Asks, CoefMap, OnMap
  <2> QED BY <2>3 DEF Ports!Next
<1>d. ASSUME NEW p, NEW q, CallView(t, p, q), CallView(t, p, q)', ret' = ret,
             UNCHANGED <<CoefMap, OnMap>>
      PROVE  UNCHANGED Ports!vars
  <2>1. Course' = Course /\ Asks' = Asks
    BY <1>d, CallViewStep
  <2> QED BY <1>d, <2>1 DEF Ports!vars, Course, Asks, CoefMap, OnMap
<1>1. CASE ReadReturns(t)
  <2>1. CallView(t, "begun", args[t]) /\ args' = args
    BY <1>1, <1>v DEF ReadReturns, CallViews
  <2>q. PICK q : q = args[t]
    OBVIOUS
  <2>2. CASE WriteBack(t)
    <3>1. step'[t] = "write" /\ pc'[t] = "send" /\ regs' = regs /\ ret' = ret
      BY <1>1, <2>2, WritesBack
    <3>2. CallView(t, "begun", q) /\ CallView(t, "begun", q)'
      BY <2>1, <2>q, <3>1, <1>v DEF CallViews, CallView
    <3> QED BY <3>1, <3>2, <1>d, SamePorts
  <2>3. CASE ReadFails(t)
    <3>1. step'[t] = "idle" /\ ret' = [ret EXCEPT ![t] = "failed"] /\ regs' = regs
      BY <1>1, <2>3 DEF ReadFails, Finish, vars, CorrTypes
    <3>2. CallView(t, "begun", q) /\ CallView(t, "idle", Null)'
      BY <2>1, <2>q, <3>1, <1>v DEF CallViews, CallView
    <3> QED BY <3>1, <3>2, <1>b
  <2> QED BY <1>1, <2>2, <2>3 DEF ReadReturns
<1>2. CASE WriteReturns(t)
  <2>1. /\ step[t] = "write" /\ pc[t] = "idle" /\ step'[t] = "idle" /\ regs' = regs
        /\ ret' = [ret EXCEPT ![t] = IF result[t] = "ok" THEN "ok" ELSE "failed"]
    BY <1>2 DEF WriteReturns, Finish, vars, CorrTypes
  <2>2. PICK q, p : q = args[t] /\ p = IF result[t] = "ok" THEN "applied" ELSE "failed"
    OBVIOUS
  <2>3. CallView(t, p, q) /\ CallView(t, "idle", Null)'
    BY <2>1, <2>2, <1>v DEF CallViews, CallView
  <2> QED BY <2>1, <2>2, <2>3, <1>b
<1>3. CASE OtherCall(t)
  <2>1. step[t] = "idle" /\ step'[t] = "idle" /\ ret' = ret /\ regs' = regs
    BY <1>3 DEF OtherCall, Idle, api, CmdSend, CmdSendThenRecv, Enter
  <2>2. CallView(t, "idle", Null) /\ CallView(t, "idle", Null)'
    BY <2>1, <1>v DEF CallViews
  <2> QED BY <2>1, <2>2, <1>d, SamePorts
<1>4. CASE Link(t) /\ Device
  <2>1. /\ pc[t] = "select" /\ Asked(t) /\ UNCHANGED <<pc, call, step, args, ret>>
        /\ regs' = IF call[t].op = "set" THEN [regs EXCEPT ![call[t].reg] = call[t].val] ELSE regs
    BY <1>4, DeviceSets DEF Link, api
  <2>q. PICK q : q = args[t]
    OBVIOUS
  <2>2. CASE step[t] = "idle"
    <3>1. call[t].reg \in Plain
      BY <2>1, <2>2 DEF Corr
    <3>2. UNCHANGED <<CoefMap, OnMap>>
      BY <2>1, <3>1, PlainKeepsPorts, SamePorts
    <3>3. CallView(t, "idle", Null) /\ CallView(t, "idle", Null)'
      BY <2>1, <2>2, <1>v DEF CallViews
    <3> QED BY <2>1, <3>2, <3>3, <1>d
  <2>3. CASE step[t] = "read"
    <3>1. regs' = regs
      BY <2>1, <2>3 DEF Corr, Reads
    <3>2. CallView(t, "begun", q) /\ CallView(t, "begun", q)'
      BY <2>1, <2>q, <2>3, <1>v DEF CallViews, CallView
    <3> QED BY <2>1, <3>1, <3>2, <1>d, SamePorts
  <2>4. CASE step[t] = "write"
    <3>1. OnWay(t)'
      <4>1. toHost' # <<>> /\ pc'[t] = "select"
        BY <1>4, <2>1 DEF Device, Asked, TypeOK
      <4> QED BY <4>1 DEF InStep, Nothing, Asked, There
    <3>2. CallView(t, "begun", q) /\ CallView(t, "applied", q)'
      BY <2>1, <2>q, <2>4, <3>1, <1>v DEF CallViews, CallView
    <3>3. Course[t] = "begun" /\ Course' = [Course EXCEPT ![t] = "applied"] /\ Asks' = Asks /\ Asks[t] = q
      BY <3>2, CallViewStep
    <3>4. CASE args[t].op = "coef"
      <4>1. SetsCoef(t)
        BY <2>4, <3>4 DEF Corr
      <4>2. PICK o \in Port : o = <<args[t].rf, args[t].dir, args[t].ch>>
        BY <4>1, <1>t, ArgsParts DEF SetsCoef
      <4>3. CoefOf(o) = <<args[t].rf, RegOf(args[t].dir, args[t].ch)>>
        BY <4>2 DEF CoefOf
      <4>4. regs' = [regs EXCEPT ![CoefOf(o)] = args[t].coef]
        BY <2>1, <4>1, <4>3 DEF SetsCoef
      <4>5. CoefMap' = [CoefMap EXCEPT ![o] = args[t].coef] /\ OnMap' = OnMap
        BY <4>4, CoefSet
      <4>6. o = Ports!Own(q)
        BY <2>q, <4>2 DEF Ports!Own
      <4>7. Ports!Apply(t)
        BY <2>1, <2>q, <3>3, <3>4, <4>5, <4>6 DEF Ports!Apply, Course, Asks, CoefMap, OnMap
      <4> QED BY <4>7 DEF Ports!Next
    <3>5. CASE args[t].op = "switch"
      <4>1. regs' = [regs EXCEPT ![Status(args[t].rf)] = NewStatus(t, regs[Status(0)])]
        BY <2>1, <2>4, <3>5 DEF Corr, SetsSwitch
      <4>2. CoefMap' = CoefMap /\ OnMap' = Ports!SwitchesAfter(q)
        BY <1>t, <2>q, <3>5, <4>1, SwitchesSet
      <4>3. Ports!Apply(t)
        BY <2>1, <2>q, <3>3, <3>5, <4>2 DEF Ports!Apply, Course, Asks, CoefMap, OnMap
      <4> QED BY <4>3 DEF Ports!Next
    <3> QED BY <1>t, <3>4, <3>5, ArgsParts
  <2> QED BY <2>2, <2>3, <2>4 DEF CorrTypes
<1>5. CASE Link(t) /\ (Step(t) \/ Arrive \/ Lose)
  <2>1. UNCHANGED <<step, args, ret, regs>>
    BY <1>5 DEF Link, api, Step, Sendto, SelectReady, SelectTimeout, Recvfrom, Arrive, Lose
  <2>q. PICK q : q = args[t]
    OBVIOUS
  <2>2. CASE step[t] = "idle"
    <3>1. CallView(t, "idle", Null) /\ CallView(t, "idle", Null)'
      BY <2>1, <2>2, <1>v DEF CallViews
    <3> QED BY <2>1, <3>1, <1>d, SamePorts
  <2>3. CASE step[t] = "read"
    <3>1. CallView(t, "begun", q) /\ CallView(t, "begun", q)'
      BY <2>1, <2>q, <2>3, <1>v DEF CallViews, CallView
    <3> QED BY <2>1, <3>1, <1>d, SamePorts
  <2>4. CASE step[t] = "write" /\ Sendto(t)
    <3>1. CallView(t, "begun", q)
      BY <2>q, <2>4, <1>v DEF Sendto, CallViews, CallView
    <3>2. CASE pc'[t] = "idle"
      <4>1. result'[t] = "failed"
        BY <2>4, <3>2 DEF Sendto, Goto, Return, TypeOK
      <4>2. CallView(t, "failed", q)'
        BY <2>1, <2>q, <2>4, <3>2, <4>1, <1>v DEF CallViews, CallView
      <4> QED BY <2>1, <3>1, <4>2, <1>c
    <3>3. CASE pc'[t] = "select" /\ toDev' = Append(toDev, call[t])
      <4>1. Asked(t)'
        BY <2>4, <3>3 DEF Sendto, InStep, Nothing, Asked, TypeOK
      <4>2. CallView(t, "begun", q)'
        BY <2>1, <2>q, <2>4, <3>3, <4>1, <1>v DEF CallViews, CallView
      <4> QED BY <2>1, <3>1, <4>2, <1>d, SamePorts
    <3> QED BY <2>4, <3>2, <3>3 DEF Sendto, Goto, Return, TypeOK
  <2>5. CASE step[t] = "write" /\ SelectReady(t)
    <3>1. There(t)
      BY <2>5 DEF SelectReady, InStep, Nothing, Asked, OnWay
    <3>2. There(t)'
      BY <2>5, <3>1 DEF SelectReady, Goto, InStep, TypeOK
    <3>3. CallView(t, "applied", q) /\ CallView(t, "applied", q)'
      BY <2>1, <2>q, <2>5, <3>1, <3>2, <1>v DEF CallViews, CallView
    <3> QED BY <2>1, <3>3, <1>d, SamePorts
  <2>6. CASE step[t] = "write" /\ SelectTimeout(t)
    <3>1. Nothing /\ pc[t] = "select" /\ pc'[t] = "idle" /\ result'[t] # "ok"
      BY <2>6 DEF SelectTimeout, Return, Nothing, TypeOK
    <3>2. CallView(t, "failed", q) /\ CallView(t, "failed", q)'
      BY <2>1, <2>q, <2>6, <3>1, <1>v DEF CallViews, CallView
    <3> QED BY <2>1, <3>2, <1>d, SamePorts
  <2>7. CASE step[t] = "write" /\ Recvfrom(t)
    <3>1. There(t) /\ pc'[t] = "idle" /\ result'[t] = "ok"
      BY <2>7 DEF Recvfrom, Return, InStep, TypeOK
    <3>2. CallView(t, "applied", q) /\ CallView(t, "applied", q)'
      BY <2>1, <2>q, <2>7, <3>1, <1>v DEF CallViews, CallView
    <3> QED BY <2>1, <3>2, <1>d, SamePorts
  <2>8. CASE step[t] = "write" /\ Arrive
    <3>1. OnWay(t)
      BY <2>8 DEF Arrive, InStep, Nothing, Asked, There, TypeOK
    <3>2. There(t)'
      <4>1. socket' # <<>> /\ pc' = pc
        BY <2>8 DEF Arrive, TypeOK
      <4>2. pc[t] = "select"
        BY <2>8 DEF Arrive, InStep, Nothing, There, TypeOK
      <4> QED BY <4>1, <4>2 DEF InStep, Nothing, Asked, OnWay
    <3>3. CallView(t, "applied", q) /\ CallView(t, "applied", q)'
      BY <2>1, <2>q, <2>8, <3>1, <3>2, <1>v DEF CallViews, CallView
    <3> QED BY <2>1, <3>3, <1>d, SamePorts
  <2>9. CASE step[t] = "write" /\ Lose
    <3>1. pc[t] = "select" /\ (Asked(t) \/ OnWay(t))
      BY <2>9 DEF Lose, InStep, Nothing, There, TypeOK
    <3>2. Nothing' /\ pc'[t] = "select"
      BY <2>9, <3>1 DEF Lose, Asked, OnWay, Nothing, TypeOK
    <3>3. PICK p \in {"begun", "applied"} : CallView(t, p, q)
      BY <2>q, <2>9, <3>1, <1>v DEF CallViews, CallView
    <3>4. CallView(t, "failed", q)'
      BY <2>1, <2>q, <2>9, <3>2, <1>v DEF CallViews, CallView
    <3> QED BY <2>1, <3>3, <3>4, <1>c
  <2> QED BY <1>5, <2>2, <2>3, <2>4, <2>5, <2>6, <2>7, <2>8, <2>9 DEF Step, CorrTypes
<1>6. ASSUME NEW rf \in Chip, NEW dir \in Dir, NEW ch \in Channels, NEW k \in Coef, SetCoef(t, rf, dir, ch, k)
      PROVE  [Ports!Next]_(Ports!vars)
  <2>1. /\ step[t] = "idle" /\ CallView(t, "idle", Null)
        /\ args'[t] = [op |-> "coef", rf |-> rf, dir |-> dir, ch |-> ch, coef |-> k]
    BY <1>6, <1>v DEF SetCoef, Idle, CallViews, CorrTypes
  <2>2. CASE ch = 1
    <3>1. step' = step /\ ret' = [ret EXCEPT ![t] = "ok"] /\ UNCHANGED vars
      BY <1>6, <2>2 DEF SetCoef, Idle, Finish, CorrTypes
    <3>2. UNCHANGED <<CoefMap, OnMap>>
      BY <3>1, SamePorts DEF vars
    <3>3. CallView(t, "idle", Null)'
      BY <2>1, <3>1, <1>v DEF CallViews
    <3>4. Course[t] = "idle" /\ Course' = Course /\ Asks' = Asks
      BY <2>1, <3>3, CallViewStep
    <3>5. Ports!Nothing(t)
      BY <3>1, <3>2, <3>4 DEF Ports!Nothing, Course, Asks, CoefMap, OnMap
    <3> QED BY <3>5 DEF Ports!Next
  <2>3. CASE ch # 1
    <3>1. step'[t] = "write" /\ pc'[t] = "send" /\ ret' = [ret EXCEPT ![t] = "none"] /\ regs' = regs
      BY <1>6, <2>3 DEF SetCoef, Begin, CmdSend, Enter, CorrTypes, TypeOK
    <3>2. k \in Value
      BY SetsARegister
    <3>3. PICK q : q = args'[t]
      OBVIOUS
    <3>4. q \in Ports!Request
      BY <2>1, <2>3, <3>2, <3>3 DEF Ports!Request
    <3>5. CallView(t, "begun", q)'
      BY <3>1, <3>3, <1>v DEF CallViews, CallView
    <3> QED BY <2>1, <3>1, <3>4, <3>5, <1>a
  <2> QED BY <2>2, <2>3
<1>7. ASSUME NEW rf \in Chip, NEW dir \in Dir, NEW ch \in Channels, NEW b \in BOOLEAN, EnableCorr(t, rf, dir, ch, b)
      PROVE  Ports!Next
  <2>1. /\ step[t] = "idle" /\ CallView(t, "idle", Null)
        /\ args'[t] = [op |-> "switch", rf |-> rf, dir |-> dir, ch |-> ch, on |-> b]
        /\ step'[t] = "read" /\ ret' = [ret EXCEPT ![t] = "none"] /\ regs' = regs
    BY <1>7, <1>v DEF EnableCorr, Idle, Begin, CmdSendThenRecv, Enter, CallViews, CorrTypes
  <2>2. PICK q : q = args'[t]
    OBVIOUS
  <2>3. q \in Ports!Request
    BY <2>1, <2>2 DEF Ports!Request
  <2>4. CallView(t, "begun", q)'
    BY <2>1, <2>2, <1>v DEF CallViews, CallView
  <2> QED BY <2>1, <2>3, <2>4, <1>a
<1>8. CASE UNCHANGED <<api, vars>>
  BY <1>8 DEF api, vars, Ports!vars, Course, Asks, Applied, Replies
<1> QED BY <1>1, <1>2, <1>3, <1>4, <1>5, <1>6, <1>7, <1>8 DEF CorrNext, CorrStep, Link

(* A correction call of a program of one thread is one operation on the    *)
(* ports: it makes the change its arguments name, once, where its write is *)
(* executed, and no other, although the switches of a chip share one       *)
(* register that it reads, changes and writes in two exchanges with        *)
(* losses.                                                                 *)
THEOREM CorrImplementsPorts ==
  ASSUME NEW t \in Thread, Thread = {t}, ~MayBeLate, "recvfrom" \notin Errors
  PROVE  CorrSpec => PortsSpec
<1>1. CorrInit => Ports!Init
  <2> SUFFICES ASSUME CorrInit PROVE Ports!Init
    OBVIOUS
  <2>1. PICK v \in Value : regs = [x \in Reg |-> v]
    BY DEF CorrInit, Init
  <2>2. CoefMap = [p \in Port |-> v]
    BY <2>1, PortRegs DEF CoefMap
  <2>3. Course = [x \in Thread |-> "idle"] /\ Asks = [x \in Thread |-> Null]
    BY DEF CorrInit, Course, Asks
  <2>4. CoefMap = [p \in Ports!Port |-> v] /\ OnMap \in SUBSET Ports!Port
    BY <2>2 DEF OnMap, Ports!Port, Port
  <2> QED BY <2>3, <2>4 DEF Ports!Init, CoefMap, OnMap, Course, Asks, CorrInit
<1>2. CorrInv(t) /\ CorrInv(t)' /\ [CorrNext]_<<api, vars>> => [Ports!Next]_(Ports!vars)
  BY CorrRefines
<1> QED BY <1>1, <1>2, AlwaysCorrInv, PTL DEF CorrSpec, PortsSpec, Ports!Spec
=============================================================================
