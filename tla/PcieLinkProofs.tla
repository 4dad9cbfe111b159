--------------------------- MODULE PcieLinkProofs ---------------------------
(***************************************************************************)
(* What PcieLink guarantees for every number of threads, chips, registers  *)
(* and channels, and under every combination of RIFFA failures.            *)
(***************************************************************************)
EXTENDS PcieLink, TLAPS

(* The steps each kind of call goes through, and: a stream call that is to *)
(* read has a channel left to read.                                        *)
Control ==
  \A t \in Thread :
    /\ call[t].op \in Commands => pc[t] \in {"idle", "lock", "send", "recv", "unlock"}
    /\ call[t].op \in {"recv", "recv2"} =>
         pc[t] \in {"idle", "lock", "send", "unlock", "fetch", "copy"}
    /\ call[t].op = "recv3" => pc[t] \in {"idle", "send", "fetch", "copy"}
    /\ pc[t] # "idle" /\ call[t].op \in {"recv", "recv2"} => Unread(t) # {}
    /\ pc[t] = "send" /\ call[t].op = "recv3" => Unread(t) = call[t].chans
    /\ pc[t] \in {"fetch", "copy"} => Unread(t) # {}

HolderInside == \A t \in Thread : InExchange(t) => lock = t

OneCommand(q, m) ==
  \E i \in 1 .. Len(q) :
    q[i] = m /\ \A j \in 1 .. Len(q) : j # i => q[j].op \notin Commands

Quiet == NoCommand(toDev) /\ toHost = <<>>

(* The reply r answers the command m, and is still true of the device.     *)
Answers(r, m) ==
  /\ r.rf = m.rf
  /\ r.reg = m.reg
  /\ r.val = regs[<<m.rf, m.reg>>]
  /\ m.op = "set" => r.val = m.val

(* Where the command of a thread that awaits its reply is: lost, on its    *)
(* way to the device, or answered.                                         *)
Awaited(t) ==
  \/ Quiet
  \/ toHost = <<>> /\ OneCommand(toDev, call[t])
  \/ NoCommand(toDev) /\ toHost # <<>> /\ Tail(toHost) = <<>> /\ Answers(Head(toHost), call[t])

ChannelZero ==
  /\ lock = Null => Quiet
  /\ \A t \in Thread :
       /\ InExchange(t) /\ pc[t] \in {"send", "unlock"} => Quiet
       /\ pc[t] = "recv" => Awaited(t)
       /\ pc[t] = "unlock" /\ call[t].op \in Commands => Answers(buf[t], call[t])

IInv == TypeOK /\ Control /\ HolderInside /\ ChannelZero

-----------------------------------------------------------------------------
(* Commands in the request queue.                                          *)

(* A read request appended to channel 0 adds no command to it and hides    *)
(* none (the request of pcie_stream_recv3 is sent without the lock).       *)
LEMMA AppendRequest ==
  ASSUME NEW q \in Seq(Message), NEW m \in Message, m.op \notin Commands,
         NEW c \in Message
  PROVE  /\ NoCommand(q) => NoCommand(Append(q, m))
         /\ OneCommand(q, c) => OneCommand(Append(q, m), c)
<1>1. ASSUME NoCommand(q) PROVE NoCommand(Append(q, m))
  BY <1>1, SMT DEF NoCommand
<1>2. ASSUME OneCommand(q, c) PROVE OneCommand(Append(q, m), c)
  <2>1. PICK i \in 1 .. Len(q) :
          q[i] = c /\ \A j \in 1 .. Len(q) : j # i => q[j].op \notin Commands
    BY <1>2 DEF OneCommand
  <2>2. i \in 1 .. Len(Append(q, m)) /\ Append(q, m)[i] = c
    BY <2>1
  <2>3. ASSUME NEW j \in 1 .. Len(Append(q, m)), j # i
        PROVE  Append(q, m)[j].op \notin Commands
    BY <2>1, <2>3
  <2> QED BY <2>2, <2>3 DEF OneCommand
<1> QED BY <1>1, <1>2

(* A command appended to a channel 0 without commands is the only one.     *)
LEMMA AppendCommand ==
  ASSUME NEW q \in Seq(Message), NEW m \in Message, NoCommand(q)
  PROVE  OneCommand(Append(q, m), m)
<1>1. Len(q) + 1 \in 1 .. Len(Append(q, m)) /\ Append(q, m)[Len(q) + 1] = m
  OBVIOUS
<1>2. ASSUME NEW j \in 1 .. Len(Append(q, m)), j # Len(q) + 1
      PROVE  Append(q, m)[j].op \notin Commands
  BY <1>2 DEF NoCommand
<1> QED BY <1>1, <1>2 DEF OneCommand

(* Taking a message from a channel 0 without commands leaves it so.        *)
LEMMA TakeRequest ==
  ASSUME NEW q \in Seq(Message), q # <<>>, NoCommand(q)
  PROVE  Head(q).op \notin Commands /\ NoCommand(Tail(q))
BY SMT DEF NoCommand

(* The FPGA takes either the only command, leaving none, or a read         *)
(* request, leaving the command the only one.                              *)
LEMMA TakeOne ==
  ASSUME NEW q \in Seq(Message), q # <<>>, NEW c \in Message, c.op \in Commands,
         OneCommand(q, c)
  PROVE  /\ Head(q).op \in Commands => Head(q) = c /\ NoCommand(Tail(q))
         /\ Head(q).op \notin Commands => OneCommand(Tail(q), c)
<1>1. PICK i \in 1 .. Len(q) :
        q[i] = c /\ \A j \in 1 .. Len(q) : j # i => q[j].op \notin Commands
  BY DEF OneCommand
<1>2. CASE i = 1
  <2>1. Head(q) = c
    BY <1>1, <1>2
  <2>2. NoCommand(Tail(q))
    BY <1>1, <1>2, SMT DEF NoCommand
  <2> QED BY <2>1, <2>2
<1>3. CASE i # 1
  <2>1. Head(q).op \notin Commands
    BY <1>1, <1>3
  <2>2. i - 1 \in 1 .. Len(Tail(q)) /\ Tail(q)[i - 1] = c
    BY <1>1, <1>3
  <2>3. ASSUME NEW j \in 1 .. Len(Tail(q)), j # i - 1
        PROVE  Tail(q)[j].op \notin Commands
    BY <1>1, <1>3, <2>3
  <2>4. OneCommand(Tail(q), c)
    BY <2>2, <2>3 DEF OneCommand
  <2> QED BY <2>1, <2>4
<1> QED BY <1>2, <1>3

(* The channel a stream call reads next is one it asked for.               *)
LEMMA NextChannelIsUnread ==
  ASSUME NEW t \in Thread, TypeOK, Unread(t) # {}
  PROVE  NextChannel(t) \in Unread(t) /\ NextChannel(t) \in Channel
<1>1. Unread(t) \subseteq 1 .. 4
  BY DEF TypeOK, Unread, Message, Channel
<1>2. \E c \in Unread(t) : \A d \in Unread(t) : c <= d
  <2>1. CASE 1 \in Unread(t) BY <1>1, <2>1
  <2>2. CASE 1 \notin Unread(t) /\ 2 \in Unread(t) BY <1>1, <2>2
  <2>3. CASE 1 \notin Unread(t) /\ 2 \notin Unread(t) /\ 3 \in Unread(t)
    BY <1>1, <2>3
  <2>4. CASE 1 \notin Unread(t) /\ 2 \notin Unread(t) /\ 3 \notin Unread(t)
    BY <1>1, <2>4
  <2> QED BY <2>1, <2>2, <2>3, <2>4
<1>3. NextChannel(t) \in Unread(t)
  BY <1>2 DEF NextChannel
<1> QED BY <1>1, <1>3 DEF Channel

(* A stream call that has steps left has a channel to read, and it is one  *)
(* of the board's four.                                                    *)
LEMMA ReadingChannel ==
  ASSUME NEW t \in Thread, TypeOK, Control, pc[t] \in {"fetch", "copy"}
  PROVE  /\ call[t].op \in StreamOps
         /\ NextChannel(t) \in Unread(t)
         /\ NextChannel(t) \in Channel
         /\ MetaOf(t) \in Channel
<1>1. call[t].op \in Ops
  BY DEF TypeOK, Message
<1>2. call[t].op \in StreamOps
  BY <1>1 DEF Control, Ops, Commands, StreamOps
<1>3. Unread(t) # {}
  BY <1>2 DEF Control
<1>4. NextChannel(t) \in Unread(t) /\ NextChannel(t) \in Channel
  BY <1>3, NextChannelIsUnread
<1> QED BY <1>2, <1>4 DEF MetaOf, Channel

-----------------------------------------------------------------------------
(* An open device has every variable in its type.                          *)
LEMMA InitTypeOK == Init => TypeOK
<1> SUFFICES ASSUME Init PROVE TypeOK
  OBVIOUS
<1>1. PICK r \in RfId, g \in Reg, v \in Value :
        /\ call = [t \in Thread |-> [op |-> "get", rf |-> r, reg |-> g,
                                     val |-> v, chans |-> {}]]
        /\ buf = [t \in Thread |-> [rf |-> r, reg |-> g, val |-> v]]
        /\ regs = [x \in RfId \X Reg |-> v]
  BY DEF Init
<1>2. call \in [Thread -> Message] /\ buf \in [Thread -> Reply]
  BY <1>1 DEF Message, Reply, Ops
<1>3. regs \in [RfId \X Reg -> Value]
  BY <1>1
<1>4. got \in [Thread -> [Channel -> Frame \cup {Null}]] /\ meta \in [Channel -> Frame \cup {Null}]
  BY DEF Init, NoFrames
<1>5. toDev \in Seq(Message) /\ toHost \in Seq(Reply) /\ frames \in [Channel -> Seq(Frame)]
  BY DEF Init
<1> QED BY <1>2, <1>3, <1>4, <1>5 DEF Init, TypeOK

(* Entering a call, with the facts of each kind of call.                   *)
LEMMA CallEnters ==
  ASSUME NEW t \in Thread, Call(t)
  PROVE  \E op \in Ops, r \in RfId, g \in Reg, v \in Value, chans \in SUBSET Channel,
            next \in {"idle", "lock", "send"} :
           /\ Enter(t, op, r, g, v, chans, next)
           /\ op \in Commands => next \in {"idle", "lock"}
           /\ op \in {"recv", "recv2"} => /\ next \in {"idle", "lock"}
                                          /\ next = "lock" => \A c \in chans : c < NumOfChannel
           /\ op = "recv3" => next = "send"
           /\ op \in {"recv", "recv2"} => chans # {}
<1>1. NoRf \in RfId /\ NoReg \in Reg
  BY ConstantsAssumption DEF NoRf, NoReg
<1>2. CASE \E r \in RfId, g \in Reg, v \in Value : CmdSend(t, r, g, v)
  BY <1>2 DEF CmdSend, Ops, Commands, StreamOps
<1>3. CASE \E r \in RfId, g \in Reg, v \in Value : CmdSendThenRecv(t, r, g, v)
  BY <1>3 DEF CmdSendThenRecv, Ops, Commands, StreamOps
<1>4. CASE \E c \in Streams[t], v \in Value : StreamRecv(t, c, v)
  <2>1. PICK c \in Streams[t], v \in Value, op \in {"recv", "recv2"} :
          Enter(t, op, NoRf, NoReg, v, {c}, IF c < NumOfChannel THEN "lock" ELSE "idle")
    BY <1>4 DEF StreamRecv
  <2>2. {c} \in SUBSET Channel /\ {c} # {}
    BY ConstantsAssumption
  <2> QED BY <1>1, <2>1, <2>2 DEF Ops, Commands, StreamOps
<1>5. CASE \E chans \in SUBSET Streams[t], v \in Value : StreamRecv3(t, chans, v)
  <2>1. PICK chans \in SUBSET Streams[t], v \in Value :
          Enter(t, "recv3", NoRf, NoReg, v, chans, "send")
    BY <1>5 DEF StreamRecv3
  <2>2. chans \in SUBSET Channel
    BY ConstantsAssumption
  <2> QED BY <1>1, <2>1, <2>2 DEF Ops, Commands, StreamOps
<1> QED BY <1>2, <1>3, <1>4, <1>5 DEF Call

(* No step of a call or of the FPGA leaves the types.                      *)
LEMMA TypeStep == IInv /\ [Next]_vars => TypeOK'
<1> SUFFICES ASSUME IInv, [Next]_vars PROVE TypeOK'
  OBVIOUS
<1> USE DEF IInv
<1>1. ASSUME NEW t \in Thread, Call(t) PROVE TypeOK'
  <2>1. PICK op \in Ops, r \in RfId, g \in Reg, v \in Value, chans \in SUBSET Channel,
             next \in {"idle", "lock", "send"} :
           /\ Enter(t, op, r, g, v, chans, next)
           /\ op \in {"recv", "recv2"} /\ next = "lock" => \A c \in chans : c < NumOfChannel
           /\ op \in {"recv", "recv2"} => next \in {"idle", "lock"}
    BY <1>1, CallEnters
  <2>2. call' \in [Thread -> Message]
    BY <2>1 DEF Enter, TypeOK, Message
  <2>3. got' \in [Thread -> [Channel -> Frame \cup {Null}]]
    BY <2>1 DEF Enter, TypeOK, NoFrames
  <2>4. \A u \in Thread : pc'[u] # "idle" /\ call'[u].op \in {"recv", "recv2"} =>
                            \A c \in call'[u].chans : c < NumOfChannel
    BY <2>1 DEF Enter, TypeOK, Message
  <2> QED BY <2>1, <2>2, <2>3, <2>4 DEF Enter, TypeOK, dev
<1>2. ASSUME NEW t \in Thread, Lock(t) PROVE TypeOK'
  BY <1>2 DEF Lock, TypeOK, dev
<1>3. ASSUME NEW t \in Thread, FpgaSend(t) PROVE TypeOK'
  <2>1. toDev' \in Seq(Message)
    <3>1. call[t] \in Message /\ toDev \in Seq(Message)
      BY DEF TypeOK
    <3>2. toDev' = toDev \/ toDev' = Append(toDev, call[t])
      BY <1>3 DEF FpgaSend, Request
    <3> QED BY <3>1, <3>2
  <2>2. pc' \in [Thread -> {"idle", "lock", "send", "recv", "unlock", "fetch", "copy"}]
    BY <1>3 DEF FpgaSend, TypeOK, AfterSend, Goto, Return, Message, Ops, Commands
  <2>3. result' \in [Thread -> {"none", "ok", "failed", "EINVAL"}]
    BY <1>3 DEF FpgaSend, TypeOK, AfterSend, Goto, Return
  <2>4. \A u \in Thread : pc'[u] # "idle" => pc[u] # "idle"
    BY <1>3 DEF FpgaSend, TypeOK, AfterSend, Goto, Return
  <2> QED BY <1>3, <2>1, <2>2, <2>3, <2>4 DEF FpgaSend, TypeOK
<1>4. ASSUME NEW t \in Thread, FpgaRecv(t) PROVE TypeOK'
  <2>1. toHost # <<>> => Head(toHost) \in Reply /\ Tail(toHost) \in Seq(Reply)
    BY DEF TypeOK
  <2>2. buf' \in [Thread -> Reply] /\ toHost' \in Seq(Reply)
    BY <1>4, <2>1 DEF FpgaRecv, TypeOK
  <2>3. \A u \in Thread : pc'[u] # "idle" => pc[u] # "idle"
    BY <1>4 DEF FpgaRecv, TypeOK, Goto, Return
  <2>4. /\ pc' \in [Thread -> {"idle", "lock", "send", "recv", "unlock", "fetch", "copy"}]
        /\ result' \in [Thread -> {"none", "ok", "failed", "EINVAL"}]
    BY <1>4 DEF FpgaRecv, TypeOK, Goto, Return
  <2> QED BY <1>4, <2>2, <2>3, <2>4 DEF FpgaRecv, TypeOK
<1>5. ASSUME NEW t \in Thread, Unlock(t) PROVE TypeOK'
  BY <1>5 DEF Unlock, TypeOK, Goto, Return, dev
<1>6. ASSUME NEW t \in Thread, Fetch(t) PROVE TypeOK'
  <2>1. NextChannel(t) \in Channel /\ MetaOf(t) \in Channel
    BY <1>6, ReadingChannel DEF Fetch
  <2>2. PICK c \in Channel : c = NextChannel(t)
    BY <2>1
  <2>3. ASSUME frames[c] # <<>>, NEW d \in Delivery(c)
        PROVE  d[1] \in Frame /\ d[2] \in Seq(Frame)
    <3>1. Head(frames[c]) \in Frame /\ Tail(frames[c]) \in Seq(Frame) /\ Cut \in Frame
      BY <2>3 DEF TypeOK, Frame
    <3>2. <<Cut>> \o Tail(frames[c]) \in Seq(Frame)
      BY <3>1
    <3>3. PICK q : q = <<Cut>> \o Tail(frames[c])
      OBVIOUS
    <3>4. \/ d = <<Head(frames[c]), Tail(frames[c])>>
          \/ d = <<Cut, Tail(frames[c])>>
          \/ d = <<Cut, q>>
      BY <2>3, <3>3 DEF Delivery
    <3>5. q \in Seq(Frame) /\ Tail(frames[c]) \in Seq(Frame)
      BY <3>1, <3>2, <3>3
    <3>6. \E a \in Frame, b \in Seq(Frame) : d = <<a, b>>
      BY <3>1, <3>4, <3>5, Zenon
    <3> QED BY <3>6
  <2>4. frames' \in [Channel -> Seq(Frame)]
    BY <1>6, <2>2, <2>3 DEF Fetch, TypeOK
  <2>5. meta' \in [Channel -> Frame \cup {Null}]
    BY <1>6, <2>1, <2>2, <2>3 DEF Fetch, TypeOK
  <2>6. got' \in [Thread -> [Channel -> Frame \cup {Null}]]
    <3>1. \/ got' = got
          \/ frames[c] # <<>> /\ \E d \in Delivery(c) : got' = [got EXCEPT ![t][c] = d[1]]
      BY <1>6, <2>2 DEF Fetch
    <3>2. got \in [Thread -> [Channel -> Frame \cup {Null}]]
      BY DEF TypeOK
    <3> QED BY <2>3, <3>1, <3>2
  <2>7. \A u \in Thread : pc'[u] # "idle" => pc[u] # "idle"
    BY <1>6 DEF Fetch, TypeOK, Goto, Return
  <2>8. /\ pc' \in [Thread -> {"idle", "lock", "send", "recv", "unlock", "fetch", "copy"}]
        /\ result' \in [Thread -> {"none", "ok", "failed", "EINVAL"}]
    BY <1>6 DEF Fetch, TypeOK, Goto, Return
  <2> QED BY <1>6, <2>4, <2>5, <2>6, <2>7, <2>8 DEF Fetch, TypeOK
<1>7. ASSUME NEW t \in Thread, Copy(t) PROVE TypeOK'
  <2>1. NextChannel(t) \in Channel /\ MetaOf(t) \in Channel
    BY <1>7, ReadingChannel DEF Copy
  <2>2. got' \in [Thread -> [Channel -> Frame \cup {Null}]]
    BY <1>7, <2>1 DEF Copy, TypeOK
  <2> QED BY <1>7, <2>2 DEF Copy, TypeOK, Goto, Return, dev
<1>8. ASSUME Device PROVE TypeOK'
  <2> DEFINE m == Head(toDev)
  <2>1. m \in Message /\ Tail(toDev) \in Seq(Message)
    BY <1>8 DEF Device, TypeOK
  <2>2. m.rf \in RfId /\ m.reg \in Reg /\ m.val \in Value
    BY <2>1 DEF Message
  <2>3. regs' \in [RfId \X Reg -> Value]
    BY <1>8, <2>2 DEF Device, TypeOK
  <2>4. toHost' \in Seq(Reply)
    <3>1. [rf |-> m.rf, reg |-> m.reg, val |-> m.val] \in Reply
      BY <2>2 DEF Reply
    <3>2. [rf |-> m.rf, reg |-> m.reg, val |-> regs[<<m.rf, m.reg>>]] \in Reply
      BY <2>2 DEF Reply, TypeOK
    <3>3. toHost \in Seq(Reply)
      BY DEF TypeOK
    <3>4. \/ toHost' = toHost
          \/ toHost' = Append(toHost, [rf |-> m.rf, reg |-> m.reg, val |-> m.val])
          \/ toHost' = Append(toHost, [rf |-> m.rf, reg |-> m.reg, val |-> regs[<<m.rf, m.reg>>]])
      BY <1>8 DEF Device
    <3> QED BY <3>1, <3>2, <3>3, <3>4
  <2>5. frames' \in [Channel -> Seq(Frame)]
    <3>1. ASSUME NEW c \in Channel
          PROVE  Append(frames[c], [ch |-> c, time |-> m.val]) \in Seq(Frame)
      <4>1. [ch |-> c, time |-> m.val] \in Frame
        BY <2>2 DEF Frame
      <4>2. frames[c] \in Seq(Frame)
        BY DEF TypeOK
      <4> QED BY <4>1, <4>2
    <3> QED BY <1>8, <3>1 DEF Device, TypeOK
  <2> QED BY <1>8, <2>1, <2>3, <2>4, <2>5 DEF Device, TypeOK, host
<1>9. CASE UNCHANGED vars
  BY <1>9 DEF vars, TypeOK
<1> QED BY <1>1, <1>2, <1>3, <1>4, <1>5, <1>6, <1>7, <1>8, <1>9 DEF Next, Step

-----------------------------------------------------------------------------
(* No step takes a call to a point its function does not have.             *)
LEMMA ControlStep == IInv /\ [Next]_vars => Control'
<1> SUFFICES ASSUME IInv, [Next]_vars PROVE Control'
  OBVIOUS
<1> USE DEF IInv
<1>0. /\ pc \in [Thread -> {"idle", "lock", "send", "recv", "unlock", "fetch", "copy"}]
      /\ \A t \in Thread : call[t].op \in Ops
  BY DEF TypeOK, Message
<1>1. ASSUME NEW t \in Thread, Call(t) PROVE Control'
  <2>1. PICK op \in Ops, r \in RfId, g \in Reg, v \in Value, chans \in SUBSET Channel,
             next \in {"idle", "lock", "send"} :
           /\ Enter(t, op, r, g, v, chans, next)
           /\ op \in Commands => next \in {"idle", "lock"}
           /\ op \in {"recv", "recv2"} => next \in {"idle", "lock"}
           /\ op = "recv3" => next = "send"
           /\ op \in {"recv", "recv2"} => chans # {}
    BY <1>1, CallEnters
  <2>2. /\ call'[t].op = op /\ call'[t].chans = chans /\ pc'[t] = next
        /\ got'[t] = NoFrames
    BY <2>1 DEF Enter, TypeOK
  <2>3. \A u \in Thread : u # t => /\ call'[u] = call[u] /\ pc'[u] = pc[u] /\ got'[u] = got[u]
    BY <2>1 DEF Enter, TypeOK
  <2>4. Unread(t)' = chans
    BY <2>2 DEF Unread, NoFrames
  <2>5. \A u \in Thread : u # t => Unread(u)' = Unread(u)
    BY <2>3 DEF Unread
  <2> QED BY <2>1, <2>2, <2>3, <2>4, <2>5 DEF Control, Ops, Commands, StreamOps
<1>2. ASSUME UNCHANGED <<call, got>>, NEW t \in Thread, NEW p, pc' = [pc EXCEPT ![t] = p],
             /\ call[t].op \in Commands => p \in {"idle", "lock", "send", "recv", "unlock"}
             /\ call[t].op \in {"recv", "recv2"} =>
                  p \in {"idle", "lock", "send", "unlock", "fetch", "copy"}
             /\ call[t].op = "recv3" => p \in {"idle", "fetch", "copy"}
             /\ p \in {"fetch", "copy"} => Unread(t) # {},
             pc[t] # "idle"
      PROVE  Control'
  <2>1. \A u \in Thread : Unread(u)' = Unread(u)
    BY <1>2 DEF Unread
  <2> QED BY <1>0, <1>2, <2>1 DEF Control
<1>3. ASSUME NEW t \in Thread, Lock(t) PROVE Control'
  <2>1. call[t].op # "recv3"
    BY <1>3 DEF Lock, Control
  <2> QED BY <1>2, <1>3, <2>1 DEF Lock
<1>4. ASSUME NEW t \in Thread, FpgaSend(t) PROVE Control'
  <2>1. PICK p \in {"idle", "recv", "fetch", "unlock"} :
          /\ pc' = [pc EXCEPT ![t] = p]
          /\ \/ p = "idle"
             \/ call[t].op \in Commands /\ p = "recv"
             \/ call[t].op = "recv3" /\ call[t].chans # {} /\ p = "fetch"
             \/ call[t].op \notin Commands /\ call[t].op # "recv3" /\ p = "unlock"
    BY <1>4 DEF FpgaSend, AfterSend, Goto, Return
  <2>2. p = "fetch" => Unread(t) # {}
    BY <1>4, <2>1 DEF FpgaSend, Control
  <2> QED BY <1>0, <1>2, <1>4, <2>1, <2>2 DEF FpgaSend, Commands
<1>5. ASSUME NEW t \in Thread, FpgaRecv(t) PROVE Control'
  <2>1. PICK p \in {"idle", "unlock"} : pc' = [pc EXCEPT ![t] = p]
    BY <1>5 DEF FpgaRecv, Goto, Return
  <2>2. call[t].op \in Commands
    BY <1>0, <1>5 DEF FpgaRecv, Control, Ops, Commands
  <2> QED BY <1>2, <1>5, <2>1, <2>2 DEF FpgaRecv, Commands
<1>6. ASSUME NEW t \in Thread, Unlock(t) PROVE Control'
  <2>1. pc' = [pc EXCEPT ![t] = IF call[t].op \in Commands THEN "idle" ELSE "fetch"]
    BY <1>6 DEF Unlock, Goto, Return
  <2>2. call[t].op \notin Commands => Unread(t) # {}
    BY <1>0, <1>6 DEF Unlock, Control, Ops, Commands
  <2> QED BY <1>0, <1>2, <1>6, <2>1, <2>2 DEF Unlock, Commands
<1>7. ASSUME NEW t \in Thread, Fetch(t) PROVE Control'
  <2>1. call[t].op \in StreamOps /\ Unread(t) # {}
    BY <1>7, ReadingChannel DEF Fetch
  <2>2. CASE call[t].op = "recv2" /\ pc' = [pc EXCEPT ![t] = "idle"]
    <3>1. \A u \in Thread : u # t => Unread(u)' = Unread(u)
      BY <1>7 DEF Fetch, TypeOK, Unread
    <3> QED BY <1>0, <1>7, <2>2, <3>1 DEF Fetch, Control, Commands
  <2>3. CASE /\ UNCHANGED got
             /\ \E p \in {"idle", "copy"} : pc' = [pc EXCEPT ![t] = p]
    BY <1>2, <1>7, <2>1, <2>3 DEF Fetch, StreamOps, Commands
  <2> QED BY <1>7, <2>2, <2>3 DEF Fetch, Goto, Return
<1>8. ASSUME NEW t \in Thread, Copy(t) PROVE Control'
  <2>1. call[t].op \in StreamOps /\ NextChannel(t) \in Unread(t) /\ NextChannel(t) \in Channel
    BY <1>8, ReadingChannel DEF Copy
  <2>2. \A u \in Thread : u # t => Unread(u)' = Unread(u)
    BY <1>8 DEF Copy, TypeOK, Unread
  <2>3. Unread(t) \ {NextChannel(t)} \subseteq Unread(t)'
    BY <1>8 DEF Copy, TypeOK, Unread, Message
  <2>4. CASE Unread(t) = {NextChannel(t)}
    BY <1>0, <1>8, <2>2, <2>4 DEF Copy, Control, Return
  <2>5. CASE Unread(t) # {NextChannel(t)}
    <3>1. Unread(t)' # {}
      BY <2>1, <2>3, <2>5
    <3> QED BY <1>0, <1>8, <2>1, <2>2, <2>5, <3>1 DEF Copy, Control, Goto, StreamOps, Commands
  <2> QED BY <2>4, <2>5
<1>9. CASE Device \/ UNCHANGED vars
  <2>1. UNCHANGED <<pc, call, got>>
    BY <1>9 DEF Device, host, vars
  <2> QED BY <2>1 DEF Control, Unread
<1> QED BY <1>1, <1>3, <1>4, <1>5, <1>6, <1>7, <1>8, <1>9 DEF Next, Step

-----------------------------------------------------------------------------
(* No step puts a thread between lock() and unlock() without the lock, or  *)
(* takes the lock from one that is there.                                  *)
LEMMA HolderStep == IInv /\ [Next]_vars => HolderInside'
<1> SUFFICES ASSUME IInv, [Next]_vars PROVE HolderInside'
  OBVIOUS
<1> USE DEF IInv
<1>0. /\ pc \in [Thread -> {"idle", "lock", "send", "recv", "unlock", "fetch", "copy"}]
      /\ \A t \in Thread : call[t].op \in Ops
  BY DEF TypeOK, Message
<1>1. ASSUME NEW t \in Thread, Call(t) PROVE HolderInside'
  <2>1. PICK op \in Ops, r \in RfId, g \in Reg, v \in Value, chans \in SUBSET Channel,
             next \in {"idle", "lock", "send"} :
           /\ Enter(t, op, r, g, v, chans, next)
           /\ op \in Commands => next \in {"idle", "lock"}
           /\ op \in {"recv", "recv2"} => next \in {"idle", "lock"}
    BY <1>1, CallEnters
  <2>2. call'[t].op = op /\ pc'[t] = next /\ lock' = lock
    BY <2>1 DEF Enter, TypeOK
  <2>3. \A u \in Thread : u # t => call'[u] = call[u] /\ pc'[u] = pc[u]
    BY <2>1 DEF Enter, TypeOK
  <2> QED BY <2>1, <2>2, <2>3 DEF HolderInside, InExchange, Ops, Commands
<1>2. ASSUME NEW t \in Thread, Lock(t) PROVE HolderInside'
  <2>1. \A u \in Thread : ~InExchange(u)
    BY <1>2, ConstantsAssumption DEF Lock, HolderInside
  <2> QED BY <1>0, <1>2, <2>1 DEF Lock, HolderInside, InExchange
<1>3. ASSUME NEW t \in Thread, FpgaSend(t) PROVE HolderInside'
  <2>1. \A u \in Thread : InExchange(u)' => InExchange(u)
    BY <1>0, <1>3 DEF FpgaSend, InExchange, AfterSend, Goto, Return, Commands
  <2> QED BY <1>3, <2>1 DEF FpgaSend, HolderInside
<1>4. ASSUME NEW t \in Thread, FpgaRecv(t) PROVE HolderInside'
  <2>1. \A u \in Thread : InExchange(u)' => InExchange(u)
    BY <1>0, <1>4 DEF FpgaRecv, InExchange, Goto, Return
  <2> QED BY <1>4, <2>1 DEF FpgaRecv, HolderInside
<1>5. ASSUME NEW t \in Thread, Unlock(t) PROVE HolderInside'
  <2>1. InExchange(t)
    BY <1>5 DEF Unlock, InExchange, Control, Commands
  <2>2. \A u \in Thread : InExchange(u)' => InExchange(u) /\ u # t
    BY <1>0, <1>5 DEF Unlock, InExchange, Goto, Return
  <2> QED BY <2>1, <2>2 DEF HolderInside
<1>6. ASSUME NEW t \in Thread, Fetch(t) \/ Copy(t) PROVE HolderInside'
  <2>1. \A u \in Thread : InExchange(u)' => InExchange(u)
    BY <1>0, <1>6 DEF Fetch, Copy, InExchange, Goto, Return
  <2> QED BY <1>6, <2>1 DEF Fetch, Copy, HolderInside
<1>7. CASE Device \/ UNCHANGED vars
  BY <1>7 DEF Device, host, vars, HolderInside, InExchange
<1> QED BY <1>1, <1>2, <1>3, <1>4, <1>5, <1>6, <1>7 DEF Next, Step

-----------------------------------------------------------------------------
(* Channel 0 holds at most the command of the thread inside an exchange,   *)
(* or its reply.                                                           *)

(* A step that leaves the device and channel 0 alone keeps ChannelZero if  *)
(* no thread newly depends on it.                                          *)
LEMMA ChannelZeroKept ==
  ASSUME ChannelZero, UNCHANGED <<toDev, toHost, regs>>,
         lock' = Null => lock = Null \/ Quiet,
         \A t \in Thread :
           /\ InExchange(t)' /\ pc'[t] \in {"send", "unlock"} =>
                (InExchange(t) /\ pc[t] \in {"send", "unlock"}) \/ Quiet
           /\ pc'[t] = "recv" => pc[t] = "recv" /\ call'[t] = call[t]
           /\ pc'[t] = "unlock" /\ call'[t].op \in Commands =>
                pc[t] = "unlock" /\ call'[t] = call[t] /\ buf'[t] = buf[t]
  PROVE  ChannelZero'
<1>1. Quiet' = Quiet
  BY DEF Quiet, NoCommand
<1>2. \A t \in Thread : pc'[t] = "recv" => Awaited(t)'
  <2> SUFFICES ASSUME NEW t \in Thread, pc'[t] = "recv" PROVE Awaited(t)'
    OBVIOUS
  <2>1. Awaited(t) /\ call'[t] = call[t]
    BY DEF ChannelZero
  <2> QED BY <1>1, <2>1 DEF Awaited, OneCommand, NoCommand, Answers
<1>3. \A t \in Thread :
        pc'[t] = "unlock" /\ call'[t].op \in Commands => Answers(buf[t], call[t])'
  <2> SUFFICES ASSUME NEW t \in Thread, pc'[t] = "unlock", call'[t].op \in Commands
               PROVE  Answers(buf[t], call[t])'
    OBVIOUS
  <2>1. Answers(buf[t], call[t]) /\ call'[t] = call[t] /\ buf'[t] = buf[t]
    BY DEF ChannelZero
  <2> QED BY <2>1 DEF Answers
<1> QED BY <1>1, <1>2, <1>3 DEF ChannelZero

(* What is on channel 0 stays the business of the thread inside the        *)
(* exchange, whatever other threads and the FPGA do.                       *)
LEMMA ChannelZeroStep == IInv /\ [Next]_vars => ChannelZero'
<1> SUFFICES ASSUME IInv, [Next]_vars PROVE ChannelZero'
  OBVIOUS
<1> USE DEF IInv
<1>0. /\ pc \in [Thread -> {"idle", "lock", "send", "recv", "unlock", "fetch", "copy"}]
      /\ call \in [Thread -> Message] /\ buf \in [Thread -> Reply]
      /\ toDev \in Seq(Message) /\ toHost \in Seq(Reply)
      /\ \A t \in Thread : call[t].op \in Ops
      /\ Null \notin Thread
  BY ConstantsAssumption DEF TypeOK, Message
<1>1. ASSUME NEW t \in Thread, Call(t) PROVE ChannelZero'
  <2>1. PICK op \in Ops, r \in RfId, g \in Reg, v \in Value, chans \in SUBSET Channel,
             next \in {"idle", "lock", "send"} :
           /\ Enter(t, op, r, g, v, chans, next)
           /\ op \in Commands => next \in {"idle", "lock"}
           /\ op \in {"recv", "recv2"} => next \in {"idle", "lock"}
    BY <1>1, CallEnters
  <2>2. /\ call'[t].op = op /\ pc'[t] = next
        /\ UNCHANGED <<lock, buf, toDev, toHost, regs>>
    BY <2>1 DEF Enter, TypeOK, dev
  <2>3. \A u \in Thread : u # t => call'[u] = call[u] /\ pc'[u] = pc[u]
    BY <2>1 DEF Enter, TypeOK
  <2> QED BY <2>1, <2>2, <2>3, ChannelZeroKept DEF InExchange, Ops, Commands
<1>2. ASSUME NEW t \in Thread, Lock(t) PROVE ChannelZero'
  <2>1. Quiet
    BY <1>2 DEF Lock, ChannelZero
  <2> QED BY <1>0, <1>2, <2>1, ChannelZeroKept DEF Lock, dev, InExchange
<1>3. ASSUME NEW t \in Thread, FpgaSend(t) PROVE ChannelZero'
  <2>1. CASE call[t].op = "recv3"
    <3>1. toDev' = toDev \/ toDev' = Append(toDev, call[t])
      BY <1>3 DEF FpgaSend, Request
    <3>2. call[t].op \notin Commands
      BY <2>1 DEF Commands
    <3>3. Quiet => Quiet'
      BY <1>0, <1>3, <3>1, <3>2, AppendRequest DEF FpgaSend, Quiet
    <3>4. ASSUME NEW u \in Thread, Awaited(u) PROVE Awaited(u)'
      BY <1>0, <1>3, <3>1, <3>2, <3>4, AppendRequest DEF FpgaSend, Awaited, Quiet, Answers
    <3>5. pc'[t] \in {"idle", "fetch"} /\ \A u \in Thread : u # t => pc'[u] = pc[u]
      BY <1>0, <1>3, <2>1 DEF FpgaSend, AfterSend, Goto, Return, Commands
    <3> QED BY <1>3, <3>3, <3>4, <3>5 DEF FpgaSend, ChannelZero, InExchange, Answers
  <2>2. CASE call[t].op # "recv3"
    <3>1. InExchange(t) /\ Quiet
      BY <1>3, <2>2 DEF FpgaSend, InExchange, ChannelZero
    <3>2. lock' = t /\ \A u \in Thread : InExchange(u) => u = t
      BY <1>3, <3>1 DEF FpgaSend, HolderInside
    <3>3. \A u \in Thread : u # t => pc'[u] = pc[u] /\ call'[u] = call[u]
      BY <1>0, <1>3 DEF FpgaSend, AfterSend, Goto, Return
    <3>4. \A u \in Thread : u # t => pc'[u] \notin {"recv", "unlock"} /\ ~InExchange(u)'
      BY <1>0, <3>2, <3>3 DEF InExchange, Control, Commands, Ops
    <3>5. CASE call[t].op \in Commands /\ pc'[t] = "recv" /\ toDev' = Append(toDev, call[t])
      <4>1. OneCommand(toDev', call'[t]) /\ toHost' = <<>>
        BY <1>0, <1>3, <3>1, <3>5, AppendCommand DEF FpgaSend, Quiet
      <4> QED BY <1>0, <3>2, <3>4, <3>5, <4>1 DEF ChannelZero, Awaited, InExchange
    <3>6. CASE call[t].op \in Commands /\ pc'[t] = "recv" /\ toDev' = toDev
      <4>1. Quiet'
        BY <1>3, <3>1, <3>6 DEF FpgaSend, Quiet
      <4> QED BY <1>0, <3>2, <3>4, <3>6, <4>1 DEF ChannelZero, Awaited, InExchange
    <3>7. CASE /\ call[t].op \notin Commands /\ pc'[t] = "unlock"
               /\ toDev' = toDev \/ toDev' = Append(toDev, call[t])
      <4>1. Quiet'
        BY <1>0, <1>3, <3>1, <3>7, AppendRequest DEF FpgaSend, Quiet
      <4> QED BY <1>0, <1>3, <3>2, <3>4, <3>7, <4>1 DEF FpgaSend, ChannelZero, InExchange
    <3>8. CASE pc'[t] = "idle"
      BY <1>0, <3>2, <3>4, <3>8 DEF ChannelZero, InExchange
    <3> QED BY <1>0, <1>3, <2>2, <3>5, <3>6, <3>7, <3>8
            DEF FpgaSend, Request, AfterSend, Goto, Return
  <2> QED BY <2>1, <2>2
<1>4. ASSUME NEW t \in Thread, FpgaRecv(t) PROVE ChannelZero'
  <2>1. call[t].op \in Commands
    BY <1>0, <1>4 DEF FpgaRecv, Control, Ops, Commands
  <2>2. InExchange(t) /\ Awaited(t)
    BY <1>4, <2>1 DEF FpgaRecv, InExchange, ChannelZero, Commands
  <2>3. lock' = t /\ \A u \in Thread : InExchange(u) => u = t
    BY <1>4, <2>2 DEF FpgaRecv, HolderInside
  <2>4. \A u \in Thread : u # t => pc'[u] = pc[u] /\ call'[u] = call[u]
    BY <1>0, <1>4 DEF FpgaRecv, Goto, Return
  <2>5. \A u \in Thread : u # t => pc'[u] \notin {"recv", "unlock"} /\ ~InExchange(u)'
    BY <1>0, <2>3, <2>4 DEF InExchange, Control, Commands, Ops
  <2>6. CASE toHost # <<>> /\ buf' = [buf EXCEPT ![t] = Head(toHost)]
             /\ toHost' = Tail(toHost) /\ pc' = [pc EXCEPT ![t] = "unlock"]
    <3>1. NoCommand(toDev) /\ Tail(toHost) = <<>> /\ Answers(Head(toHost), call[t])
      BY <2>2, <2>6 DEF Awaited, Quiet
    <3>2. Quiet' /\ Answers(buf[t], call[t])'
      BY <1>0, <1>4, <2>6, <3>1 DEF FpgaRecv, Quiet, Answers
    <3> QED BY <1>0, <2>3, <2>5, <2>6, <3>2 DEF ChannelZero
  <2>7. CASE pc' = [pc EXCEPT ![t] = "idle"]
    BY <1>0, <2>3, <2>5, <2>7 DEF ChannelZero, InExchange
  <2> QED BY <1>4, <2>6, <2>7 DEF FpgaRecv, Goto, Return
<1>5. ASSUME NEW t \in Thread, Unlock(t) PROVE ChannelZero'
  <2>1. Quiet
    BY <1>5 DEF Unlock, ChannelZero, InExchange, Control, Commands
  <2>2. pc'[t] \in {"idle", "fetch"} /\ \A u \in Thread : u # t => pc'[u] = pc[u]
    BY <1>0, <1>5 DEF Unlock, Goto, Return
  <2> QED BY <1>5, <2>1, <2>2, ChannelZeroKept DEF Unlock, dev, InExchange
<1>6. ASSUME NEW t \in Thread, Fetch(t) \/ Copy(t) PROVE ChannelZero'
  <2>1. /\ pc'[t] \in {"idle", "fetch", "copy"}
        /\ \A u \in Thread : u # t => pc'[u] = pc[u]
    BY <1>0, <1>6 DEF Fetch, Copy, Goto, Return
  <2>2. UNCHANGED <<lock, call, buf, toDev, toHost, regs>>
    BY <1>6 DEF Fetch, Copy, dev
  <2> QED BY <2>1, <2>2, ChannelZeroKept DEF InExchange
<1>7. ASSUME Device PROVE ChannelZero'
  <2>0. PICK m \in Message :
          /\ toDev # <<>> /\ toDev' = Tail(toDev) /\ m = Head(toDev)
          /\ UNCHANGED <<lock, pc, call, buf>>
    BY <1>0, <1>7 DEF Device, host
  <2>1. CASE m.op \notin Commands
    <3>1. UNCHANGED <<toHost, regs>>
      BY <1>7, <2>0, <2>1 DEF Device, Commands
    <3>2. Quiet => Quiet'
      BY <1>0, <2>0, <3>1, TakeRequest DEF Quiet
    <3>3. ASSUME NEW t \in Thread, pc[t] = "recv" PROVE Awaited(t)'
      <4>1. call[t].op \in Commands /\ call[t] \in Message /\ Awaited(t)
        BY <1>0, <3>3 DEF Control, Ops, Commands, ChannelZero
      <4>2. CASE Quiet
        BY <3>2, <4>2 DEF Awaited
      <4>3. CASE toHost = <<>> /\ OneCommand(toDev, call[t])
        BY <1>0, <2>0, <2>1, <3>1, <4>1, <4>3, TakeOne DEF Awaited
      <4>4. CASE /\ NoCommand(toDev) /\ toHost # <<>> /\ Tail(toHost) = <<>>
                 /\ Answers(Head(toHost), call[t])
        BY <1>0, <2>0, <3>1, <4>4, TakeRequest DEF Awaited, Answers
      <4> QED BY <4>1, <4>2, <4>3, <4>4 DEF Awaited
    <3> QED BY <2>0, <3>1, <3>2, <3>3 DEF ChannelZero, InExchange, Answers
  <2>2. CASE m.op \in Commands
    <3>1. ~NoCommand(toDev)
      BY <1>0, <2>0, <2>2, TakeRequest
    <3>2. lock # Null /\ \A t \in Thread : ~(InExchange(t) /\ pc[t] \in {"send", "unlock"})
      BY <3>1 DEF ChannelZero, Quiet
    <3>3. \A t \in Thread : pc[t] # "unlock"
      BY <3>2 DEF InExchange, Control
    <3>4. ASSUME NEW t \in Thread, pc[t] = "recv" PROVE Awaited(t)'
      <4>1. call[t].op \in Commands /\ call[t] \in Message
        BY <1>0, <3>4 DEF Control, Ops, Commands
      <4>2. toHost = <<>> /\ OneCommand(toDev, call[t])
        BY <3>1, <3>4 DEF ChannelZero, Awaited, Quiet
      <4>3. m = call[t] /\ NoCommand(Tail(toDev))
        BY <1>0, <2>0, <2>2, <4>1, <4>2, TakeOne
      <4>4. <<m.rf, m.reg>> \in RfId \X Reg
        BY <2>0 DEF Message
      <4>5. \E r : toHost' = Append(toHost, r) /\ r \in Reply /\ Answers(r, m)'
        <5>1. CASE m.op = "set"
          <6>1. /\ regs' = [regs EXCEPT ![<<m.rf, m.reg>>] = m.val]
                /\ toHost' = Append(toHost, [rf |-> m.rf, reg |-> m.reg, val |-> m.val])
            BY <1>7, <2>0, <5>1 DEF Device, Commands, StreamOps
          <6>2. regs'[<<m.rf, m.reg>>] = m.val
            BY <4>4, <6>1 DEF TypeOK
          <6> QED BY <2>0, <4>3, <5>1, <6>1, <6>2 DEF Answers, Reply, Message
        <5>2. CASE m.op = "get"
          <6>1. /\ regs' = regs
                /\ toHost' = Append(toHost, [rf |-> m.rf, reg |-> m.reg,
                                             val |-> regs[<<m.rf, m.reg>>]])
            BY <1>7, <2>0, <5>2 DEF Device, Commands, StreamOps
          <6>2. regs[<<m.rf, m.reg>>] \in Value
            BY <4>4 DEF TypeOK
          <6> QED BY <2>0, <4>3, <5>2, <6>1, <6>2 DEF Answers, Reply, Message
        <5> QED BY <2>2, <5>1, <5>2 DEF Commands
      <4>6. PICK r : toHost' = Append(toHost, r) /\ r \in Reply /\ Answers(r, m)'
        BY <4>5
      <4>7. toHost' # <<>> /\ Head(toHost') = r /\ Tail(toHost') = <<>>
        BY <4>2, <4>6
      <4> QED BY <2>0, <4>3, <4>6, <4>7 DEF Awaited, Answers
    <3> QED BY <2>0, <3>2, <3>3, <3>4 DEF ChannelZero, InExchange
  <2> QED BY <2>1, <2>2
<1>8. CASE UNCHANGED vars
  BY <1>8, ChannelZeroKept DEF vars, InExchange
<1> QED BY <1>1, <1>2, <1>3, <1>4, <1>5, <1>6, <1>7, <1>8 DEF Next, Step

-----------------------------------------------------------------------------
(* The theorems.                                                           *)

(* The invariant holds of a device that has just been opened.              *)
LEMMA InitIInv == Init => IInv
<1> SUFFICES ASSUME Init PROVE IInv
  OBVIOUS
<1>1. TypeOK
  BY InitTypeOK
<1>2. \A t \in Thread : pc[t] = "idle"
  BY DEF Init
<1>3. lock = Null /\ toDev = <<>> /\ toHost = <<>>
  BY DEF Init
<1>4. Quiet
  BY <1>3 DEF Quiet, NoCommand
<1> QED BY <1>1, <1>2, <1>4 DEF IInv, Control, HolderInside, ChannelZero, InExchange

(* The invariant is inductive.                                             *)
LEMMA NextIInv == IInv /\ [Next]_vars => IInv'
BY TypeStep, ControlStep, HolderStep, ChannelZeroStep DEF IInv

(* The invariant holds in every state of every run.                        *)
THEOREM SpecIInv == Spec => []IInv
BY InitIInv, NextIInv, PTL DEF Spec

(* Every variable keeps its type, and a single-port stream call never gets *)
(* past its checks with a channel the board does not have.                 *)
THEOREM PcieTypeOK == Spec => []TypeOK
BY SpecIInv, PTL DEF IInv

(* Register exchanges never overlap on channel 0, whatever RIFFA calls     *)
(* fail: a failed exchange leaves the spinlock taken.                      *)
THEOREM PcieExclusive == Spec => []Exclusive
<1>1. IInv => Exclusive
  BY DEF IInv, HolderInside, Exclusive
<1> QED BY <1>1, SpecIInv, PTL

(* Whoever finds the spinlock free finds channel 0 without a command or a  *)
(* reply of an earlier call.                                               *)
THEOREM PcieQuietWhenFree == Spec => []QuietWhenFree
<1>1. IInv => QuietWhenFree
  BY DEF IInv, ChannelZero, Quiet, QuietWhenFree
<1> QED BY <1>1, SpecIInv, PTL

(* The reply a command call returns is its own and is true of the device,  *)
(* though replies carry no sequence number and nothing in one is compared. *)
THEOREM PcieReplyCurrent == Spec => []ReplyCurrent
<1>1. IInv => ReplyCurrent
  BY DEF IInv, ChannelZero, Answers, ReplyCurrent
<1> QED BY <1>1, SpecIInv, PTL
-----------------------------------------------------------------------------
(* Reading the streams, in a program whose threads do not share them.      *)

(* No failure of fpga_recv: what has been sent for is always waited for    *)
(* until it is there, and arrives whole.                                   *)
NoneLate == Faults \cap {"recv_neg", "recv_zero", "recv_short"} = {}

(* Two threads share no channel, and rx_meta[0], into which recv3 reads    *)
(* whatever its channels are, belongs to one thread.                       *)
OwnStreams ==
  /\ \A t, u \in Thread : t # u => Streams[t] \cap Streams[u] = {}
  /\ \A t, u \in Thread : t # u /\ "recv3" \in Modes[t] =>
       "recv3" \notin Modes[u] /\ 1 \notin Streams[u]

FrameOf(t, c) == [ch |-> c, time |-> call[t].val]

NotAsked(c) == \A i \in 1 .. Len(toDev) : c \notin toDev[i].chans

AskedAt(c, v, i) ==
  /\ toDev[i].op \in StreamOps /\ c \in toDev[i].chans /\ toDev[i].val = v
  /\ \A j \in 1 .. Len(toDev) : j # i => c \notin toDev[j].chans

(* Where the frame of channel c and time v is: nowhere, asked for, here.   *)
Clear(c) == frames[c] = <<>> /\ NotAsked(c)
Coming(c, v) == frames[c] = <<>> /\ \E i \in 1 .. Len(toDev) : AskedAt(c, v, i)
Come(c, v) == frames[c] = <<[ch |-> c, time |-> v]>> /\ NotAsked(c)

(* A channel whose frame t has sent for and not yet taken.                 *)
Due(t, c) ==
  /\ c \in Unread(t)
  /\ pc[t] \in {"unlock", "fetch"} \/ (pc[t] = "copy" /\ c # NextChannel(t))

OwnRequest(t) ==
  /\ call[t].chans \subseteq Streams[t]
  /\ call[t].op \in Commands => call[t].chans = {}
  /\ call[t].op \in {"recv", "recv2"} => \E c \in Channel : call[t].chans = {c}
  /\ pc[t] # "idle" => call[t].op \in Modes[t]

Taken(t) ==
  /\ pc[t] = "copy" => meta[MetaOf(t)] = FrameOf(t, NextChannel(t))
  /\ \A c \in call[t].chans : got[t][c] \in {Null, FrameOf(t, c)}
  /\ pc[t] \in {"lock", "send"} => Unread(t) = call[t].chans
  /\ result[t] = "ok" => Unread(t) = {}

StreamOf(t, c) ==
  Clear(c) \/ (Due(t, c) /\ (Coming(c, call[t].val) \/ Come(c, call[t].val)))

StreamInv ==
  \A t \in Thread :
    /\ OwnRequest(t) /\ Taken(t)
    /\ \A c \in Streams[t] : StreamOf(t, c)
-----------------------------------------------------------------------------
(* The frame of one channel.                                               *)

(* Requests for other channels change nothing for this one.                *)
LEMMA KeptChannel ==
  ASSUME TypeOK, NEW c \in Channel, NEW v, frames'[c] = frames[c],
         toDev' = toDev \/ \E m \in Message : c \notin m.chans /\ toDev' = Append(toDev, m)
  PROVE  /\ Clear(c) => Clear(c)'
         /\ Coming(c, v) => Coming(c, v)'
         /\ Come(c, v) => Come(c, v)'
<1>0. toDev \in Seq(Message)
  BY DEF TypeOK
<1>1. CASE toDev' = toDev
  BY <1>1 DEF Clear, Coming, Come, NotAsked, AskedAt
<1>2. ASSUME NEW m \in Message, c \notin m.chans, toDev' = Append(toDev, m)
      PROVE  /\ NotAsked(c) => NotAsked(c)'
             /\ Coming(c, v) => Coming(c, v)'
  <2>1. /\ Len(toDev') = Len(toDev) + 1 /\ Len(toDev) \in Nat
        /\ \A i \in 1 .. Len(toDev) : toDev'[i] = toDev[i]
        /\ toDev'[Len(toDev) + 1] = m
    BY <1>0, <1>2
  <2>2. NotAsked(c) => NotAsked(c)'
    BY <1>2, <2>1 DEF NotAsked
  <2>3. ASSUME NEW i \in 1 .. Len(toDev), AskedAt(c, v, i)
        PROVE  i \in 1 .. Len(toDev') /\ AskedAt(c, v, i)'
    <3>1. \A j \in 1 .. Len(toDev') : j # i => c \notin toDev'[j].chans
      BY <1>2, <2>1, <2>3 DEF AskedAt
    <3> QED BY <2>1, <2>3, <3>1 DEF AskedAt
  <2> QED BY <2>2, <2>3 DEF Coming
<1> QED BY <1>1, <1>2 DEF Clear, Come

(* A read request puts every channel it names on the way.                  *)
LEMMA AskedChannel ==
  ASSUME TypeOK, NEW m \in Message, m.op \in StreamOps, NEW c \in m.chans,
         toDev' = Append(toDev, m), frames' = frames, Clear(c)
  PROVE  Coming(c, m.val)'
<1>1. /\ toDev \in Seq(Message) /\ Len(toDev) \in Nat
      /\ Len(toDev') = Len(toDev) + 1
      /\ \A i \in 1 .. Len(toDev) : toDev'[i] = toDev[i]
      /\ toDev'[Len(toDev) + 1] = m
  BY DEF TypeOK
<1>2. PICK n \in 1 .. Len(toDev') : n = Len(toDev) + 1
  BY <1>1
<1>3. AskedAt(c, m.val, n)'
  BY <1>1, <1>2 DEF AskedAt, Clear, NotAsked
<1> QED BY <1>1, <1>2, <1>3 DEF Coming, Clear

(* The FPGA sends the frame that was asked for, and nothing else.          *)
LEMMA ServedChannel ==
  ASSUME TypeOK, Device, NEW c \in Channel, NEW v
  PROVE  /\ Clear(c) => Clear(c)'
         /\ Coming(c, v) => Coming(c, v)' \/ Come(c, v)'
         /\ Come(c, v) => Come(c, v)'
<1>1. PICK m \in Message : m = Head(toDev)
  BY DEF TypeOK, Device
<1>2. /\ toDev \in Seq(Message) /\ toDev # <<>> /\ toDev' = Tail(toDev)
      /\ m = toDev[1] /\ Len(toDev) \in Nat \ {0} /\ Len(toDev') = Len(toDev) - 1
      /\ \A i \in 1 .. Len(toDev') : toDev'[i] = toDev[i + 1]
  BY <1>1 DEF TypeOK, Device
<1>3. c \notin m.chans => frames'[c] = frames[c]
  BY <1>1 DEF TypeOK, Device
<1>4. c \in m.chans /\ m.op \in StreamOps /\ frames[c] = <<>> =>
        frames'[c] = <<[ch |-> c, time |-> m.val]>>
  <2> SUFFICES ASSUME c \in m.chans, m.op \in StreamOps, frames[c] = <<>>
               PROVE  frames'[c] = <<[ch |-> c, time |-> m.val]>>
    OBVIOUS
  <2>1. frames'[c] = Append(frames[c], [ch |-> c, time |-> m.val])
    BY <1>1 DEF Device, StreamOps
  <2> QED BY <2>1
<1>5. NotAsked(c) => c \notin m.chans /\ NotAsked(c)'
  BY <1>2 DEF NotAsked
<1>6. ASSUME NEW i \in 1 .. Len(toDev), AskedAt(c, v, i), frames[c] = <<>>
      PROVE  Coming(c, v)' \/ Come(c, v)'
  <2>1. CASE i = 1
    <3>1. NotAsked(c)'
      BY <1>2, <1>6, <2>1 DEF AskedAt, NotAsked
    <3> QED BY <1>2, <1>4, <1>6, <2>1, <3>1 DEF AskedAt, Come
  <2>2. CASE i # 1
    <3>1. i - 1 \in 1 .. Len(toDev') /\ toDev'[i - 1] = toDev[i]
      BY <1>2, <2>2
    <3>2. \A j \in 1 .. Len(toDev') : j # i - 1 => c \notin toDev'[j].chans
      BY <1>2, <1>6 DEF AskedAt
    <3>3. AskedAt(c, v, i - 1)'
      BY <1>6, <3>1, <3>2 DEF AskedAt
    <3>4. c \notin m.chans
      BY <1>2, <1>6, <2>2 DEF AskedAt
    <3> QED BY <1>3, <1>6, <3>1, <3>3, <3>4 DEF Coming
  <2> QED BY <2>1, <2>2
<1> QED BY <1>3, <1>5, <1>6 DEF Clear, Coming, Come
-----------------------------------------------------------------------------
(* The calls.                                                              *)

(* What t has read and asked for is its own business: a step of another    *)
(* thread takes no frame of its channels, asks for none, and does not      *)
(* touch the buffer t is copying from.                                     *)
LEMMA OthersKept ==
  ASSUME TypeOK, StreamInv, OwnStreams, NEW t \in Thread, NEW u \in Thread, u # t,
         pc'[u] = pc[u], call'[u] = call[u], got'[u] = got[u], result'[u] = result[u],
         \A c \in Streams[u] : frames'[c] = frames[c],
         toDev' = toDev \/ toDev' = Append(toDev, call[t]),
         pc[u] = "copy" => meta'[MetaOf(u)] = meta[MetaOf(u)]
  PROVE  OwnRequest(u)' /\ Taken(u)' /\ \A c \in Streams[u] : StreamOf(u, c)'
<1>1. Unread(u)' = Unread(u)
  BY DEF Unread
<1>2. NextChannel(u)' = NextChannel(u)
  BY <1>1 DEF NextChannel
<1>3. MetaOf(u)' = MetaOf(u)
  BY <1>2 DEF MetaOf
<1>4. OwnRequest(u)'
  BY DEF StreamInv, OwnRequest
<1>5. Taken(u)'
  <2>1. Taken(u)
    BY DEF StreamInv
  <2>2. pc'[u] = "copy" => meta'[MetaOf(u)'] = FrameOf(u, NextChannel(u))'
    BY <1>2, <1>3, <2>1 DEF Taken, FrameOf
  <2>3. \A c \in call'[u].chans : got'[u][c] \in {Null, FrameOf(u, c)'}
    BY <2>1 DEF Taken, FrameOf
  <2> QED BY <1>1, <2>1, <2>2, <2>3 DEF Taken
<1>6. ASSUME NEW c \in Streams[u] PROVE StreamOf(u, c)'
  <2>1. c \in Channel /\ c \notin call[t].chans /\ call[t] \in Message
    BY ConstantsAssumption DEF StreamInv, OwnRequest, OwnStreams, TypeOK
  <2>2. Due(u, c)' = Due(u, c)
    BY <1>1, <1>2 DEF Due
  <2>3. PICK v : v = call[u].val
    OBVIOUS
  <2>4. /\ Clear(c) => Clear(c)'
        /\ Coming(c, v) => Coming(c, v)'
        /\ Come(c, v) => Come(c, v)'
    BY <2>1, KeptChannel
  <2>5. StreamOf(u, c)
    BY DEF StreamInv
  <2>6. call'[u].val = v
    BY <2>3
  <2>7. Coming(c, call[u].val)' = Coming(c, v)' /\ Come(c, call[u].val)' = Come(c, v)'
    BY <2>6 DEF Coming, Come, AskedAt
  <2> QED BY <2>2, <2>3, <2>4, <2>5, <2>7 DEF StreamOf
<1> QED BY <1>4, <1>5, <1>6

(* Entering a stream call, with the channels it may ask for.               *)
LEMMA StreamEnters ==
  ASSUME NEW t \in Thread, Call(t)
  PROVE  \E op \in Ops, r \in RfId, g \in Reg, v \in Value, chans \in SUBSET Streams[t],
            next \in {"idle", "lock", "send"} :
           /\ Enter(t, op, r, g, v, chans, next)
           /\ op \in Commands => chans = {}
           /\ op \in {"recv", "recv2"} => \E c \in Channel : chans = {c}
<1>1. NoRf \in RfId /\ NoReg \in Reg
  BY ConstantsAssumption DEF NoRf, NoReg
<1>2. CASE \E r \in RfId, g \in Reg, v \in Value : CmdSend(t, r, g, v) \/ CmdSendThenRecv(t, r, g, v)
  BY <1>2 DEF CmdSend, CmdSendThenRecv, Ops, Commands
<1>3. CASE \E c \in Streams[t], v \in Value : StreamRecv(t, c, v)
  <2>1. PICK c \in Streams[t], v \in Value, op \in {"recv", "recv2"} :
          Enter(t, op, NoRf, NoReg, v, {c}, IF c < NumOfChannel THEN "lock" ELSE "idle")
    BY <1>3 DEF StreamRecv
  <2>2. {c} \in SUBSET Streams[t] /\ c \in Channel
    BY ConstantsAssumption
  <2> QED BY <1>1, <2>1, <2>2 DEF Ops, Commands
<1>4. CASE \E chans \in SUBSET Streams[t], v \in Value : StreamRecv3(t, chans, v)
  BY <1>1, <1>4 DEF StreamRecv3, Ops, Commands
<1> QED BY <1>2, <1>3, <1>4 DEF Call

(* A channel that stays clear, whatever the call of its thread is.         *)
LEMMA ClearKept ==
  ASSUME NEW t \in Thread, NEW c, Clear(c), frames'[c] = frames[c], toDev' = toDev
  PROVE  StreamOf(t, c)'
BY DEF StreamOf, Clear, NotAsked

(* A step of a call that touches neither channel 0 nor the frames keeps    *)
(* what the thread expects, if it still waits for what it has not read.    *)
LEMMA ExpectedKept ==
  ASSUME NEW t \in Thread, NEW c, StreamOf(t, c), frames'[c] = frames[c], toDev' = toDev,
         call'[t] = call[t], Due(t, c) => Due(t, c)'
  PROVE  StreamOf(t, c)'
BY DEF StreamOf, Clear, Coming, Come, NotAsked, AskedAt

(* What t may assume of itself.                                            *)
OwnPart(t) == OwnRequest(t) /\ Taken(t) /\ \A c \in Streams[t] : StreamOf(t, c)

(* A call starts with nothing read and nothing asked for.                  *)
LEMMA CallStreams ==
  ASSUME IInv, StreamInv, NEW t \in Thread, Call(t)
  PROVE  OwnPart(t)'
<1>1. PICK op \in Ops, r \in RfId, g \in Reg, v \in Value, chans \in SUBSET Streams[t],
           next \in {"idle", "lock", "send"} :
         /\ Enter(t, op, r, g, v, chans, next)
         /\ op \in Commands => chans = {}
         /\ op \in {"recv", "recv2"} => \E c \in Channel : chans = {c}
  BY StreamEnters
<1>2. /\ call'[t].op = op /\ call'[t].chans = chans /\ pc'[t] = next /\ got'[t] = NoFrames
      /\ result'[t] \in {"none", "EINVAL"} /\ op \in Modes[t] /\ pc[t] = "idle"
      /\ toDev' = toDev /\ frames' = frames
  BY <1>1 DEF Enter, IInv, TypeOK, dev
<1>3. chans \subseteq Channel
  BY ConstantsAssumption
<1>4. Unread(t)' = chans
  BY <1>2, <1>3 DEF Unread, NoFrames
<1>5. OwnRequest(t)'
  BY <1>1, <1>2 DEF OwnRequest
<1>6. Taken(t)'
  BY <1>2, <1>3, <1>4 DEF Taken, NoFrames
<1>7. ASSUME NEW c \in Streams[t] PROVE StreamOf(t, c)'
  <2>1. Clear(c)
    BY <1>2 DEF StreamInv, StreamOf, Due
  <2> QED BY <1>2, <2>1, ClearKept
<1> QED BY <1>5, <1>6, <1>7 DEF OwnPart

(* Taking the spinlock asks for nothing.                                   *)
LEMMA LockStreams ==
  ASSUME IInv, StreamInv, NEW t \in Thread, Lock(t)
  PROVE  OwnPart(t)'
<1>1. /\ pc[t] = "lock" /\ pc'[t] = "send"
      /\ UNCHANGED <<call, got, result, toDev, frames>>
  BY DEF Lock, IInv, TypeOK, dev
<1>2. Unread(t)' = Unread(t)
  BY <1>1 DEF Unread
<1>3. OwnRequest(t)' /\ Taken(t)'
  BY <1>1, <1>2 DEF StreamInv, OwnRequest, Taken, FrameOf
<1>4. \A c \in Streams[t] : StreamOf(t, c)'
  BY <1>1, ClearKept DEF StreamInv, StreamOf, Due
<1> QED BY <1>3, <1>4 DEF OwnPart

(* The request asks for every channel of the call, or is lost and ends it.  *)
LEMMA SendStreams ==
  ASSUME IInv, StreamInv, NEW t \in Thread, FpgaSend(t)
  PROVE  OwnPart(t)'
<1>0. TypeOK /\ call[t] \in Message /\ call[t].op \in Ops
  BY DEF IInv, TypeOK, Message
<1>1. /\ pc[t] = "send" /\ pc'[t] \in {"idle", "recv", "fetch", "unlock"}
      /\ UNCHANGED <<call, got, frames>>
      /\ result'[t] \in {result[t], "failed"} \/ (result'[t] = "ok" /\ call[t].chans = {})
      /\ toDev' = toDev \/ toDev' = Append(toDev, call[t])
      /\ toDev' # toDev /\ call[t].op \in StreamOps /\ call[t].chans # {} =>
           pc'[t] \in {"fetch", "unlock"}
  BY DEF FpgaSend, AfterSend, Goto, Return, Request, IInv, TypeOK, Commands, StreamOps
<1>2. Unread(t)' = Unread(t) /\ (call[t].chans = {} => Unread(t) = {})
  BY <1>1 DEF Unread
<1>3. OwnRequest(t)' /\ Taken(t)'
  BY <1>1, <1>2 DEF StreamInv, OwnRequest, Taken, FrameOf
<1>4. ASSUME NEW c \in Streams[t] PROVE StreamOf(t, c)'
  <2>1. c \in Channel /\ Clear(c)
    BY <1>1, ConstantsAssumption DEF StreamInv, StreamOf, Due
  <2>2. CASE toDev' = toDev
    BY <1>1, <2>1, <2>2, ClearKept
  <2>3. CASE toDev' = Append(toDev, call[t]) /\ toDev' # toDev
    <3>1. CASE c \notin call[t].chans
      BY <1>0, <1>1, <2>1, <2>3, <3>1, KeptChannel DEF StreamOf
    <3>2. CASE c \in call[t].chans
      <4>1. call[t].op \in StreamOps
        BY <1>0, <3>2 DEF StreamInv, OwnRequest, Ops, Commands, StreamOps
      <4>2. PICK m \in Message : m = call[t]
        BY <1>0
      <4>3. Coming(c, m.val)'
        BY <1>0, <1>1, <2>1, <2>3, <3>2, <4>1, <4>2, AskedChannel
      <4>4. Due(t, c)'
        BY <1>1, <1>2, <2>3, <3>2, <4>1 DEF StreamInv, Taken, Due
      <4>5. Coming(c, call[t].val)'
        BY <1>1, <4>2, <4>3 DEF Coming, AskedAt
      <4> QED BY <4>4, <4>5 DEF StreamOf
    <3> QED BY <3>1, <3>2
  <2> QED BY <1>1, <2>2, <2>3
<1> QED BY <1>3, <1>4 DEF OwnPart

(* An exchange on channel 0 leaves the streams alone.                      *)
LEMMA RecvStreams ==
  ASSUME IInv, StreamInv, NoneLate, NEW t \in Thread, FpgaRecv(t)
  PROVE  OwnPart(t)'
<1>1. /\ pc[t] = "recv" /\ pc'[t] = "unlock"
      /\ UNCHANGED <<call, got, result, toDev, frames>>
  BY DEF FpgaRecv, Goto, IInv, TypeOK, NoneLate
<1>2. Unread(t)' = Unread(t)
  BY <1>1 DEF Unread
<1>3. OwnRequest(t)' /\ Taken(t)'
  BY <1>1, <1>2 DEF StreamInv, OwnRequest, Taken, FrameOf
<1>4. \A c \in Streams[t] : StreamOf(t, c)'
  BY <1>1, ClearKept DEF StreamInv, StreamOf, Due
<1> QED BY <1>3, <1>4 DEF OwnPart

(* Freeing the spinlock keeps what has been asked for on its way.          *)
LEMMA UnlockStreams ==
  ASSUME IInv, StreamInv, NEW t \in Thread, Unlock(t)
  PROVE  OwnPart(t)'
<1>1. /\ pc[t] = "unlock" /\ UNCHANGED <<call, got, toDev, frames>>
      /\ \/ call[t].op \in Commands /\ pc'[t] = "idle"
         \/ call[t].op \notin Commands /\ pc'[t] = "fetch" /\ result' = result
  BY DEF Unlock, Goto, Return, IInv, TypeOK, dev
<1>2. Unread(t)' = Unread(t)
  BY <1>1 DEF Unread
<1>3. call[t].op \in Commands => Unread(t) = {}
  BY DEF StreamInv, OwnRequest, Unread
<1>4. OwnRequest(t)' /\ Taken(t)'
  BY <1>1, <1>2, <1>3 DEF StreamInv, OwnRequest, Taken, FrameOf
<1>5. ASSUME NEW c \in Streams[t] PROVE StreamOf(t, c)'
  <2>1. Due(t, c) => Due(t, c)'
    BY <1>1, <1>2, <1>3 DEF Due
  <2>2. StreamOf(t, c)
    BY DEF StreamInv
  <2> QED BY <1>1, <2>1, <2>2, ExpectedKept
<1> QED BY <1>4, <1>5 DEF OwnPart

(* fpga_recv on a stream takes the frame that the call itself asked for.   *)
LEMMA FetchStreams ==
  ASSUME IInv, StreamInv, NoneLate, NEW t \in Thread, Fetch(t)
  PROVE  /\ OwnPart(t)'
         /\ \A c \in Channel : c # NextChannel(t) => frames'[c] = frames[c]
<1>0. TypeOK /\ Control /\ pc[t] = "fetch"
  BY DEF IInv, Fetch
<1>1. PICK n \in Channel : n = NextChannel(t)
  BY <1>0, ReadingChannel
<1>2. /\ call[t].op \in StreamOps /\ n \in Unread(t) /\ MetaOf(t) \in Channel
      /\ n \in call[t].chans /\ n \in Streams[t]
  BY <1>0, <1>1, ReadingChannel DEF Unread, StreamInv, OwnRequest
<1>3. /\ frames[n] # <<>> /\ frames' = [frames EXCEPT ![n] = Tail(frames[n])]
      /\ UNCHANGED <<call, toDev>>
      /\ \/ /\ call[t].op = "recv2" /\ pc'[t] = "idle" /\ result'[t] = "ok"
            /\ got' = [got EXCEPT ![t][n] = Head(frames[n])]
         \/ /\ call[t].op # "recv2" /\ pc'[t] = "copy" /\ UNCHANGED <<got, result>>
            /\ meta'[MetaOf(t)] = Head(frames[n])
  <2>1. Delivery(n) = {<<Head(frames[n]), Tail(frames[n])>>}
    BY DEF Delivery, NoneLate
  <2> QED BY <1>0, <1>1, <1>2, <2>1 DEF Fetch, Goto, Return, TypeOK, NoneLate
<1>4. /\ Come(n, call[t].val) /\ Head(frames[n]) = FrameOf(t, n) /\ Tail(frames[n]) = <<>>
  <2>1. Come(n, call[t].val)
    BY <1>2, <1>3 DEF StreamInv, StreamOf, Clear, Coming
  <2> QED BY <2>1 DEF Come, FrameOf
<1>5. Clear(n)'
  BY <1>0, <1>3, <1>4 DEF Come, Clear, NotAsked, TypeOK
<1>6. OwnRequest(t)'
  BY <1>0, <1>3 DEF StreamInv, OwnRequest
<1>7. \A c \in Channel : c # n => frames'[c] = frames[c]
  BY <1>0, <1>3 DEF TypeOK
<1>8. CASE call[t].op = "recv2"
  <2>1. /\ call[t].chans = {n} /\ got'[t][n] = FrameOf(t, n)
    BY <1>0, <1>2, <1>3, <1>4, <1>8 DEF StreamInv, OwnRequest, TypeOK
  <2>2. FrameOf(t, n) # Null
    BY <1>0, ConstantsAssumption DEF FrameOf, TypeOK, Message
  <2>3. Unread(t)' = {}
    BY <1>3, <2>1, <2>2 DEF Unread
  <2>4. Taken(t)'
    BY <1>3, <1>8, <2>1, <2>3 DEF Taken, FrameOf
  <2>5. ASSUME NEW c \in Streams[t] PROVE StreamOf(t, c)'
    <3>1. c = n \/ (c \in Channel /\ Clear(c))
      BY <2>1, ConstantsAssumption DEF StreamInv, StreamOf, Due, Unread
    <3> QED BY <1>3, <1>5, <1>7, <3>1, ClearKept DEF StreamOf
  <2> QED BY <1>1, <1>6, <1>7, <2>4, <2>5 DEF OwnPart
<1>9. CASE call[t].op # "recv2"
  <2>1. Unread(t)' = Unread(t)
    BY <1>3, <1>9 DEF Unread
  <2>2. NextChannel(t)' = NextChannel(t)
    BY <2>1 DEF NextChannel
  <2>3. MetaOf(t)' = MetaOf(t)
    BY <1>3, <2>2 DEF MetaOf
  <2>4. Taken(t)'
    BY <1>0, <1>1, <1>3, <1>4, <1>9, <2>1, <2>2, <2>3 DEF StreamInv, Taken, FrameOf
  <2>5. ASSUME NEW c \in Streams[t] PROVE StreamOf(t, c)'
    <3>1. CASE c = n
      BY <1>5, <3>1 DEF StreamOf
    <3>2. CASE c # n
      <4>1. Due(t, c) => Due(t, c)'
        BY <1>0, <1>1, <1>3, <1>9, <2>1, <2>2, <3>2 DEF Due
      <4>2. StreamOf(t, c) /\ c \in Channel
        BY ConstantsAssumption DEF StreamInv
      <4> QED BY <1>3, <1>7, <3>2, <4>1, <4>2, ExpectedKept
    <3> QED BY <3>1, <3>2
  <2> QED BY <1>1, <1>6, <1>7, <2>4, <2>5 DEF OwnPart
<1> QED BY <1>8, <1>9

(* The copied frame is the one of the request, and one less is due.        *)
LEMMA CopyStreams ==
  ASSUME IInv, StreamInv, NEW t \in Thread, Copy(t)
  PROVE  OwnPart(t)'
<1>0. TypeOK /\ Control /\ pc[t] = "copy"
  BY DEF IInv, Copy
<1>1. PICK n \in Channel : n = NextChannel(t)
  BY <1>0, ReadingChannel
<1>2. call[t].op \in StreamOps /\ n \in Unread(t) /\ n \in call[t].chans
  BY <1>0, <1>1, ReadingChannel DEF Unread
<1>3. meta[MetaOf(t)] = FrameOf(t, n) /\ FrameOf(t, n) # Null
  BY <1>0, <1>1, ConstantsAssumption DEF StreamInv, Taken, FrameOf, TypeOK, Message
<1>4. /\ got' = [got EXCEPT ![t][n] = FrameOf(t, n)]
      /\ UNCHANGED <<call, toDev, frames>>
      /\ \/ Unread(t) = {n} /\ pc'[t] = "idle"
         \/ Unread(t) # {n} /\ pc'[t] = "fetch" /\ result' = result
  BY <1>0, <1>1, <1>3 DEF Copy, Goto, Return, TypeOK, dev
<1>5. Unread(t)' = Unread(t) \ {n}
  BY <1>0, <1>3, <1>4 DEF Unread, TypeOK, Message
<1>6. OwnRequest(t)'
  BY <1>0, <1>4 DEF StreamInv, OwnRequest
<1>7. Taken(t)'
  <2>1. \A c \in call[t].chans : got'[t][c] \in {Null, FrameOf(t, c)}
    BY <1>0, <1>1, <1>2, <1>4 DEF StreamInv, Taken, TypeOK, Message
  <2>2. result[t] # "ok"
    BY <1>2 DEF StreamInv, Taken
  <2> QED BY <1>4, <1>5, <2>1, <2>2 DEF Taken, FrameOf
<1>8. ASSUME NEW c \in Streams[t] PROVE StreamOf(t, c)'
  <2>1. StreamOf(t, c)
    BY DEF StreamInv
  <2>2. CASE c = n
    <3>1. Clear(c)
      BY <1>0, <1>1, <2>1, <2>2 DEF StreamOf, Due
    <3> QED BY <1>4, <3>1, ClearKept
  <2>3. CASE c # n
    <3>1. Due(t, c) => Due(t, c)'
      BY <1>0, <1>4, <1>5, <2>3 DEF Due
    <3> QED BY <1>4, <2>1, <3>1, ExpectedKept
  <2> QED BY <2>2, <2>3
<1> QED BY <1>6, <1>7, <1>8 DEF OwnPart

(* The steps of the threads take no frame of another one's channels.       *)
LEMMA StreamStep ==
  ASSUME OwnStreams, NoneLate
  PROVE  IInv /\ StreamInv /\ [Next]_vars => StreamInv'
<1> SUFFICES ASSUME IInv, StreamInv, [Next]_vars PROVE StreamInv'
  OBVIOUS
<1>0. TypeOK /\ Control
  BY DEF IInv
<1>1. ASSUME NEW t \in Thread, OwnPart(t)',
             \A u \in Thread : u # t =>
               /\ pc'[u] = pc[u] /\ call'[u] = call[u] /\ got'[u] = got[u] /\ result'[u] = result[u]
               /\ \A c \in Streams[u] : frames'[c] = frames[c]
               /\ pc[u] = "copy" => meta'[MetaOf(u)] = meta[MetaOf(u)],
             toDev' = toDev \/ toDev' = Append(toDev, call[t])
      PROVE  StreamInv'
  BY <1>0, <1>1, OthersKept DEF StreamInv, OwnPart
<1>2. ASSUME NEW t \in Thread, Call(t) PROVE StreamInv'
  <2>1. PICK op \in Ops, r \in RfId, g \in Reg, v \in Value, chans \in SUBSET Channel,
             next \in {"idle", "lock", "send"} :
          Enter(t, op, r, g, v, chans, next)
    BY <1>2, CallEnters
  <2>2. /\ UNCHANGED <<toDev, frames, meta>>
        /\ \A u \in Thread : u # t =>
             pc'[u] = pc[u] /\ call'[u] = call[u] /\ got'[u] = got[u] /\ result'[u] = result[u]
    BY <1>0, <2>1 DEF Enter, TypeOK, dev
  <2> QED BY <1>1, <1>2, <2>2, CallStreams
<1>3. ASSUME NEW t \in Thread, Lock(t) PROVE StreamInv'
  <2>1. /\ UNCHANGED <<toDev, frames, meta, call, got, result>>
        /\ \A u \in Thread : u # t => pc'[u] = pc[u]
    BY <1>0, <1>3 DEF Lock, TypeOK, dev
  <2> QED BY <1>1, <1>3, <2>1, LockStreams
<1>4. ASSUME NEW t \in Thread, FpgaSend(t) PROVE StreamInv'
  <2>1. /\ UNCHANGED <<frames, meta, call, got>>
        /\ toDev' = toDev \/ toDev' = Append(toDev, call[t])
        /\ \A u \in Thread : u # t => pc'[u] = pc[u] /\ result'[u] = result[u]
    BY <1>0, <1>4 DEF FpgaSend, AfterSend, Request, Goto, Return, TypeOK
  <2> QED BY <1>1, <1>4, <2>1, SendStreams
<1>5. ASSUME NEW t \in Thread, FpgaRecv(t) PROVE StreamInv'
  <2>1. /\ UNCHANGED <<toDev, frames, meta, call, got>>
        /\ \A u \in Thread : u # t => pc'[u] = pc[u] /\ result'[u] = result[u]
    BY <1>0, <1>5 DEF FpgaRecv, Goto, Return, TypeOK
  <2> QED BY <1>1, <1>5, <2>1, RecvStreams
<1>6. ASSUME NEW t \in Thread, Unlock(t) PROVE StreamInv'
  <2>1. /\ UNCHANGED <<toDev, frames, meta, call, got>>
        /\ \A u \in Thread : u # t => pc'[u] = pc[u] /\ result'[u] = result[u]
    BY <1>0, <1>6 DEF Unlock, Goto, Return, TypeOK, dev
  <2> QED BY <1>1, <1>6, <2>1, UnlockStreams
<1>7. ASSUME NEW t \in Thread, Fetch(t) PROVE StreamInv'
  <2>1. /\ NextChannel(t) \in Unread(t) /\ NextChannel(t) \in Channel /\ MetaOf(t) \in Channel
        /\ call[t].op \in StreamOps
    BY <1>0, <1>7, ReadingChannel DEF Fetch
  <2>2. NextChannel(t) \in Streams[t] /\ call[t].op \in Modes[t]
    BY <1>7, <2>1 DEF Fetch, StreamInv, OwnRequest, Unread
  <2>3. /\ UNCHANGED <<toDev, call>>
        /\ \A u \in Thread : u # t => pc'[u] = pc[u] /\ got'[u] = got[u] /\ result'[u] = result[u]
        /\ meta' = meta \/ \E f : meta' = [meta EXCEPT ![MetaOf(t)] = f]
    BY <1>0, <1>7 DEF Fetch, Goto, Return, TypeOK
  <2>4. ASSUME NEW u \in Thread, u # t
        PROVE  \A c \in Streams[u] : frames'[c] = frames[c]
    <3>1. \A c \in Streams[u] : c \in Channel /\ c # NextChannel(t)
      BY <2>2, <2>4, ConstantsAssumption DEF OwnStreams
    <3> QED BY <1>7, <3>1, FetchStreams
  <2>5. ASSUME NEW u \in Thread, u # t, pc[u] = "copy"
        PROVE  meta'[MetaOf(u)] = meta[MetaOf(u)]
    <3>1. /\ NextChannel(u) \in Unread(u) /\ MetaOf(u) \in Channel /\ call[u].op \in StreamOps
      BY <1>0, <2>5, ReadingChannel
    <3>2. NextChannel(u) \in Streams[u] /\ call[u].op \in Modes[u]
      BY <2>5, <3>1 DEF StreamInv, OwnRequest, Unread
    <3>3. MetaOf(u) # MetaOf(t)
      BY <2>2, <2>5, <3>2 DEF OwnStreams, MetaOf
    <3> QED BY <1>0, <2>1, <2>3, <3>1, <3>3 DEF TypeOK
  <2> QED BY <1>1, <1>7, <2>3, <2>4, <2>5, FetchStreams
<1>8. ASSUME NEW t \in Thread, Copy(t) PROVE StreamInv'
  <2>1. /\ UNCHANGED <<toDev, frames, meta, call>>
        /\ \A u \in Thread : u # t => pc'[u] = pc[u] /\ got'[u] = got[u] /\ result'[u] = result[u]
    BY <1>0, <1>8 DEF Copy, Goto, Return, TypeOK, dev
  <2> QED BY <1>1, <1>8, <2>1, CopyStreams
<1>9. CASE Device
  <2>1. UNCHANGED <<pc, call, got, result, meta>>
    BY <1>9 DEF Device, host
  <2> SUFFICES ASSUME NEW t \in Thread
               PROVE  OwnRequest(t)' /\ Taken(t)' /\ \A c \in Streams[t] : StreamOf(t, c)'
    BY DEF StreamInv
  <2>2. Unread(t)' = Unread(t)
    BY <2>1 DEF Unread
  <2>3. NextChannel(t)' = NextChannel(t)
    BY <2>2 DEF NextChannel
  <2>4. MetaOf(t)' = MetaOf(t)
    BY <2>1, <2>3 DEF MetaOf
  <2>5. OwnRequest(t)' /\ Taken(t)'
    BY <2>1, <2>2, <2>3, <2>4 DEF StreamInv, OwnRequest, Taken, FrameOf
  <2>6. ASSUME NEW c \in Streams[t] PROVE StreamOf(t, c)'
    <3>1. StreamOf(t, c) /\ c \in Channel
      BY ConstantsAssumption DEF StreamInv
    <3>2. PICK v : v = call[t].val
      OBVIOUS
    <3>3. /\ Clear(c) => Clear(c)'
          /\ Coming(c, v) => Coming(c, v)' \/ Come(c, v)'
          /\ Come(c, v) => Come(c, v)'
      BY <1>0, <1>9, <3>1, ServedChannel
    <3>4. call'[t].val = v
      BY <2>1, <3>2
    <3>5. Coming(c, call[t].val)' = Coming(c, v)' /\ Come(c, call[t].val)' = Come(c, v)'
      BY <3>4 DEF Coming, Come, AskedAt
    <3>6. Due(t, c)' = Due(t, c)
      BY <2>1, <2>2, <2>3 DEF Due
    <3> QED BY <3>1, <3>2, <3>3, <3>5, <3>6 DEF StreamOf
  <2> QED BY <2>5, <2>6
<1>10. CASE UNCHANGED vars
  <2>1. UNCHANGED <<pc, call, got, result, meta, toDev, frames>>
    BY <1>10 DEF vars
  <2>2. \A t \in Thread : Unread(t)' = Unread(t)
    BY <2>1 DEF Unread
  <2>3. \A t \in Thread : NextChannel(t)' = NextChannel(t)
    BY <2>2 DEF NextChannel
  <2>4. \A t \in Thread : OwnRequest(t)' /\ Taken(t)'
    BY <2>1, <2>2, <2>3 DEF StreamInv, OwnRequest, Taken, FrameOf, MetaOf
  <2>5. ASSUME NEW t \in Thread, NEW c \in Streams[t] PROVE StreamOf(t, c)'
    <3>1. Due(t, c)' = Due(t, c) /\ StreamOf(t, c)
      BY <2>1, <2>2, <2>3 DEF Due, StreamInv
    <3> QED BY <2>1, <3>1, ExpectedKept
  <2> QED BY <2>4, <2>5 DEF StreamInv
<1> QED BY <1>2, <1>3, <1>4, <1>5, <1>6, <1>7, <1>8, <1>9, <1>10 DEF Next, Step

(* A stream call that reports success has the frame of its own request for *)
(* every channel it asked for, whatever sends fail, in a program whose     *)
(* threads share no channel and no frame buffer and on a board that does   *)
(* not keep it waiting until fpga_recv gives up.                           *)
THEOREM PcieStreamAnswered ==
  ASSUME OwnStreams, NoneLate
  PROVE  Spec => []StreamAnswered
<1>1. Init => StreamInv
  <2> SUFFICES ASSUME Init, NEW t \in Thread
               PROVE  OwnRequest(t) /\ Taken(t) /\ \A c \in Streams[t] : StreamOf(t, c)
    BY DEF StreamInv
  <2>1. pc[t] = "idle" /\ call[t].chans = {} /\ call[t].op = "get" /\ result[t] = "none"
    BY DEF Init
  <2>2. toDev = <<>> /\ \A c \in Channel : frames[c] = <<>>
    BY DEF Init
  <2>3. \A c \in Streams[t] : Clear(c)
    BY <2>2, ConstantsAssumption DEF Clear, NotAsked
  <2> QED BY <2>1, <2>3 DEF OwnRequest, Taken, StreamOf, Commands
<1>2. StreamInv => StreamAnswered
  BY DEF StreamInv, Taken, StreamAnswered, Unread, FrameOf
<1>3. IInv /\ StreamInv /\ [Next]_vars => StreamInv'
  BY StreamStep
<1> QED BY <1>1, <1>2, <1>3, SpecIInv, PTL DEF Spec
-----------------------------------------------------------------------------
(* Register commands are atomic operations: RegisterService.               *)

(* A command that is on its way or answered has a thread that waits for it.*)
Waits == Quiet \/ \E t \in Thread : pc[t] = "recv"

Phase == [t \in Thread |-> IF Applied(t) THEN "applied"
                           ELSE IF Active(t) THEN "invoked" ELSE "idle"]
Asked(t) == [op |-> call[t].op, reg |-> <<call[t].rf, call[t].reg>>, val |-> call[t].val]
Req == [t \in Thread |-> IF Active(t) THEN Asked(t) ELSE Null]
Out == [t \in Thread |->
          IF Applied(t) THEN (IF pc[t] = "unlock" THEN buf[t] ELSE Head(toHost)).val
          ELSE Null]

(* What RegisterService sees of thread t.                                  *)
View(t, p, q, o) == Phase[t] = p /\ Req[t] = q /\ Out[t] = o

(* The value of the register t's command names.                            *)
Now(t) == regs[<<call[t].rf, call[t].reg>>]

(* The view follows from where the command is; a command that has been     *)
(* applied is the one of the holder of the lock, and its answer is true.   *)
Views(t) ==
  /\ ~Active(t) => ~Applied(t) /\ View(t, "idle", Null, Null)
  /\ Active(t) /\ ~Applied(t) => View(t, "invoked", Asked(t), Null)
  /\ Applied(t) => Active(t) /\ lock = t /\ View(t, "applied", Asked(t), Now(t))

LEMMA ViewOf == ASSUME NEW t \in Thread PROVE IInv => Views(t)
<1> SUFFICES ASSUME IInv PROVE Views(t)
  OBVIOUS
<1>1. ~Active(t) => ~Applied(t)
  BY DEF Applied
<1>2. ASSUME Applied(t) PROVE lock = t
  BY <1>2 DEF Applied, Active, IInv, HolderInside, InExchange, Commands
<1>3. ASSUME Applied(t), pc[t] = "unlock" PROVE Answers(buf[t], call[t])
  BY <1>3 DEF Applied, Active, IInv, ChannelZero
<1>4. ASSUME Applied(t), pc[t] # "unlock" PROVE Answers(Head(toHost), call[t])
  BY <1>4 DEF Applied, Active, IInv, ChannelZero, Awaited, Quiet
<1> QED BY <1>1, <1>2, <1>3, <1>4 DEF Views, View, Phase, Req, Out, Answers, Now, Applied

(* The same after a step.                                                  *)
LEMMA ViewOfNext == ASSUME NEW t \in Thread PROVE IInv' => Views(t)'
<1>1. IInv => Views(t)
  BY ViewOf
<1> QED BY <1>1, PTL

(* What a step leaves as it was for the other threads.                     *)
Same(u) == Phase'[u] = Phase[u] /\ Req'[u] = Req[u] /\ Out'[u] = Out[u]

(* Another thread's step changes nothing for u: what u waits for on        *)
(* channel 0 is u's own.                                                   *)
LEMMA OthersSame ==
  ASSUME NEW u \in Thread, pc'[u] = pc[u], call'[u] = call[u], buf'[u] = buf[u],
         Active(u) /\ pc[u] = "recv" => toHost' = toHost
  PROVE  Same(u)
<1>1. Active(u)' = Active(u) /\ Asked(u)' = Asked(u)
  BY DEF Active, Asked
<1>2. Applied(u)' = Applied(u)
  BY <1>1 DEF Applied
<1> QED BY <1>1, <1>2 DEF Same, Phase, Req, Out, Applied

(* A step of one thread as a step of the abstract state.                   *)
LEMMA OneMoves ==
  ASSUME NEW t \in Thread, \A u \in Thread : u # t => Same(u),
         NEW p2, NEW q2, NEW o2, View(t, p2, q2, o2)'
  PROVE  /\ Phase' = [Phase EXCEPT ![t] = p2]
         /\ Req' = [Req EXCEPT ![t] = q2]
         /\ Out' = [Out EXCEPT ![t] = o2]
         /\ View(t, p2, q2, o2) => Phase' = Phase /\ Req' = Req /\ Out' = Out
         /\ Req[t] = q2 => Req' = Req
         /\ Out[t] = o2 => Out' = Out
<1>1. \A u \in Thread : u # t => Phase'[u] = Phase[u] /\ Req'[u] = Req[u] /\ Out'[u] = Out[u]
  BY DEF Same
<1>2. Phase'[t] = p2 /\ Req'[t] = q2 /\ Out'[t] = o2
  BY DEF View
<1>3. Phase' = [Phase EXCEPT ![t] = p2]
  BY <1>1, <1>2 DEF Phase
<1>4. Req' = [Req EXCEPT ![t] = q2] /\ (Req[t] = q2 => Req' = Req)
  BY <1>1, <1>2 DEF Req
<1>5. Out' = [Out EXCEPT ![t] = o2] /\ (Out[t] = o2 => Out' = Out)
  BY <1>1, <1>2 DEF Out
<1>6. Phase[t] = p2 => Phase' = Phase
  BY <1>1, <1>2 DEF Phase
<1> QED BY <1>3, <1>4, <1>5, <1>6 DEF View

(* Every step of a thread and of the FPGA is one of RegisterService, or    *)
(* leaves what it sees as it is.                                           *)
LEMMA Refines ==
  ASSUME NoneLate, IInv, Waits, IInv', [Next]_vars
  PROVE  [Service!Next]_(Service!vars)
<1>0. /\ TypeOK /\ Control /\ HolderInside /\ ChannelZero
      /\ \A t \in Thread : call[t] \in Message /\ call[t].op \in Ops
  BY DEF IInv, TypeOK, Message
<1>v. \A t \in Thread : Views(t) /\ Views(t)'
  BY ViewOf, ViewOfNext
<1>a. ASSUME NEW t \in Thread, \A u \in Thread : u # t => Same(u), regs' = regs,
             NEW q \in Service!Request, View(t, "idle", Null, Null), View(t, "invoked", q, Null)'
      PROVE  Service!Next
  <2>1. /\ Phase' = [Phase EXCEPT ![t] = "invoked"] /\ Req' = [Req EXCEPT ![t] = q] /\ Out' = Out
    BY <1>a, OneMoves DEF View
  <2>2. Service!Invoke(t)
    BY <1>a, <2>1 DEF Service!Invoke, View, Phase, Req, Out, Asked
  <2> QED BY <2>2 DEF Service!Next
<1>b. ASSUME NEW t \in Thread, \A u \in Thread : u # t => Same(u), regs' = regs,
             NEW p \in {"invoked", "applied"}, NEW q, NEW o, View(t, p, q, o),
             View(t, "idle", Null, Null)'
      PROVE  Service!Next
  <2>1. /\ Phase' = [Phase EXCEPT ![t] = "idle"] /\ Req' = [Req EXCEPT ![t] = Null]
        /\ Out' = [Out EXCEPT ![t] = Null]
    BY <1>b, OneMoves
  <2>2. Service!Return(t) \/ Service!Fail(t)
    BY <1>b, <2>1 DEF Service!Return, Service!Fail, Service!End, View, Phase, Req, Out, Asked
  <2> QED BY <2>2 DEF Service!Next
<1>c. ASSUME \A u \in Thread : Same(u), regs' = regs
      PROVE  UNCHANGED Service!vars
  <2>1. Phase' = Phase /\ Req' = Req /\ Out' = Out
    BY <1>c DEF Same, Phase, Req, Out
  <2> QED BY <1>c, <2>1 DEF Service!vars, Phase, Req, Out, Asked
<1>1. ASSUME NEW t \in Thread, Call(t) PROVE [Service!Next]_(Service!vars)
  <2>1. PICK op \in Ops, r \in RfId, g \in Reg, v \in Value, chans \in SUBSET Channel,
             next \in {"idle", "lock", "send"} :
           /\ Enter(t, op, r, g, v, chans, next)
           /\ op \in Commands => next \in {"idle", "lock"}
    BY <1>1, CallEnters
  <2>2. /\ pc[t] = "idle" /\ pc'[t] = next /\ UNCHANGED <<buf, toHost, regs>>
        /\ call'[t] = [op |-> op, rf |-> r, reg |-> g, val |-> v, chans |-> chans]
        /\ \A u \in Thread : u # t => pc'[u] = pc[u] /\ call'[u] = call[u]
    BY <1>0, <2>1 DEF Enter, TypeOK, dev
  <2>3. \A u \in Thread : u # t => Same(u)
    BY <2>2, OthersSame
  <2>4. View(t, "idle", Null, Null)
    BY <1>v, <2>2 DEF Views, Active
  <2>5. CASE op \in Commands /\ next = "lock"
    <3>1. Active(t)' /\ ~Applied(t)'
      BY <2>2, <2>5 DEF Active, Applied
    <3>2. PICK q : q = Asked(t)'
      OBVIOUS
    <3>3. q \in Service!Request
      BY <2>2, <2>5, <3>2 DEF Asked, Service!Request, Commands
    <3>4. View(t, "invoked", q, Null)'
      BY <1>v, <3>1, <3>2 DEF Views, View
    <3> QED BY <1>a, <2>2, <2>3, <2>4, <3>3, <3>4
  <2>6. CASE op \notin Commands \/ next = "idle"
    <3>1. ~Active(t)'
      BY <2>2, <2>6 DEF Active
    <3>2. View(t, "idle", Null, Null)'
      BY <1>v, <3>1 DEF Views
    <3>3. Same(t)
      BY <2>4, <3>2 DEF Same, View
    <3> QED BY <1>c, <2>2, <2>3, <3>3
  <2> QED BY <2>1, <2>5, <2>6 DEF Commands
<1>2. ASSUME NEW t \in Thread, Lock(t) PROVE UNCHANGED Service!vars
  <2>1. /\ pc[t] = "lock" /\ pc'[t] = "send" /\ UNCHANGED <<call, buf, toHost, regs>>
        /\ \A u \in Thread : u # t => pc'[u] = pc[u]
    BY <1>0, <1>2 DEF Lock, TypeOK, dev
  <2>2. Active(t)' = Active(t) /\ ~Applied(t) /\ ~Applied(t)' /\ Asked(t)' = Asked(t)
    BY <2>1 DEF Active, Applied, Asked
  <2>3. Same(t)
    BY <2>2 DEF Same, Phase, Req, Out
  <2> QED BY <1>c, <2>1, <2>3, OthersSame
<1>3. ASSUME NEW t \in Thread, FpgaSend(t) PROVE [Service!Next]_(Service!vars)
  <2>1. /\ pc[t] = "send" /\ UNCHANGED <<call, buf, toHost, regs>>
        /\ \A u \in Thread : u # t => pc'[u] = pc[u]
        /\ pc'[t] \in {"idle", "recv", "fetch", "unlock"}
        /\ call[t].op \in Commands => pc'[t] \in {"idle", "recv"}
    BY <1>0, <1>3 DEF FpgaSend, AfterSend, Goto, Return, TypeOK
  <2>2. \A u \in Thread : u # t => Same(u)
    BY <2>1, OthersSame
  <2>3. ~Applied(t) /\ Asked(t)' = Asked(t)
    BY <2>1 DEF Applied, Asked
  <2>4. CASE call[t].op \in Commands /\ pc'[t] = "recv"
    <3>1. toHost = <<>>
      BY <1>0, <2>1, <2>4 DEF ChannelZero, InExchange, Commands, Quiet
    <3>2. ~Applied(t)' /\ Active(t)' = Active(t)
      BY <2>1, <2>4, <3>1 DEF Applied, Active
    <3>3. Same(t)
      BY <2>3, <3>2 DEF Same, Phase, Req, Out
    <3> QED BY <1>c, <2>1, <2>2, <3>3
  <2>5. CASE call[t].op \in Commands /\ pc'[t] = "idle"
    <3>1. Active(t) /\ ~Active(t)'
      BY <2>1, <2>5 DEF Active
    <3>2. View(t, "invoked", Asked(t), Null) /\ View(t, "idle", Null, Null)'
      BY <1>v, <2>3, <3>1 DEF Views
    <3> QED BY <1>b, <2>1, <2>2, <3>2
  <2>6. CASE call[t].op \notin Commands
    <3>1. ~Active(t) /\ ~Active(t)'
      BY <2>1, <2>6 DEF Active
    <3>2. Same(t)
      BY <1>v, <3>1 DEF Views, View, Same
    <3> QED BY <1>c, <2>1, <2>2, <3>2
  <2> QED BY <2>1, <2>4, <2>5, <2>6
<1>4. ASSUME NEW t \in Thread, FpgaRecv(t) PROVE UNCHANGED Service!vars
  <2>1. /\ pc[t] = "recv" /\ pc'[t] = "unlock" /\ toHost # <<>> /\ UNCHANGED <<call, regs>>
        /\ \A u \in Thread : u # t => pc'[u] = pc[u] /\ buf'[u] = buf[u]
    BY <1>0, <1>4 DEF FpgaRecv, Goto, NoneLate, TypeOK
  <2>2. call[t].op \in Commands
    BY <1>0, <2>1 DEF Control, Ops, Commands
  <2>3. Active(t) /\ Applied(t) /\ Active(t)' /\ Applied(t)'
    BY <2>1, <2>2 DEF Active, Applied
  <2>4. \A u \in Thread : u # t => ~(Active(u) /\ pc[u] = "recv")
    BY <1>0, <2>1, <2>2 DEF Active, HolderInside, InExchange, Commands
  <2>5. \A u \in Thread : u # t => Same(u)
    BY <2>1, <2>4, OthersSame
  <2>6. Asked(t)' = Asked(t) /\ Now(t)' = Now(t)
    BY <2>1 DEF Asked, Now
  <2>7. Same(t)
    BY <1>v, <2>3, <2>6 DEF Views, View, Same
  <2> QED BY <1>c, <2>1, <2>5, <2>7
<1>5. ASSUME NEW t \in Thread, Unlock(t) PROVE [Service!Next]_(Service!vars)
  <2>1. /\ pc[t] = "unlock" /\ UNCHANGED <<call, buf, toHost, regs>>
        /\ pc'[t] \in {"idle", "fetch"}
        /\ call[t].op \in Commands => pc'[t] = "idle"
        /\ \A u \in Thread : u # t => pc'[u] = pc[u]
    BY <1>0, <1>5 DEF Unlock, Goto, Return, TypeOK, dev
  <2>2. \A u \in Thread : u # t => Same(u)
    BY <2>1, OthersSame
  <2>3. CASE call[t].op \in Commands
    <3>1. Applied(t) /\ ~Active(t)'
      BY <2>1, <2>3 DEF Applied, Active
    <3>2. PICK o : View(t, "applied", Asked(t), o)
      BY <1>v, <3>1 DEF Views
    <3>3. View(t, "idle", Null, Null)'
      BY <1>v, <3>1 DEF Views
    <3> QED BY <1>b, <2>1, <2>2, <3>2, <3>3
  <2>4. CASE call[t].op \notin Commands
    <3>1. ~Active(t) /\ ~Active(t)'
      BY <2>1, <2>4 DEF Active
    <3>2. Same(t)
      BY <1>v, <3>1 DEF Views, View, Same
    <3> QED BY <1>c, <2>1, <2>2, <3>2
  <2> QED BY <2>3, <2>4
<1>6. ASSUME NEW t \in Thread, Fetch(t) \/ Copy(t) PROVE UNCHANGED Service!vars
  <2>1. /\ pc[t] \in {"fetch", "copy"} /\ UNCHANGED <<call, buf, toHost, regs>>
        /\ \A u \in Thread : u # t => pc'[u] = pc[u]
    BY <1>0, <1>6 DEF Fetch, Copy, Goto, Return, TypeOK, dev
  <2>2. call[t].op \notin Commands
    BY <1>0, <2>1, ReadingChannel DEF StreamOps, Commands
  <2>3. ~Active(t) /\ ~Active(t)'
    BY <2>1, <2>2 DEF Active
  <2>4. Same(t)
    BY <1>v, <2>3 DEF Views, View, Same
  <2> QED BY <1>c, <2>1, <2>4, OthersSame
<1>7. CASE Device
  <2>0. PICK m \in Message :
          /\ toDev # <<>> /\ toDev' = Tail(toDev) /\ m = Head(toDev)
          /\ UNCHANGED <<lock, pc, call, buf>>
    BY <1>0, <1>7 DEF Device, host, TypeOK
  <2>1. CASE m.op \notin Commands
    <3>1. UNCHANGED <<toHost, regs>>
      BY <1>7, <2>0, <2>1 DEF Device, Commands
    <3> QED BY <1>c, <2>0, <3>1, OthersSame
  <2>2. CASE m.op \in Commands
    <3>1. ~Quiet
      BY <1>0, <2>0, <2>2, TakeRequest DEF Quiet, TypeOK
    <3>2. PICK t \in Thread : pc[t] = "recv"
      BY <3>1 DEF Waits
    <3>3. call[t].op \in Commands /\ InExchange(t)
      BY <1>0, <3>2 DEF Control, Ops, Commands, InExchange
    <3>4. toHost = <<>> /\ OneCommand(toDev, call[t])
      <4>1. ~NoCommand(toDev)
        BY <1>0, <2>0, <2>2, TakeRequest DEF TypeOK
      <4> QED BY <1>0, <3>1, <3>2, <4>1 DEF ChannelZero, Awaited
    <3>5. m = call[t]
      BY <1>0, <2>0, <2>2, <3>3, <3>4, TakeOne DEF TypeOK
    <3>6. toHost' # <<>>
      BY <1>0, <1>7, <2>0, <2>2, <3>4 DEF Device, Commands, StreamOps
    <3>7. regs' = IF call[t].op = "set"
                  THEN [regs EXCEPT ![<<call[t].rf, call[t].reg>>] = call[t].val] ELSE regs
      BY <1>7, <2>0, <2>2, <3>5 DEF Device, Commands, StreamOps
    <3>8. Active(t) /\ ~Applied(t) /\ Active(t)' /\ Applied(t)'
      BY <2>0, <3>2, <3>3, <3>4, <3>6 DEF Active, Applied
    <3>9. \A u \in Thread : u # t => ~(Active(u) /\ pc[u] = "recv")
      BY <1>0, <3>3 DEF Active, HolderInside, InExchange, Commands
    <3>10. \A u \in Thread : u # t => Same(u)
      BY <2>0, <3>9, OthersSame
    <3>11. PICK q, o : q = Asked(t) /\ o = Now(t)'
      OBVIOUS
    <3>12. View(t, "invoked", q, Null) /\ View(t, "applied", q, o)'
      BY <1>v, <2>0, <3>8, <3>11 DEF Views, View, Asked
    <3>13. /\ Phase' = [Phase EXCEPT ![t] = "applied"] /\ Req' = Req
           /\ Out' = [Out EXCEPT ![t] = o]
      BY <3>10, <3>12, OneMoves DEF View
    <3>14. o = regs'[q.reg] /\ q.op = call[t].op /\ q.val = call[t].val
           /\ q.reg = <<call[t].rf, call[t].reg>>
      BY <2>0, <3>11 DEF Asked, Now
    <3>15. Service!Apply(t)
      BY <3>7, <3>12, <3>13, <3>14 DEF Service!Apply, View, Phase, Req, Out, Asked
    <3> QED BY <3>15 DEF Service!Next
  <2> QED BY <2>1, <2>2
<1>8. CASE UNCHANGED vars
  <2>1. UNCHANGED <<pc, call, buf, toHost, regs>>
    BY <1>8 DEF vars
  <2> QED BY <1>c, <2>1, OthersSame
<1> QED BY <1>1, <1>2, <1>3, <1>4, <1>5, <1>6, <1>7, <1>8 DEF Next, Step

(* A command is never left to the FPGA by a thread that has given up.      *)
LEMMA WaitsStep == NoneLate /\ IInv /\ Waits /\ [Next]_vars => Waits'
<1> SUFFICES ASSUME NoneLate, IInv, Waits, [Next]_vars PROVE Waits'
  OBVIOUS
<1>0. /\ TypeOK /\ Control /\ ChannelZero
      /\ \A t \in Thread : call[t] \in Message /\ call[t].op \in Ops
  BY DEF IInv, TypeOK, Message
<1>1. ASSUME UNCHANGED <<toDev, toHost>>, \A t \in Thread : pc[t] = "recv" => pc'[t] = "recv"
      PROVE  Waits'
  BY <1>1 DEF Waits, Quiet, NoCommand
<1>2. ASSUME NEW t \in Thread, Call(t) PROVE Waits'
  <2>1. PICK op \in Ops, r \in RfId, g \in Reg, v \in Value, chans \in SUBSET Channel,
             next \in {"idle", "lock", "send"} : Enter(t, op, r, g, v, chans, next)
    BY <1>2, CallEnters
  <2> QED BY <1>0, <1>1, <2>1 DEF Enter, TypeOK, dev
<1>3. ASSUME NEW t \in Thread, Lock(t) \/ Unlock(t) \/ Fetch(t) \/ Copy(t) PROVE Waits'
  BY <1>0, <1>1, <1>3 DEF Lock, Unlock, Fetch, Copy, Goto, Return, TypeOK, dev
<1>4. ASSUME NEW t \in Thread, FpgaSend(t) PROVE Waits'
  <2>1. /\ pc[t] = "send" /\ toHost' = toHost
        /\ \A u \in Thread : u # t => pc'[u] = pc[u]
        /\ toDev' = toDev \/ toDev' = Append(toDev, call[t])
        /\ call[t].op \in Commands => toDev' = toDev \/ pc'[t] = "recv"
    BY <1>0, <1>4 DEF FpgaSend, AfterSend, Request, Goto, Return, TypeOK, Commands
  <2>2. CASE toDev' = toDev
    BY <1>1, <2>1, <2>2
  <2>3. CASE call[t].op \in Commands /\ pc'[t] = "recv"
    BY <2>3 DEF Waits
  <2>4. CASE call[t].op \notin Commands
    <3>1. Quiet => Quiet'
      BY <1>0, <2>1, <2>4, AppendRequest DEF Quiet, TypeOK
    <3> QED BY <2>1, <3>1 DEF Waits
  <2> QED BY <2>1, <2>2, <2>3, <2>4
<1>5. ASSUME NEW t \in Thread, FpgaRecv(t) PROVE Waits'
  <2>1. pc[t] = "recv" /\ toHost # <<>> /\ toHost' = Tail(toHost) /\ toDev' = toDev
    BY <1>5 DEF FpgaRecv, NoneLate
  <2>2. Quiet'
    BY <1>0, <2>1 DEF ChannelZero, Awaited, Quiet, NoCommand
  <2> QED BY <2>2 DEF Waits
<1>6. CASE Device
  <2>1. pc' = pc
    BY <1>6 DEF Device, host
  <2>2. Quiet => Quiet'
    <3>1. Quiet => Head(toDev).op \notin Commands /\ NoCommand(Tail(toDev))
      BY <1>0, <1>6, TakeRequest DEF Quiet, Device, TypeOK
    <3> QED BY <1>6, <3>1 DEF Device, Quiet, Commands
  <2> QED BY <2>1, <2>2 DEF Waits
<1>7. CASE UNCHANGED vars
  BY <1>1, <1>7 DEF vars
<1> QED BY <1>2, <1>3, <1>4, <1>5, <1>6, <1>7 DEF Next, Step

(* get and set are atomic operations on the registers for any threads that *)
(* share a device, as long as fpga_recv does not fail; fpga_send may.      *)
THEOREM PcieImplementsService == NoneLate => (Spec => ServiceSpec)
<1> SUFFICES ASSUME NoneLate PROVE Spec => ServiceSpec
  OBVIOUS
<1>1. Init => Service!Init
  <2> SUFFICES ASSUME Init PROVE Service!Init
    OBVIOUS
  <2>1. \A t \in Thread : ~Active(t) /\ ~Applied(t)
    BY DEF Init, Active, Applied
  <2>2. PICK v \in Value : regs = [x \in RfId \X Reg |-> v]
    BY DEF Init
  <2> QED BY <2>1, <2>2 DEF Service!Init
<1>2. Init => Waits
  BY DEF Init, Waits, Quiet, NoCommand
<1>3. IInv /\ Waits /\ [Next]_vars => Waits'
  BY WaitsStep
<1>4. (IInv /\ Waits) /\ IInv' /\ [Next]_vars => [Service!Next]_(Service!vars)
  BY Refines
<1> QED BY <1>1, <1>2, <1>3, <1>4, SpecIInv, PTL DEF Spec, ServiceSpec, Service!Spec
=============================================================================
