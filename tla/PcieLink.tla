------------------------------ MODULE PcieLink ------------------------------
(***************************************************************************)
(* The PCIe transport of libyunsdr_ss: application threads that share one  *)
(* open device, the process-wide spinlock, the RIFFA channels and the FPGA *)
(* behind them (interface_pcie.c, spinlock.c).                             *)
(*                                                                         *)
(* Channel 0 carries register commands, their replies, and the read        *)
(* requests of the receive streams; channel c > 0 carries the frames those *)
(* requests ask for.  A call is a sequence of steps, one per RIFFA call or *)
(* lock operation, so that threads interleave wherever the code lets them. *)
(***************************************************************************)
EXTENDS Integers, Sequences

CONSTANTS
  Thread,        \* application threads
  RfId,          \* RF chip numbers a caller may pass
  Reg,           \* register numbers (cmd_id)
  Value,         \* register values, and requested receive times
  Streams,       \* Streams[t]: the stream channels thread t reads
  Modes,         \* Modes[t]: the operations thread t uses, a subset of Ops
  NumOfChannel,  \* handle->num_of_channel: channels of the FPGA, 0 included
  Faults,        \* the outcomes of RIFFA calls that may occur besides success
  MaxQueue,      \* bound: messages left in a channel when a call starts
  Cut,           \* a frame of which only a part has arrived
  Null           \* "no thread", "no frame"

Channel == 1 .. 4
Ops == {"set", "get", "recv", "recv2", "recv3"}
FaultKinds == {"send_neg", "send_zero", "recv_neg", "recv_zero", "recv_short"}

ASSUME ConstantsAssumption ==
  /\ RfId \subseteq Nat /\ RfId # {}
  /\ Reg # {}
  /\ Streams \in [Thread -> SUBSET Channel]
  /\ Modes \in [Thread -> SUBSET Ops]
  /\ NumOfChannel \in Nat
  /\ Faults \subseteq FaultKinds
  /\ MaxQueue \in Nat
  /\ Null \notin Thread
  /\ Null \notin [ch : Channel, time : Value] \cup {Cut}

VARIABLES
  lock,    \* m_spinlock: its holder, or Null
  pc,      \* pc[t]: the next step of t's call
  call,    \* call[t]: arguments of t's current or last call
  buf,     \* buf[t]: the last reply t received on channel 0
  got,     \* got[t][c]: the frame t copied out for channel c
  result,  \* result[t]: what t's last call returned
  meta,    \* meta[c]: trans->rx_meta[c - 1]
  toDev,   \* channel 0, host to FPGA
  toHost,  \* channel 0, FPGA to host
  frames,  \* frames[c]: channel c, FPGA to host
  regs     \* the registers of the device

vars == <<lock, pc, call, buf, got, result, meta, toDev, toHost, frames, regs>>

host == <<lock, pc, call, buf, got, result, meta>>
dev  == <<toDev, toHost, frames, regs>>

Message == [op : Ops, rf : RfId, reg : Reg, val : Value, chans : SUBSET Channel]
Reply   == [rf : RfId, reg : Reg, val : Value]
Frame   == [ch : Channel, time : Value] \cup {Cut}
Commands == {"set", "get"}
StreamOps == {"recv", "recv2", "recv3"}

(* The channels of a stream call that t has not yet read, lowest first.    *)
Unread(t) == {c \in call[t].chans : got[t][c] = Null}
NextChannel(t) == CHOOSE c \in Unread(t) : \A d \in Unread(t) : c <= d

(* Mutant: every stream call shares one buffer.                            *)
MetaOfShared(t) == 1

(* recv reads into the buffer of its channel, recv3 always into the first. *)
MetaOf(t) == IF call[t].op = "recv3" THEN 1 ELSE NextChannel(t)

NoFrames == [c \in Channel |-> Null]

Init ==
  /\ lock = Null
  /\ pc = [t \in Thread |-> "idle"]
  /\ \E r \in RfId, g \in Reg, v \in Value :
       /\ call = [t \in Thread |-> [op |-> "get", rf |-> r, reg |-> g,
                                    val |-> v, chans |-> {}]]
       /\ buf = [t \in Thread |-> [rf |-> r, reg |-> g, val |-> v]]
       /\ regs = [x \in RfId \X Reg |-> v]
  /\ got = [t \in Thread |-> NoFrames]
  /\ result = [t \in Thread |-> "none"]
  /\ meta = NoFrames
  /\ toDev = <<>>
  /\ toHost = <<>>
  /\ frames = [c \in Channel |-> <<>>]

-----------------------------------------------------------------------------
(* The entry of a call, up to the first lock or RIFFA call.                *)

Room(chans) == Len(toDev) < MaxQueue /\ \A c \in chans : Len(frames[c]) < MaxQueue

Enter(t, op, r, g, v, chans, next) ==
  /\ op \in Modes[t]
  /\ pc[t] = "idle"
  /\ Room(chans)
  /\ call' = [call EXCEPT ![t] = [op |-> op, rf |-> r, reg |-> g,
                                  val |-> v, chans |-> chans]]
  /\ got' = [got EXCEPT ![t] = NoFrames]
  /\ pc' = [pc EXCEPT ![t] = next]
  /\ result' = [result EXCEPT ![t] = IF next = "idle" THEN "EINVAL" ELSE "none"]
  /\ UNCHANGED <<lock, buf, meta, dev>>

(* A board with one RF chip has at most three channels.                    *)
ValidRf(r) == ~(NumOfChannel <= 3 /\ r > 0)

CmdSend(t, r, g, v) ==
  Enter(t, "set", r, g, v, {}, IF ValidRf(r) THEN "lock" ELSE "idle")

(* The chip check of this function can never be true: cmd_id <= 28 and     *)
(* cmd_id >= 34 exclude each other.                                        *)
CmdSendThenRecv(t, r, g, v) == Enter(t, "get", r, g, v, {}, "lock")

(* Read requests carry no chip and no register.                            *)
NoRf == CHOOSE r \in RfId : TRUE
NoReg == CHOOSE g \in Reg : TRUE

(* Mutant: the channel is not checked.                                     *)
StreamRecvUnchecked(t, c, v) ==
  \E op \in {"recv", "recv2"} :
    Enter(t, op, NoRf, NoReg, v, {c}, "lock")

(* The copying read, and the zero-copy one into the caller's buffer.  The  *)
(* check lets channel 0 pass as well, whose buffer would be the one before *)
(* rx_meta[0]; no caller is taken to pass it, RF_RX_CHANNEL begins at 1.    *)
StreamRecv(t, c, v) ==
  \E op \in {"recv", "recv2"} :
    Enter(t, op, NoRf, NoReg, v, {c}, IF c < NumOfChannel THEN "lock" ELSE "idle")

(* The multi-port read checks no channel and takes no lock.                *)
StreamRecv3(t, chans, v) == Enter(t, "recv3", NoRf, NoReg, v, chans, "send")

Call(t) ==
  \/ \E r \in RfId, g \in Reg, v \in Value :
       CmdSend(t, r, g, v) \/ CmdSendThenRecv(t, r, g, v)
  \/ \E c \in Streams[t], v \in Value : StreamRecv(t, c, v)
  \/ \E chans \in SUBSET Streams[t], v \in Value : StreamRecv3(t, chans, v)

-----------------------------------------------------------------------------
(* The steps of a call.                                                    *)

(* Mutant: trylock whose answer is ignored.                                *)
LockTried(t) ==
  /\ pc[t] = "lock"
  /\ lock' = t
  /\ pc' = [pc EXCEPT ![t] = "send"]
  /\ UNCHANGED <<call, buf, got, result, meta, dev>>

Lock(t) ==
  /\ pc[t] = "lock"
  /\ lock = Null
  /\ lock' = t
  /\ pc' = [pc EXCEPT ![t] = "send"]
  /\ UNCHANGED <<call, buf, got, result, meta, dev>>

Goto(t, next) ==
  /\ pc' = [pc EXCEPT ![t] = next]
  /\ UNCHANGED result

Return(t, ret) ==
  /\ pc' = [pc EXCEPT ![t] = "idle"]
  /\ result' = [result EXCEPT ![t] = ret]

(* Mutant: a write does not wait for its acknowledgement.                  *)
AfterSendNoAck(t) ==
  Goto(t, IF call[t].op = "get" THEN "recv"
          ELSE IF call[t].op = "recv3" THEN "fetch" ELSE "unlock")

(* A multi-port read of no channel is over when its request is sent.       *)
AfterSend(t) ==
  IF call[t].op = "recv3" /\ call[t].chans = {} THEN Return(t, "ok")
  ELSE Goto(t, IF call[t].op \in Commands THEN "recv"
               ELSE IF call[t].op = "recv3" THEN "fetch" ELSE "unlock")

(* Mutant: a multi-port request names only the first port.                 *)
RequestFirst(t) ==
  [call[t] EXCEPT !.chans = IF @ = {} THEN {} ELSE {NextChannel(t)}]

(* What a call sends on channel 0: a YUNSDR_CMD or a YUNSDR_READ_REQ.      *)
Request(t) == call[t]

(* fpga_send on channel 0: delivered; timed out with nothing taken, which  *)
(* returns 0 and counts as sent; or failed, which returns at once, without *)
(* unlocking.                                                              *)
FpgaSend(t) ==
  /\ pc[t] = "send"
  /\ \/ /\ toDev' = Append(toDev, Request(t))
        /\ AfterSend(t)
     \/ /\ "send_zero" \in Faults
        /\ AfterSend(t)
        /\ UNCHANGED toDev
     \/ /\ "send_neg" \in Faults
        /\ Return(t, "failed")
        /\ UNCHANGED toDev
  /\ UNCHANGED <<lock, call, buf, got, meta, toHost, frames, regs>>

(* Mutant: a failed exchange unlocks before it returns.                    *)
FpgaRecvUnlocks(t) ==
  /\ pc[t] = "recv"
  /\ \/ /\ toHost # <<>>
        /\ buf' = [buf EXCEPT ![t] = Head(toHost)]
        /\ toHost' = Tail(toHost)
        /\ Goto(t, "unlock")
        /\ UNCHANGED lock
     \/ /\ Faults \cap {"recv_neg", "recv_zero"} # {}
        /\ Return(t, "failed")
        /\ lock' = Null
        /\ UNCHANGED <<buf, toHost>>
  /\ UNCHANGED <<call, got, meta, toDev, frames, regs>>

(* fpga_recv on channel 0: the next reply; or a failure, which returns     *)
(* without unlocking.  A timeout returns 0, the value that means success.  *)
FpgaRecv(t) ==
  /\ pc[t] = "recv"
  /\ \/ /\ toHost # <<>>
        /\ buf' = [buf EXCEPT ![t] = Head(toHost)]
        /\ toHost' = Tail(toHost)
        /\ Goto(t, "unlock")
     \/ /\ "recv_neg" \in Faults
        /\ Return(t, "failed")
        /\ UNCHANGED <<buf, toHost>>
     \/ /\ "recv_zero" \in Faults
        /\ Return(t, "ok")
        /\ UNCHANGED <<buf, toHost>>
  /\ UNCHANGED <<lock, call, got, meta, toDev, frames, regs>>

(* Mutant: only the write path unlocks.                                    *)
UnlockWrites(t) ==
  /\ pc[t] = "unlock"
  /\ lock' = IF call[t].op = "set" THEN Null ELSE lock
  /\ IF call[t].op \in Commands THEN Return(t, "ok") ELSE Goto(t, "fetch")
  /\ UNCHANGED <<call, buf, got, meta, dev>>

Unlock(t) ==
  /\ pc[t] = "unlock"
  /\ lock' = Null
  /\ IF call[t].op \in Commands THEN Return(t, "ok") ELSE Goto(t, "fetch")
  /\ UNCHANGED <<call, buf, got, meta, dev>>

(* What fpga_recv may deliver of channel c, and what it leaves there: the  *)
(* frame, or, when it times out in the middle, a part of it; the rest is   *)
(* dropped or left for the next read.                                      *)
Delivery(c) ==
  {<<Head(frames[c]), Tail(frames[c])>>} \cup
  (IF "recv_short" \in Faults
   THEN {<<Cut, Tail(frames[c])>>, <<Cut, <<Cut>> \o Tail(frames[c])>>} ELSE {})

(* fpga_recv on a stream channel, into the shared buffer or the caller's.  *)
(* Any positive length counts as the whole frame.  A failure, or a timeout *)
(* before the first word, abandons the call, and whatever is still on its  *)
(* way stays.                                                              *)
Fetch(t) ==
  /\ pc[t] = "fetch"
  /\ LET c == NextChannel(t) IN
     \/ /\ frames[c] # <<>>
        /\ \E d \in Delivery(c) :
             /\ frames' = [frames EXCEPT ![c] = d[2]]
             /\ IF call[t].op = "recv2"
                THEN /\ got' = [got EXCEPT ![t][c] = d[1]]
                     /\ Return(t, "ok")
                     /\ UNCHANGED meta
                ELSE /\ meta' = [meta EXCEPT ![MetaOf(t)] = d[1]]
                     /\ Goto(t, "copy")
                     /\ UNCHANGED got
     \/ /\ Faults \cap {"recv_neg", "recv_zero"} # {}
        /\ Return(t, "failed")
        /\ UNCHANGED <<meta, frames, got>>
  /\ UNCHANGED <<lock, call, buf, toDev, toHost, regs>>

(* Copy the payload out of the shared buffer.                              *)
Copy(t) ==
  /\ pc[t] = "copy"
  /\ got' = [got EXCEPT ![t][NextChannel(t)] = meta[MetaOf(t)]]
  /\ IF Unread(t) = {NextChannel(t)} THEN Return(t, "ok") ELSE Goto(t, "fetch")
  /\ UNCHANGED <<lock, call, buf, meta, dev>>

(* The FPGA takes the next message of channel 0 and answers it.            *)
Device ==
  /\ toDev # <<>>
  /\ toDev' = Tail(toDev)
  /\ LET m == Head(toDev) IN
     \/ /\ m.op = "set"
        /\ regs' = [regs EXCEPT ![<<m.rf, m.reg>>] = m.val]
        /\ toHost' = Append(toHost, [rf |-> m.rf, reg |-> m.reg, val |-> m.val])
        /\ UNCHANGED frames
     \/ /\ m.op = "get"
        /\ toHost' = Append(toHost, [rf |-> m.rf, reg |-> m.reg,
                                     val |-> regs[<<m.rf, m.reg>>]])
        /\ UNCHANGED <<regs, frames>>
     \/ /\ m.op \in StreamOps
        /\ frames' = [c \in Channel |->
                        IF c \in m.chans
                        THEN Append(frames[c], [ch |-> c, time |-> m.val])
                        ELSE frames[c]]
        /\ UNCHANGED <<regs, toHost>>
  /\ UNCHANGED host

Step(t) == Lock(t) \/ FpgaSend(t) \/ FpgaRecv(t) \/ Unlock(t) \/ Fetch(t) \/ Copy(t)

Next == Device \/ \E t \in Thread : Call(t) \/ Step(t)

Spec == Init /\ [][Next]_vars

(* A thread inside a call keeps running, and so does the FPGA; nothing     *)
(* makes an application call, and the spinlock promises no turn to a       *)
(* thread that others keep overtaking.                                     *)
Fairness == WF_vars(Device) /\ \A t \in Thread : WF_vars(Step(t))
FairSpec == Spec /\ Fairness
-----------------------------------------------------------------------------
(* What the transport must guarantee.                                      *)

(* Values stay in their types; a stream call that got past its checks asks *)
(* only for channels the thread uses, and single-port calls only for       *)
(* channels the board has.                                                 *)
TypeOK ==
  /\ lock \in Thread \cup {Null}
  /\ pc \in [Thread -> {"idle", "lock", "send", "recv", "unlock", "fetch", "copy"}]
  /\ call \in [Thread -> Message]
  /\ buf \in [Thread -> Reply]
  /\ got \in [Thread -> [Channel -> Frame \cup {Null}]]
  /\ result \in [Thread -> {"none", "ok", "failed", "EINVAL"}]
  /\ meta \in [Channel -> Frame \cup {Null}]
  /\ toDev \in Seq(Message)
  /\ toHost \in Seq(Reply)
  /\ frames \in [Channel -> Seq(Frame)]
  /\ regs \in [RfId \X Reg -> Value]
  /\ \A t \in Thread :
       pc[t] # "idle" /\ call[t].op \in {"recv", "recv2"} => \A c \in call[t].chans : c < NumOfChannel

(* A thread between lock() and unlock() of a locked operation.             *)
InExchange(t) == pc[t] \in {"send", "recv", "unlock"} /\ call[t].op # "recv3"

NoCommand(q) == \A i \in 1 .. Len(q) : q[i].op \notin Commands

(* Command exchanges do not overlap on channel 0: the thread inside one    *)
(* holds the spinlock, so no other thread is inside one.                   *)
Exclusive ==
  \A t, u \in Thread : InExchange(t) /\ InExchange(u) => t = u

(* When the spinlock is free channel 0 holds no command and no reply: a    *)
(* failed exchange never hands a late reply to the next caller.            *)
QuietWhenFree == lock = Null => toHost = <<>> /\ NoCommand(toDev)

(* Replies carry no sequence number and the code compares no field of one. *)
(* Still the reply a command call is about to return is the one to its own *)
(* command, and it agrees with the device: a read returns the value the    *)
(* register has, and a write that was acknowledged has taken effect and    *)
(* has not been overwritten.                                               *)
ReplyCurrent ==
  \A t \in Thread :
    pc[t] = "unlock" /\ call[t].op \in Commands =>
      /\ buf[t].rf = call[t].rf
      /\ buf[t].reg = call[t].reg
      /\ buf[t].val = regs[<<call[t].rf, call[t].reg>>]
      /\ call[t].op = "set" => buf[t].val = call[t].val

(* A stream call that reports success has, for every channel it asked for, *)
(* the frame of that channel and of its own request, although requests     *)
(* share channel 0 and the multi-port call shares one buffer.              *)
StreamAnswered ==
  \A t \in Thread :
    result[t] = "ok" /\ call[t].op \in StreamOps =>
      \A c \in call[t].chans : got[t][c] = [ch |-> c, time |-> call[t].val]

(* A get that reports success has filled the caller's buffer with the      *)
(* value the register has (where no other thread writes it meanwhile).     *)
GetFills ==
  \A t \in Thread :
    pc[t] = "idle" /\ result[t] = "ok" /\ call[t].op = "get" =>
      /\ buf[t].reg = call[t].reg
      /\ buf[t].val = regs[<<call[t].rf, call[t].reg>>]

(* Whoever takes the spinlock gives it back.                               *)
LockReleased == \A t \in Thread : lock = t ~> lock # t

(* A stream call that is past the spinlock gets its frames and ends.       *)
ReadEnds == \A t \in Thread : pc[t] \in {"fetch", "copy"} ~> pc[t] = "idle"

(* A call that has started ends, also when an earlier one failed.          *)
CallReturns == \A t \in Thread : pc[t] # "idle" ~> pc[t] = "idle"

(* Register commands behave as one atomic operation each on the registers. *)
Active(t) == pc[t] # "idle" /\ call[t].op \in Commands
Applied(t) == Active(t) /\ (pc[t] = "unlock" \/ (pc[t] = "recv" /\ toHost # <<>>))

Service == INSTANCE RegisterService WITH
  Register <- RfId \X Reg,
  phase <- [t \in Thread |-> IF Applied(t) THEN "applied"
                             ELSE IF Active(t) THEN "invoked" ELSE "idle"],
  req <- [t \in Thread |->
            IF Active(t)
            THEN [op |-> call[t].op, reg |-> <<call[t].rf, call[t].reg>>, val |-> call[t].val]
            ELSE Null],
  out <- [t \in Thread |->
            IF Applied(t) THEN (IF pc[t] = "unlock" THEN buf[t] ELSE Head(toHost)).val
            ELSE Null]

ServiceSpec == Service!Spec
=============================================================================
