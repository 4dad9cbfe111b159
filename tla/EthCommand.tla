----------------------------- MODULE EthCommand -----------------------------
(***************************************************************************)
(* The command channel of libyunsdr, one UDP socket for one program: sets  *)
(* that nothing acknowledges, gets that wait three seconds for an answer,  *)
(* and the hello of yunsdr_open_device, which tries again.  Nothing in an  *)
(* answer says what question it belongs to.                                *)
(***************************************************************************)
EXTENDS Integers, Sequences, FiniteSets

CONSTANTS
  Reg,       \* registers of the device, the clock and the GPS among them
  Value,     \* their values
  Hello,     \* the answer to a hello, 0x55AAAA55; not one of Value
  Tries,     \* how often a hello is sent, 5
  MaxAsked,  \* bound: questions the program sends
  MaxSets    \* bound: sets on their way to the device

VARIABLES
  phase,      \* "idle", "ask" or "wait"
  call,       \* the last call: what it does, and to which register
  left,       \* tries the call has left
  returned,   \* what it returned: "none", "ok", "failed", "timed_out"
  got,        \* the answer it took
  datagrams,  \* datagrams on their way to the device, in order
  answers,    \* answers on their way back, or unread
  regs,       \* the registers of the device
  wrote,      \* what it wrote last to each register, as far as it knows
  asked,      \* questions sent so far
  timeouts,   \* of which ran into the time-out
  setLost     \* some set was lost

cmdVars == <<phase, call, left, returned, got, datagrams, answers, regs,
             wrote, asked, timeouts, setLost>>

Set(r, v) == [do |-> "set", reg |-> r, val |-> v]
Get(r)    == [do |-> "get", reg |-> r]
SayHello  == [do |-> "hello"]

CmdInit ==
  /\ phase = "idle" /\ call = SayHello /\ left = 0
  /\ returned = "none" /\ got = Hello
  /\ datagrams = <<>> /\ answers = <<>>
  /\ regs \in [Reg -> Value]
  /\ wrote = regs
  /\ asked = 0 /\ timeouts = 0 /\ setLost = FALSE

-----------------------------------------------------------------------------
Sets      == {i \in DOMAIN datagrams : datagrams[i].do = "set"}
Questions == {i \in DOMAIN datagrams : datagrams[i].do # "set"}

(* Mutant: what sendto returns is not looked at.                           *)
SetRegBlindly(r, v) ==
  /\ phase = "idle"
  /\ Cardinality(Sets) < MaxSets
  /\ call' = Set(r, v)
  /\ datagrams' \in {datagrams, Append(datagrams, Set(r, v))}
  /\ wrote' = [wrote EXCEPT ![r] = v]
  /\ returned' = "ok"
  /\ UNCHANGED <<phase, left, got, answers, regs, asked, timeouts, setLost>>

(* yunsdr_set_* and __trans_cmd_send: the call ends when sendto returns.   *)
SetReg(r, v) ==
  /\ phase = "idle"
  /\ Cardinality(Sets) < MaxSets
  /\ call' = Set(r, v)
  /\ \/ /\ datagrams' = Append(datagrams, Set(r, v))
        /\ wrote' = [wrote EXCEPT ![r] = v]
        /\ returned' = "ok"
     \/ returned' = "failed" /\ UNCHANGED <<datagrams, wrote>>
  /\ UNCHANGED <<phase, left, got, answers, regs, asked, timeouts, setLost>>

(* yunsdr_get_*, yunsdr_read_* and yunsdr_say_hello.                       *)
Question(question, tries) ==
  /\ phase = "idle"
  /\ asked + tries <= MaxAsked
  /\ call' = question /\ left' = tries
  /\ phase' = "ask" /\ returned' = "none"
  /\ UNCHANGED <<got, datagrams, answers, regs, wrote, asked, timeouts, setLost>>

GetReg(r) == Question(Get(r), 1)

End(ret) ==
  /\ phase' = "idle"
  /\ returned' = ret
  /\ UNCHANGED left

Sendto ==
  /\ phase = "ask"
  /\ \/ /\ datagrams' = Append(datagrams, call)
        /\ asked' = asked + 1
        /\ phase' = "wait" /\ UNCHANGED <<left, returned>>
     \/ End("failed") /\ UNCHANGED <<datagrams, asked>>
  /\ UNCHANGED <<call, got, answers, regs, wrote, timeouts, setLost>>

(* Mutant: recvfrom leaves the datagram in the socket.                     *)
RecvfromPeeks ==
  /\ phase = "wait" /\ answers # <<>>
  /\ got' = Head(answers)
  /\ End(IF call.do = "hello" /\ Head(answers) # Hello THEN "failed" ELSE "ok")
  /\ UNCHANGED <<call, datagrams, answers, regs, wrote, asked, timeouts, setLost>>

(* select says there is a datagram; one that is damaged is gone and makes  *)
(* recvfrom fail.  (recvfrom also overwrites cmd_addr, to which later      *)
(* messages go, with the sender's address: here only the device sends.)    *)
Recvfrom ==
  /\ phase = "wait" /\ answers # <<>>
  /\ answers' = Tail(answers)
  /\ \/ /\ got' = Head(answers)
        /\ End(IF call.do = "hello" /\ Head(answers) # Hello THEN "failed" ELSE "ok")
     \/ End("failed") /\ UNCHANGED got
  /\ UNCHANGED <<call, datagrams, regs, wrote, asked, timeouts, setLost>>

(* Only a hello is sent again.                                             *)
GiveUp ==
  IF left > 1 THEN phase' = "ask" /\ left' = left - 1 /\ UNCHANGED returned
  ELSE End(IF call.do = "hello" THEN "failed" ELSE "timed_out")

(* Mutant: select waits without a limit.                                   *)
NoTimeLimit == phase = "wait" /\ answers # <<>> /\ UNCHANGED cmdVars

(* Three seconds pass; what is still on its way comes later.               *)
AnswerTimesOut ==
  /\ phase = "wait" /\ answers = <<>>
  /\ timeouts' = timeouts + 1
  /\ GiveUp
  /\ UNCHANGED <<call, got, datagrams, answers, regs, wrote, asked, setLost>>

Serve ==
  /\ datagrams # <<>>
  /\ datagrams' = Tail(datagrams)
  /\ LET m == Head(datagrams) IN
     /\ regs' = IF m.do = "set" THEN [regs EXCEPT ![m.reg] = m.val] ELSE regs
     /\ answers' = CASE m.do = "set"   -> answers
                     [] m.do = "get"   -> Append(answers, regs[m.reg])
                     [] m.do = "hello" -> Append(answers, Hello)
  /\ UNCHANGED <<phase, call, left, returned, got, wrote, asked, timeouts, setLost>>

LoseDatagram ==
  /\ \/ /\ datagrams # <<>> /\ datagrams' = Tail(datagrams)
        /\ setLost' = (setLost \/ Head(datagrams).do = "set")
        /\ UNCHANGED answers
     \/ answers # <<>> /\ answers' = Tail(answers) /\ UNCHANGED <<datagrams, setLost>>
  /\ UNCHANGED <<phase, call, left, returned, got, regs, wrote, asked, timeouts>>

Caller == Sendto \/ Recvfrom \/ AnswerTimesOut

CmdNext ==
  \/ \E r \in Reg : GetReg(r) \/ \E v \in Value : SetReg(r, v)
  \/ Question(SayHello, Tries)
  \/ Caller \/ Serve \/ LoseDatagram

(* select has a time limit and no call of the library blocks otherwise.    *)
CmdFairness == WF_cmdVars(Caller)

CmdSpec == CmdInit /\ [][CmdNext]_cmdVars /\ CmdFairness

-----------------------------------------------------------------------------
(* Answers that no call waits for exist only after time-outs, at most one  *)
(* for each of them: a failed hello can leave five behind, no other call   *)
(* more than one.                                                          *)
StaleAnswers ==
  Cardinality(Questions) + Len(answers) <= timeouts + (IF phase = "wait" THEN 1 ELSE 0)

(* A get reads what the program wrote last, although the write was never   *)
(* acknowledged: as long as no set was lost and, since an answer that      *)
(* comes late is taken by the next question, as long as nothing timed out. *)
ReadsOwnWrites ==
  call.do = "get" /\ returned = "ok" /\ timeouts = 0 /\ ~setLost =>
    got = wrote[call.reg]

(* Every call ends, a hello that nobody answers included.                  *)
CallEnds == phase # "idle" ~> phase = "idle"
=============================================================================
