---------------------------- MODULE BasebandRate ----------------------------
(***************************************************************************)
(* yunsdr_set_bb_rate of libyunsdr, which sets the sampling rate of both   *)
(* directions: it asks the device for its rate and whether its FIR filters *)
(* are enabled, and from the answers sends a series of commands that       *)
(* nothing acknowledges.  Commands travel in order on one UDP socket, and  *)
(* nothing in an answer says what question it belongs to.                  *)
(***************************************************************************)
EXTENDS Integers, Sequences

CONSTANTS
  Rates,    \* sampling rates the program asks for
  MayFail,  \* whether sendto may fail
  MayLose,  \* whether a datagram may get lost
  MaxLeft   \* bound: datagrams earlier calls left, when a call begins

ASSUME RateAssumption ==
  /\ Rates \subseteq Nat /\ Rates # {}
  /\ {MayFail, MayLose} \subseteq BOOLEAN
  /\ MaxLeft \in Nat

VARIABLES
  pc,       \* the next step of the call
  want,     \* its argument
  current,  \* current_rate
  todo,     \* the commands the call has still to send
  result,   \* what the last call returned
  toDev,    \* messages on their way to the device
  toHost,   \* answers on their way back, or unread
  dev,      \* the device: its rate, its filters and whether they are enabled
  lost,     \* a command was lost since the last call began
  clean     \* no command was lost and no question given up too early, since
            \* the device was last known to be set

vars == <<pc, want, current, todo, result, toDev, toHost, dev, lost, clean>>

LowRate == 25000000 \div 12   \* below it the converter needs the filters
ParkRate == 3000000

(* Decimation and filter of a rate.                                        *)
FirOf(rate) ==
  IF rate <= 20000000 THEN [dec |-> 4, taps |-> 128]
  ELSE [dec |-> 2, taps |-> IF rate <= 40000000 THEN 128
                            ELSE IF rate <= 53333333 THEN 96 ELSE 64]

SetRate(rate) == [do |-> "rate", rate |-> rate]
SetFir(on)    == [do |-> "enable", on |-> on]
LoadRx(fir)   == [do |-> "load_rx", fir |-> fir]
LoadTx(fir)   == [do |-> "load_tx", fir |-> fir]

Init ==
  /\ pc = "idle"
  /\ want \in Rates
  /\ current = 0
  /\ todo = <<>>
  /\ result = "none"
  /\ toDev = <<>>
  /\ toHost = <<>>
  /\ \E r \in Rates, on \in BOOLEAN :
       /\ r <= LowRate => on
       /\ dev = [rate |-> r, on |-> on, rx |-> FirOf(r), tx |-> FirOf(r)]
  /\ lost = FALSE
  /\ clean = TRUE

(* The commands of the last call have all arrived, and nothing is left.    *)
Known == result = "ok" /\ ~lost /\ toDev = <<>> /\ toHost = <<>>

Call(rate) ==
  /\ pc = "idle"
  /\ Len(toDev) + Len(toHost) <= MaxLeft
  /\ lost' = FALSE
  /\ clean' = (clean \/ Known)
  /\ want' = rate
  /\ pc' = "get_rate"
  /\ result' = "none"
  /\ UNCHANGED <<current, todo, toDev, toHost, dev>>

Return(ret) ==
  /\ pc' = "idle"
  /\ result' = ret

Goto(next) ==
  /\ pc' = next
  /\ UNCHANGED result

(* Ask for the rate, then for the filters; __trans_cmd_send_then_recv.     *)
Ask ==
  /\ pc \in {"get_rate", "get_fir"}
  /\ \/ /\ toDev' = Append(toDev, [do |-> pc])
        /\ Goto(IF pc = "get_rate" THEN "wait_rate" ELSE "wait_fir")
     \/ MayFail /\ Return("failed") /\ UNCHANGED toDev
  /\ UNCHANGED <<want, current, todo, toHost, dev, lost, clean>>

(* Mutant: the filters are enabled after the rate, whatever it is.         *)
FinishRateFirst(rate) == <<SetRate(rate), SetFir(TRUE)>>

(* Mutant: the filters are enabled only for the rates that need them.      *)
FinishLowOnly(rate) ==
  IF rate <= LowRate THEN <<SetFir(TRUE), SetRate(rate)>> ELSE <<SetRate(rate)>>

Finish(rate) ==
  IF rate <= LowRate THEN <<SetFir(TRUE), SetRate(rate)>> ELSE <<SetRate(rate), SetFir(TRUE)>>

(* Enabled filters are disabled first, a rate that needs them parked.      *)
Prepare(on) ==
  IF ~on THEN <<>>
  ELSE (IF current <= LowRate THEN <<SetRate(ParkRate)>> ELSE <<>>) \o <<SetFir(FALSE)>>

(* Mutant: only the receive filter is loaded.                              *)
LoadRxOnly(fir) == <<LoadRx(fir)>>

Load(fir) == <<LoadRx(fir), LoadTx(fir)>>

GotRate ==
  /\ pc = "wait_rate"
  /\ toHost # <<>>
  /\ current' = Head(toHost)
  /\ toHost' = Tail(toHost)
  /\ Goto("get_fir")
  /\ UNCHANGED <<want, todo, toDev, dev, lost, clean>>

(* The answer is taken for a uint8_t, its lowest byte.                     *)
IsOn(answer) == answer % 256 # 0

GotFir ==
  /\ pc = "wait_fir"
  /\ toHost # <<>>
  /\ todo' = Prepare(IsOn(Head(toHost))) \o Load(FirOf(want)) \o Finish(want)
  /\ toHost' = Tail(toHost)
  /\ Goto("send")
  /\ UNCHANGED <<want, current, toDev, dev, lost, clean>>

(* The answer is damaged: it is gone, and recvfrom fails.                  *)
RecvfromFails ==
  /\ MayFail
  /\ pc \in {"wait_rate", "wait_fir"}
  /\ toHost # <<>>
  /\ toHost' = Tail(toHost)
  /\ Return("failed")
  /\ UNCHANGED <<want, current, todo, toDev, dev, lost, clean>>

(* Three seconds pass; what is still on its way comes later, and an answer *)
(* among it is taken for that of the next question.                        *)
TimeOut ==
  /\ pc \in {"wait_rate", "wait_fir"}
  /\ Return("timed_out")
  /\ clean' = (clean /\ toDev = <<>> /\ toHost = <<>>)
  /\ UNCHANGED <<want, current, todo, toDev, toHost, dev, lost>>

SendFails == todo' = <<>> /\ Return("failed")

Send ==
  /\ pc = "send"
  /\ \/ /\ toDev' = Append(toDev, Head(todo))
        /\ todo' = Tail(todo)
        /\ IF Tail(todo) = <<>> THEN Return("ok") ELSE Goto("send")
     \/ MayFail /\ SendFails /\ UNCHANGED toDev
  /\ UNCHANGED <<want, current, toHost, dev, lost, clean>>

Device ==
  /\ toDev # <<>>
  /\ toDev' = Tail(toDev)
  /\ LET m == Head(toDev) IN
     /\ dev' = CASE m.do = "rate"    -> [dev EXCEPT !.rate = m.rate]
                 [] m.do = "enable"  -> [dev EXCEPT !.on = m.on]
                 [] m.do = "load_rx" -> [dev EXCEPT !.rx = m.fir]
                 [] m.do = "load_tx" -> [dev EXCEPT !.tx = m.fir]
                 [] OTHER            -> dev
     /\ toHost' = CASE m.do = "get_rate" -> Append(toHost, dev.rate)
                    [] m.do = "get_fir"  -> Append(toHost, IF dev.on THEN 1 ELSE 0)
                    [] OTHER             -> toHost
  /\ UNCHANGED <<pc, want, current, todo, result, lost, clean>>

LoseQuestion ==
  /\ toDev # <<>> /\ Head(toDev).do \in {"get_rate", "get_fir"}
  /\ toDev' = Tail(toDev)
  /\ UNCHANGED <<toHost, lost, clean>>

LoseAnswer ==
  /\ toHost # <<>>
  /\ toHost' = Tail(toHost)
  /\ UNCHANGED <<toDev, lost, clean>>

LoseCommand ==
  /\ toDev # <<>> /\ Head(toDev).do \notin {"get_rate", "get_fir"}
  /\ toDev' = Tail(toDev)
  /\ lost' = TRUE /\ clean' = FALSE
  /\ UNCHANGED toHost

Lose ==
  /\ MayLose
  /\ LoseQuestion \/ LoseAnswer \/ LoseCommand
  /\ UNCHANGED <<pc, want, current, todo, result, dev>>

Next ==
  \/ \E rate \in Rates : Call(rate)
  \/ Ask \/ GotRate \/ GotFir \/ RecvfromFails \/ TimeOut \/ Send \/ Device \/ Lose

Spec == Init /\ [][Next]_vars

-----------------------------------------------------------------------------
(* As long as no command was lost and no question given up before its      *)
(* answer came, the device never runs at a rate that needs the filters     *)
(* without them, at no point of a change from any rate to any other, nor   *)
(* after a change that was given up half way.                              *)
LowRateHasFir == clean => (dev.rate <= LowRate => dev.on)

(* And enabled filters of the two directions are of the same kind: a       *)
(* change given up between the two loads leaves them disabled.             *)
FirsAgree == clean => (dev.on => dev.rx = dev.tx)

(* When the commands of a successful call have reached the device it has   *)
(* the rate asked for and the filters of that rate, enabled, whatever the  *)
(* answers were, what calls before it left, and what of theirs was lost.   *)
Settled ==
  pc = "idle" /\ result = "ok" /\ toDev = <<>> /\ ~lost =>
    dev = [rate |-> want, on |-> TRUE, rx |-> FirOf(want), tx |-> FirOf(want)]
=============================================================================
