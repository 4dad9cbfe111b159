----------------------------- MODULE ChannelCorr -----------------------------
(***************************************************************************)
(* The correction of channels 2 to 4 against channel 1 in libyunsdr_ss, on *)
(* top of the SFP command channel: coefficients in registers 35 to 37 and  *)
(* 39 to 41, and one bit per channel in register 38, which a call reads    *)
(* from chip 0, changes, and writes to the chip of its argument, in two    *)
(* exchanges.  A register is a chip and a number, its value a set of bits. *)
(***************************************************************************)
EXTENDS SfpLink

CONSTANTS
  Chip,      \* values of rf_id
  Coef,      \* pairs of coefficients, as register values
  Channels,  \* channels callers name, of RF_RX_CHANNEL and RF_TX_CHANNEL
  Plain      \* registers of other calls

Dir       == {"rx", "tx"}
SwitchReg == 38
Port      == Chip \X Dir \X (Channels \ {1})

(* 1 << (channel - 2) for receive channels, 1 << (channel + 1) else.       *)
BitOf(dir, ch) == IF dir = "rx" THEN ch - 2 ELSE ch + 1

RegOf(dir, ch) == IF dir = "rx" THEN 33 + ch ELSE 37 + ch

CoefOf(p)   == <<p[1], RegOf(p[2], p[3])>>
SwitchOf(p) == BitOf(p[2], p[3])
Status(rf)  == <<rf, SwitchReg>>

ASSUME CorrAssumption ==
  /\ Channels \subseteq 1 .. 4
  /\ 0 \in Chip
  /\ {CoefOf(p) : p \in Port} \cup {Status(rf) : rf \in Chip} \cup Plain \subseteq Reg
  /\ Plain \cap (Chip \X (35 .. 41)) = {}
  /\ Coef \subseteq Value /\ {} \in Value
  /\ \A v \in Value, dir \in Dir, ch \in Channels \ {1} :
       {v \cup {BitOf(dir, ch)}, v \ {BitOf(dir, ch)}} \subseteq Value

VARIABLES
  step,   \* step[t]: "idle", or the exchange t's correction call is in
  args,   \* args[t]: arguments of t's current or last correction call
  ret     \* ret[t]: what it returned

api == <<step, args, ret>>

Args == [op : {"coef"}, rf : Chip, dir : Dir, ch : Channels, coef : Coef]
          \cup [op : {"switch"}, rf : Chip, dir : Dir, ch : Channels, on : BOOLEAN]

CorrInit ==
  /\ Init
  /\ step = [t \in Thread |-> "idle"]
  /\ \E ch \in Channels :
       args = [t \in Thread |-> [op |-> "switch", rf |-> 0, dir |-> "rx", ch |-> ch, on |-> FALSE]]
  /\ ret = [t \in Thread |-> "none"]

Idle(t) == step[t] = "idle" /\ pc[t] = "idle"

Finish(t, r) ==
  /\ step' = [step EXCEPT ![t] = "idle"]
  /\ ret' = [ret EXCEPT ![t] = r]

(* Mutant: the call reports its result before it has one.                  *)
BeginReports(t, next) ==
  /\ step' = [step EXCEPT ![t] = next]
  /\ ret' = [ret EXCEPT ![t] = "ok"]

Begin(t, next) ==
  /\ step' = [step EXCEPT ![t] = next]
  /\ ret' = [ret EXCEPT ![t] = "none"]

(* Mutant: the coefficients go to chip 0, as the read of the switches does. *)
SetCoefOnChip0(t, rf, dir, ch, k) ==
  /\ Idle(t)
  /\ args' = [args EXCEPT ![t] = [op |-> "coef", rf |-> rf, dir |-> dir, ch |-> ch, coef |-> k]]
  /\ IF ch = 1 THEN Finish(t, "ok") /\ UNCHANGED vars
     ELSE Begin(t, "write") /\ CmdSend(t, <<0, RegOf(dir, ch)>>, k)

(* yunsdr_set_rxchannel_coef and its twin.  Channel 1 has no coefficients: *)
(* the call sends nothing.                                                 *)
SetCoef(t, rf, dir, ch, k) ==
  /\ Idle(t)
  /\ args' = [args EXCEPT ![t] = [op |-> "coef", rf |-> rf, dir |-> dir, ch |-> ch, coef |-> k]]
  /\ IF ch = 1 THEN Finish(t, "ok") /\ UNCHANGED vars
     ELSE Begin(t, "write") /\ CmdSend(t, <<rf, RegOf(dir, ch)>>, k)

(* yunsdr_enable_rxchannel_corr and its twin: first read register 38, of   *)
(* chip 0 whatever rf_id is.                                               *)
EnableCorr(t, rf, dir, ch, enable) ==
  /\ Idle(t)
  /\ args' = [args EXCEPT ![t] = [op |-> "switch", rf |-> rf, dir |-> dir, ch |-> ch, on |-> enable]]
  /\ Begin(t, "read")
  /\ CmdSendThenRecv(t, Status(0), {})

(* What the call makes of register 38; channel 1 leaves it as it is.       *)
NewStatus(t, status) ==
  LET bit == BitOf(args[t].dir, args[t].ch) IN
  IF args[t].ch = 1 THEN status
  ELSE IF args[t].on THEN status \cup {bit} ELSE status \ {bit}

WriteBack(t) ==
  /\ step' = [step EXCEPT ![t] = "write"]
  /\ CmdSend(t, Status(args[t].rf), NewStatus(t, buf[t].val))
  /\ UNCHANGED ret

ReadFails(t) == Finish(t, "failed") /\ UNCHANGED vars

ReadReturns(t) ==
  /\ step[t] = "read" /\ pc[t] = "idle"
  /\ IF result[t] = "ok" THEN WriteBack(t) ELSE ReadFails(t)
  /\ UNCHANGED args

(* Mutant: the result of the write is not looked at.                       *)
WriteReturnsOk(t) ==
  /\ step[t] = "write" /\ pc[t] = "idle"
  /\ Finish(t, "ok")
  /\ UNCHANGED <<args, vars>>

WriteReturns(t) ==
  /\ step[t] = "write" /\ pc[t] = "idle"
  /\ Finish(t, IF result[t] = "ok" THEN "ok" ELSE "failed")
  /\ UNCHANGED <<args, vars>>

(* Any other get or set.                                                   *)
OtherCall(t) ==
  /\ Idle(t)
  /\ \E g \in Plain, v \in Coef : CmdSend(t, g, v) \/ CmdSendThenRecv(t, g, v)
  /\ UNCHANGED api

Link(t) == (Step(t) \/ Device \/ Arrive \/ Lose) /\ UNCHANGED api

CorrStep(t) == ReadReturns(t) \/ WriteReturns(t)

CorrNext == \E t \in Thread :
  \/ CorrStep(t) \/ OtherCall(t) \/ Link(t)
  \/ \E rf \in Chip, dir \in Dir, ch \in Channels :
       \/ \E k \in Coef : SetCoef(t, rf, dir, ch, k)
       \/ \E b \in BOOLEAN : EnableCorr(t, rf, dir, ch, b)

CorrSpec == CorrInit /\ [][CorrNext]_<<api, vars>>

(* A thread inside a call keeps running, the device serves what reaches it *)
(* and datagrams that are not lost arrive.                                 *)
CorrFairness ==
  /\ WF_vars(Device /\ UNCHANGED api) /\ WF_vars(Arrive /\ UNCHANGED api)
  /\ \A t \in Thread : WF_vars(Step(t) /\ UNCHANGED api) /\ WF_<<api, vars>>(CorrStep(t))

-----------------------------------------------------------------------------
(* Values stay in their types: every bit a call sets is one a register of  *)
(* the device has, and no call ends before its exchanges.                  *)
CorrTypeOK ==
  /\ TypeOK
  /\ step \in [Thread -> {"idle", "read", "write"}]
  /\ args \in [Thread -> Args]
  /\ ret \in [Thread -> {"none", "ok", "failed"}]
  /\ \A t \in Thread : step[t] # "idle" => ret[t] = "none"

(* Every correction call returns, whatever gets lost, since each of its    *)
(* exchanges ends by itself.                                               *)
CorrReturns == \A t \in Thread : step[t] # "idle" ~> step[t] = "idle"

(* The calls of a single-threaded program make their own change, once, at *)
(* one instant, and no other, whatever is lost: the read, change and write *)
(* of a register that six ports share are seen as one operation, although  *)
(* they are two exchanges over a network.                                  *)
Ports == INSTANCE Correction WITH
  Coef <- Value,
  coef <- [p \in Port |-> regs[CoefOf(p)]],
  on <- {p \in Port : SwitchOf(p) \in regs[Status(p[1])]},
  phase <- [t \in Thread |-> IF step[t] = "idle" THEN "idle"
                             ELSE IF step[t] = "read" \/ pc[t] = "send" THEN "begun"
                             ELSE IF Applied(t) \/ result[t] = "ok" THEN "applied"
                             ELSE IF pc[t] # "idle" /\ toDev # <<>> THEN "begun"
                             ELSE "failed"],
  req <- [t \in Thread |-> IF step[t] = "idle" THEN Null ELSE args[t]]

PortsSpec == Ports!Spec

(* A switch call that reports success has left its channel as asked.       *)
SwitchSet ==
  \A t \in Thread :
    step[t] = "idle" /\ ret[t] = "ok" /\ args[t].op = "switch" /\ args[t].ch # 1 =>
      (BitOf(args[t].dir, args[t].ch) \in regs[Status(args[t].rf)] <=> args[t].on)
=============================================================================
