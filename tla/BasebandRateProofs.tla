------------------------- MODULE BasebandRateProofs -------------------------
(***************************************************************************)
(* A change of the base band rate is safe at every instant, for every rate *)
(* of the device and every rate asked for, wherever the change is given up,*)
(* as long as no command is lost and no question given up too early; and   *)
(* it ends where it should whatever calls before it lost or left.          *)
(***************************************************************************)
EXTENDS BasebandRate, SequenceTheorems, TLAPS

Firs   == [dec : Nat, taps : Nat]
States == [rate : Nat, on : BOOLEAN, rx : Firs, tx : Firs]

Commands == [do : {"rate"}, rate : Nat] \cup [do : {"enable"}, on : BOOLEAN]
              \cup [do : {"load_rx"}, fir : Firs] \cup [do : {"load_tx"}, fir : Firs]
Question(of) == [do |-> of]
Questions    == {Question("get_rate"), Question("get_fir")}
Messages     == Commands \cup Questions

(* What a message makes of the device.                                     *)
Exec(s, m) ==
  CASE m.do = "rate"    -> [s EXCEPT !.rate = m.rate]
    [] m.do = "enable"  -> [s EXCEPT !.on = m.on]
    [] m.do = "load_rx" -> [s EXCEPT !.rx = m.fir]
    [] m.do = "load_tx" -> [s EXCEPT !.tx = m.fir]
    [] OTHER            -> s

Good(s)      == (s.rate <= LowRate => s.on) /\ (s.on => s.rx = s.tx)
Target(rate) == [rate |-> rate, on |-> TRUE, rx |-> FirOf(rate), tx |-> FirOf(rate)]

(* The messages of q take the device from s to t, through good states      *)
(* only; run is the states it goes through.                                *)
Takes(run, q, s, t) ==
  /\ run \in [0 .. Len(q) -> States]
  /\ run[0] = s /\ run[Len(q)] = t
  /\ \A i \in 1 .. Len(q) : run[i] = Exec(run[i - 1], q[i])
  /\ \A i \in 0 .. Len(q) : Good(run[i])

Safe(q, s, t) == \E run : Takes(run, q, s, t)

Types ==
  /\ pc \in {"idle", "get_rate", "wait_rate", "get_fir", "wait_fir", "send"}
  /\ want \in Nat /\ current \in Nat
  /\ todo \in Seq(Commands)
  /\ toDev \in Seq(Messages)
  /\ toHost \in Seq(Nat)
  /\ dev \in States

NoQuestions == toDev \in Seq(Commands)

(* What may be under way at each step of a call: at most the one question  *)
(* the call waits for, behind the commands of an earlier call, or its      *)
(* answer, which is true of the device.                                    *)
Phase ==
  /\ pc \in {"idle", "get_rate", "send"} => NoQuestions /\ toHost = <<>>
  /\ pc = "wait_rate" =>
       \/ toHost = <<>> /\ toDev = <<>>
       \/ toHost = <<>> /\ \E q \in Seq(Commands) : toDev = Append(q, Question("get_rate"))
       \/ toHost = <<dev.rate>> /\ toDev = <<>>
  /\ pc = "get_fir" => toHost = <<>> /\ toDev = <<>>
  /\ pc = "wait_fir" =>
       \/ toHost = <<>> /\ toDev = <<>>
       \/ toHost = <<>> /\ toDev = <<Question("get_fir")>>
       \/ toHost = <<IF dev.on THEN 1 ELSE 0>> /\ toDev = <<>>
  /\ pc \in {"get_fir", "wait_fir"} => current = dev.rate
  /\ pc # "send" => todo = <<>>
  /\ pc = "send" => todo # <<>>

(* All that is sent or still to be sent is safe.                           *)
Course == \E t \in States : Safe(toDev \o todo, dev, t)

(* What holds as long as the answers are those of the questions.           *)
Tame == Types /\ Phase /\ Course

(* Of what q still brings, the last that concerns the same part of the     *)
(* device as m is m; or nothing does, and "holds" is so already.           *)
Brings(q, m, holds) ==
  \/ \E i \in 1 .. Len(q) : q[i] = m /\ \A j \in 1 .. Len(q) : j > i => q[j].do # m.do
  \/ holds /\ \A j \in 1 .. Len(q) : q[j].do # m.do

BringsAll(q, s, rate) ==
  /\ Brings(q, SetRate(rate), s.rate = rate)
  /\ Brings(q, SetFir(TRUE), s.on = TRUE)
  /\ Brings(q, LoadRx(FirOf(rate)), s.rx = FirOf(rate))
  /\ Brings(q, LoadTx(FirOf(rate)), s.tx = FirOf(rate))

(* Where a call that goes through ends, if it loses nothing.               *)
Ends ==
  ~lost /\ (pc = "send" \/ (pc = "idle" /\ result = "ok")) => BringsAll(toDev \o todo, dev, want)

Rest == pc = "send" <=> todo # <<>>

IInv == Types /\ Rest /\ (clean => Phase /\ Course) /\ Ends

-----------------------------------------------------------------------------
(* Series of messages.                                                     *)

(* A message leaves a state a state.                                       *)
LEMMA ExecType ==
  ASSUME NEW s \in States, NEW m \in Messages
  PROVE  Exec(s, m) \in States
<1>1. CASE m \in [do : {"rate"}, rate : Nat]
  BY <1>1 DEF Exec, States
<1>2. CASE m \in [do : {"enable"}, on : BOOLEAN]
  BY <1>2 DEF Exec, States
<1>3. CASE m \in [do : {"load_rx"}, fir : Firs]
  BY <1>3 DEF Exec, States
<1>4. CASE m \in [do : {"load_tx"}, fir : Firs]
  BY <1>4 DEF Exec, States
<1>5. CASE m \in Questions
  BY <1>5 DEF Exec, Questions, Question
<1> QED BY <1>1, <1>2, <1>3, <1>4, <1>5 DEF Messages, Commands

(* A filter is a pair of numbers.                                          *)
LEMMA FirType ==
  ASSUME NEW rate \in Nat
  PROVE  FirOf(rate) \in Firs /\ Target(rate) \in States
  BY DEF FirOf, Firs, Target, States

(* No message is a safe series.                                            *)
LEMMA SafeNone ==
  ASSUME NEW s \in States, Good(s)
  PROVE  Safe(<<>>, s, s)
<1> DEFINE run == [i \in 0 .. 0 |-> s]
<1>1. Takes(run, <<>>, s, s)
  BY DEF Takes
<1> QED BY <1>1 DEF Safe

(* One message between good states is one.                                 *)
LEMMA SafeOne ==
  ASSUME NEW s \in States, NEW m \in Messages, Good(s), Good(Exec(s, m))
  PROVE  Safe(<<m>>, s, Exec(s, m)) /\ Exec(s, m) \in States
<1> DEFINE run == [i \in 0 .. 1 |-> IF i = 0 THEN s ELSE Exec(s, m)]
<1>1. Exec(s, m) \in States
  BY ExecType
<1>2. Len(<<m>>) = 1 /\ <<m>>[1] = m
  OBVIOUS
<1>3. /\ run \in [0 .. 1 -> States] /\ run[0] = s /\ run[1] = Exec(s, m)
  BY <1>1
<1>4. \A i \in 1 .. 1 : i = 1 /\ i - 1 = 0
  OBVIOUS
<1>5. \A i \in 0 .. 1 : Good(run[i])
  <2>1. \A i \in 0 .. 1 : i = 0 \/ i = 1
    OBVIOUS
  <2> HIDE DEF run
  <2> QED BY <1>3, <2>1
<1> HIDE DEF run
<1>6. Takes(run, <<m>>, s, Exec(s, m))
  BY <1>2, <1>3, <1>4, <1>5 DEF Takes
<1> QED BY <1>1, <1>6 DEF Safe

(* Safe series follow one another.                                         *)
LEMMA SafeConcat ==
  ASSUME NEW p \in Seq(Messages), NEW q \in Seq(Messages),
         NEW s, NEW u, NEW t, Safe(p, s, u), Safe(q, u, t)
  PROVE  Safe(p \o q, s, t)
<1>1. PICK f : Takes(f, p, s, u)
  BY DEF Safe
<1>2. PICK g : Takes(g, q, u, t)
  BY DEF Safe
<1> DEFINE n == Len(p)
           k == Len(q)
           r == p \o q
           run == [i \in 0 .. n + k |-> IF i <= n THEN f[i] ELSE g[i - n]]
<1>3. n \in Nat /\ k \in Nat
  OBVIOUS
<1>4. /\ r \in Seq(Messages) /\ Len(r) = n + k
      /\ \A i \in 1 .. n + k : r[i] = IF i <= n THEN p[i] ELSE q[i - n]
  BY ConcatProperties
<1>5. /\ f \in [0 .. n -> States] /\ f[0] = s /\ f[n] = u
      /\ \A i \in 1 .. n : f[i] = Exec(f[i - 1], p[i])
      /\ \A i \in 0 .. n : Good(f[i])
  BY <1>1 DEF Takes
<1>6. /\ g \in [0 .. k -> States] /\ g[0] = u /\ g[k] = t
      /\ \A i \in 1 .. k : g[i] = Exec(g[i - 1], q[i])
      /\ \A i \in 0 .. k : Good(g[i])
  BY <1>2 DEF Takes
<1> HIDE DEF n, k, r
<1>7. /\ \A i \in 0 .. n + k : i <= n => i \in 0 .. n /\ run[i] = f[i]
      /\ \A i \in 0 .. n + k : i >= n => i - n \in 0 .. k /\ run[i] = g[i - n]
  <2>1. ASSUME NEW i \in 0 .. n + k, i >= n PROVE i - n \in 0 .. k /\ run[i] = g[i - n]
    <3>1. CASE i = n
      BY <1>3, <1>5, <1>6, <3>1
    <3>2. CASE i > n
      BY <1>3, <2>1, <3>2
    <3> QED BY <1>3, <2>1, <3>1, <3>2
  <2>2. ASSUME NEW i \in 0 .. n + k, i <= n PROVE i \in 0 .. n /\ run[i] = f[i]
    BY <1>3, <2>2
  <2> QED BY <2>1, <2>2
<1>8. run \in [0 .. n + k -> States] /\ \A i \in 0 .. n + k : Good(run[i])
  <2>1. ASSUME NEW i \in 0 .. n + k PROVE run[i] \in States /\ Good(run[i])
    <3>1. i <= n \/ i >= n
      BY <1>3
    <3> HIDE DEF run
    <3> QED BY <1>5, <1>6, <1>7, <3>1
  <2>2. run = [i \in 0 .. n + k |-> run[i]]
    OBVIOUS
  <2> HIDE DEF run
  <2> QED BY <2>1, <2>2
<1> HIDE DEF run
<1>9. run[0] = s /\ run[n + k] = t
  <2>1. 0 \in 0 .. n + k /\ 0 <= n /\ n + k \in 0 .. n + k /\ n + k >= n /\ (n + k) - n = k
    BY <1>3
  <2> QED BY <1>5, <1>6, <1>7, <2>1
<1>10. ASSUME NEW i \in 1 .. n + k PROVE run[i] = Exec(run[i - 1], r[i])
  <2>1. CASE i <= n
    <3>1. i \in 1 .. n /\ i - 1 <= n /\ i \in 0 .. n + k /\ i - 1 \in 0 .. n + k
      BY <1>3, <1>10, <2>1
    <3>2. run[i] = f[i] /\ run[i - 1] = f[i - 1] /\ r[i] = p[i]
      BY <1>4, <1>7, <2>1, <3>1
    <3> QED BY <1>5, <3>1, <3>2
  <2>2. CASE ~(i <= n)
    <3>1. /\ i - n \in 1 .. k /\ i >= n /\ i - 1 >= n /\ i \in 0 .. n + k /\ i - 1 \in 0 .. n + k
          /\ (i - 1) - n = (i - n) - 1
      BY <1>3, <1>10, <2>2
    <3>2. run[i] = g[i - n] /\ run[i - 1] = g[(i - n) - 1] /\ r[i] = q[i - n]
      BY <1>4, <1>7, <2>2, <3>1
    <3> QED BY <1>6, <3>1, <3>2
  <2> QED BY <2>1, <2>2
<1>11. Takes(run, r, s, t)
  BY <1>4, <1>8, <1>9, <1>10 DEF Takes
<1> QED BY <1>11 DEF Safe, r

(* The first part of a safe series is safe.                                *)
LEMMA SafePrefix ==
  ASSUME NEW p \in Seq(Messages), NEW q \in Seq(Messages), NEW s, NEW t, Safe(p \o q, s, t)
  PROVE  \E u \in States : Safe(p, s, u)
<1> DEFINE n == Len(p)
           k == Len(q)
           r == p \o q
<1>1. PICK f : Takes(f, r, s, t)
  BY DEF Safe
<1>2. n \in Nat /\ k \in Nat
  OBVIOUS
<1>3. Len(r) = n + k /\ \A i \in 1 .. n + k : r[i] = IF i <= n THEN p[i] ELSE q[i - n]
  BY ConcatProperties
<1> HIDE DEF k, r
<1> DEFINE run == [i \in 0 .. n |-> f[i]]
<1>4. /\ f \in [0 .. n + k -> States] /\ f[0] = s
      /\ \A i \in 1 .. n + k : f[i] = Exec(f[i - 1], r[i])
      /\ \A i \in 0 .. n + k : Good(f[i])
  BY <1>1, <1>3 DEF Takes
<1> HIDE DEF n
<1>5. \A i \in 0 .. n : i \in 0 .. n + k
  BY <1>2
<1>6. \A i \in 1 .. n : i \in 1 .. n + k /\ i <= n /\ i - 1 \in 0 .. n /\ i \in 0 .. n
  BY <1>2
<1>7. run \in [0 .. n -> States] /\ run[0] = s /\ run[n] \in States
  BY <1>2, <1>4, <1>5
<1>8. \A i \in 1 .. n : run[i] = Exec(run[i - 1], p[i])
  BY <1>3, <1>4, <1>6
<1>9. \A i \in 0 .. n : Good(run[i])
  BY <1>4, <1>5
<1> HIDE DEF run
<1>10. Takes(run, p, s, run[n])
  BY <1>7, <1>8, <1>9 DEF Takes, n
<1> QED BY <1>7, <1>10 DEF Safe

(* And so is what follows its first message.                               *)
LEMMA SafeTail ==
  ASSUME NEW q \in Seq(Messages), q # <<>>, NEW s, NEW t, Safe(q, s, t)
  PROVE  Safe(Tail(q), Exec(s, Head(q)), t)
<1> DEFINE n == Len(q)
           r == Tail(q)
<1>1. PICK f : Takes(f, q, s, t)
  BY DEF Safe
<1>2. n \in Nat /\ n >= 1 /\ Head(q) = q[1]
  BY EmptySeq
<1>3. Len(r) = n - 1 /\ \A i \in 1 .. n - 1 : r[i] = q[i + 1]
  BY HeadTailProperties
<1>4. /\ f \in [0 .. n -> States] /\ f[0] = s /\ f[n] = t
      /\ \A i \in 1 .. n : f[i] = Exec(f[i - 1], q[i])
      /\ \A i \in 0 .. n : Good(f[i])
  BY <1>1 DEF Takes
<1> HIDE DEF n, r
<1> DEFINE run == [i \in 0 .. n - 1 |-> f[i + 1]]
<1>5. \A i \in 0 .. n - 1 : i + 1 \in 0 .. n /\ i + 1 \in 1 .. n
  BY <1>2
<1>6. \A i \in 1 .. n - 1 : /\ i + 1 \in 1 .. n /\ i \in 0 .. n - 1 /\ i - 1 \in 0 .. n - 1
                            /\ (i - 1) + 1 = i /\ (i + 1) - 1 = i
  BY <1>2
<1>7. run \in [0 .. n - 1 -> States] /\ \A i \in 0 .. n - 1 : Good(run[i])
  BY <1>4, <1>5
<1>8. run[0] = Exec(s, Head(q)) /\ run[n - 1] = t
  <2>1. 0 \in 0 .. n - 1 /\ n - 1 \in 0 .. n - 1 /\ (n - 1) + 1 = n /\ 1 \in 1 .. n /\ 0 + 1 = 1 /\ 1 - 1 = 0
    BY <1>2
  <2>2. run[0] = f[1] /\ run[n - 1] = f[n]
    BY <2>1
  <2>3. f[1] = Exec(f[1 - 1], q[1])
    BY <1>4, <2>1
  <2> HIDE DEF run
  <2> QED BY <1>2, <1>4, <2>1, <2>2, <2>3
<1>9. \A i \in 1 .. n - 1 : run[i] = Exec(run[i - 1], r[i])
  BY <1>3, <1>4, <1>6
<1> HIDE DEF run
<1>10. Takes(run, r, Exec(s, Head(q)), t)
  BY <1>3, <1>7, <1>8, <1>9 DEF Takes
<1> QED BY <1>10 DEF Safe, r

(* A safe series begins and ends in good states, in the same one if it is  *)
(* empty.                                                                  *)
LEMMA SafeEnds ==
  ASSUME NEW q \in Seq(Messages), NEW s, NEW t, Safe(q, s, t)
  PROVE  s \in States /\ t \in States /\ Good(s) /\ Good(t) /\ (q = <<>> => t = s)
<1>1. PICK f : Takes(f, q, s, t)
  BY DEF Safe
<1>2. 0 \in 0 .. Len(q) /\ Len(q) \in 0 .. Len(q) /\ (q = <<>> => Len(q) = 0)
  OBVIOUS
<1> QED BY <1>1, <1>2 DEF Takes

-----------------------------------------------------------------------------
(* The commands of one call.                                               *)

(* Parked is not low.                                                      *)
LEMMA Limits == LowRate \in Nat /\ ParkRate \in Nat /\ ParkRate > LowRate
  BY DEF LowRate, ParkRate

(* Series of one and two messages.                                         *)
LEMMA Short ==
  ASSUME NEW S, NEW a \in S, NEW b \in S
  PROVE  /\ <<>> \in Seq(S) /\ <<a>> \in Seq(S) /\ <<a, b>> \in Seq(S)
         /\ <<a>> # <<>> /\ <<a, b>> # <<>>
         /\ <<a>> \o <<b>> = <<a, b>>
<1>1. <<a>> \in Seq(S) /\ <<b>> \in Seq(S) /\ <<a, b>> \in Seq(S)
  OBVIOUS
<1>2. /\ Len(<<a>>) = 1 /\ Len(<<b>>) = 1 /\ Len(<<a, b>>) = 2
      /\ <<a>>[1] = a /\ <<b>>[1] = b /\ <<a, b>>[1] = a /\ <<a, b>>[2] = b
  OBVIOUS
<1>3. <<a>> # <<>> /\ <<a, b>> # <<>> /\ <<>> \in Seq(S)
  OBVIOUS
<1> DEFINE x == <<a>>
           y == <<b>>
           z == <<a, b>>
           r == x \o y
<1> HIDE DEF x, y, z, r
<1>4. /\ x \in Seq(S) /\ y \in Seq(S) /\ z \in Seq(S)
      /\ Len(x) = 1 /\ Len(y) = 1 /\ Len(z) = 2 /\ x[1] = a /\ y[1] = b /\ z[1] = a /\ z[2] = b
  BY <1>1, <1>2 DEF x, y, z
<1>5. /\ r \in Seq(S) /\ Len(r) = Len(x) + Len(y)
      /\ \A i \in 1 .. Len(x) + Len(y) : r[i] = IF i <= Len(x) THEN x[i] ELSE y[i - Len(x)]
  BY <1>4, ConcatProperties DEF r
<1>6. Len(r) = Len(z) /\ \A i \in 1 .. Len(r) : r[i] = z[i]
  <2>1. \A i \in 1 .. 2 : i = 1 \/ i = 2
    OBVIOUS
  <2>2. 1 <= 1 /\ ~(2 <= 1) /\ 2 - 1 = 1 /\ 1 \in 1 .. 1 + 1 /\ 2 \in 1 .. 1 + 1 /\ 1 + 1 = 2
    OBVIOUS
  <2>3. r[1] = x[1] /\ r[2] = y[1]
    BY <1>4, <1>5, <2>2
  <2> QED BY <1>4, <1>5, <2>1, <2>2, <2>3
<1>7. r = z
  BY <1>4, <1>5, <1>6, SeqEqual
<1> QED BY <1>1, <1>3, <1>7 DEF x, y, z, r

(* The commands are commands.                                              *)
LEMMA ProgramType ==
  ASSUME NEW rate \in Nat, NEW on \in BOOLEAN, NEW fir \in Firs
  PROVE  /\ SetRate(rate) \in Commands /\ SetFir(on) \in Commands
         /\ LoadRx(fir) \in Commands /\ LoadTx(fir) \in Commands
         /\ Prepare(on) \in Seq(Commands) /\ Load(fir) \in Seq(Commands)
         /\ Finish(rate) \in Seq(Commands) /\ Finish(rate) # <<>>
<1>1. \A r \in Nat : SetRate(r) \in Commands
  BY DEF SetRate, Commands
<1>2. \A b \in BOOLEAN : SetFir(b) \in Commands
  BY DEF SetFir, Commands
<1>3. LoadRx(fir) \in Commands /\ LoadTx(fir) \in Commands
  BY DEF LoadRx, LoadTx, Commands
<1>4. Prepare(on) \in Seq(Commands)
  <2>1. <<SetRate(ParkRate)>> \in Seq(Commands) /\ <<SetFir(FALSE)>> \in Seq(Commands) /\ <<>> \in Seq(Commands)
    BY <1>1, <1>2, Limits, Short
  <2>2. \A p, q \in Seq(Commands) : p \o q \in Seq(Commands)
    BY ConcatProperties
  <2> QED BY <2>1, <2>2 DEF Prepare
<1>5. Load(fir) \in Seq(Commands)
  BY <1>3, Short DEF Load
<1>6. Finish(rate) \in Seq(Commands) /\ Finish(rate) # <<>>
  <2>1. SetRate(rate) \in Commands /\ SetFir(TRUE) \in Commands
    BY <1>1, <1>2
  <2> QED BY <2>1, Short DEF Finish
<1> QED BY <1>1, <1>2, <1>3, <1>4, <1>5, <1>6

(* Two messages.                                                           *)
LEMMA SafeTwo ==
  ASSUME NEW s \in States, NEW a \in Messages, NEW b \in Messages,
         Good(s), Good(Exec(s, a)), Good(Exec(Exec(s, a), b))
  PROVE  Safe(<<a, b>>, s, Exec(Exec(s, a), b))
<1>1. Safe(<<a>>, s, Exec(s, a)) /\ Exec(s, a) \in States
  BY SafeOne
<1>2. Safe(<<b>>, Exec(s, a), Exec(Exec(s, a), b))
  BY <1>1, SafeOne
<1>3. <<a>> \o <<b>> = <<a, b>> /\ <<a>> \in Seq(Messages) /\ <<b>> \in Seq(Messages)
  BY Short
<1> QED BY <1>1, <1>2, <1>3, SafeConcat

(* Before the filters are loaded they are off and the rate is not low.     *)
LEMMA PrepareSafe ==
  ASSUME NEW s \in States, Good(s), s.rate = current
  PROVE  \E u \in States : Safe(Prepare(s.on), s, u) /\ ~u.on /\ u.rate > LowRate
<1>1. s.on \in BOOLEAN /\ s.rate \in Nat
  BY DEF States
<1>2. CASE ~s.on
  <2>1. Prepare(s.on) = <<>> /\ s.rate > LowRate
    BY <1>1, <1>2, Limits DEF Prepare, Good
  <2> QED BY <1>2, <2>1, SafeNone
<1>3. CASE s.on /\ current <= LowRate
  <2> DEFINE v == [s EXCEPT !.rate = ParkRate]
             u == [v EXCEPT !.on = FALSE]
  <2>1. v \in States /\ u \in States
    BY Limits DEF States
  <2>2. Exec(s, SetRate(ParkRate)) = v /\ Exec(v, SetFir(FALSE)) = u
    <3> HIDE DEF u, v
    <3>1. Exec(s, SetRate(ParkRate)) = v
      BY Limits DEF Exec, SetRate, v
    <3>2. Exec(v, SetFir(FALSE)) = u
      BY <2>1 DEF Exec, SetFir, u
    <3> QED BY <3>1, <3>2
  <2>3. v.rate = ParkRate /\ u.rate = ParkRate /\ ~u.on /\ v.rx = s.rx /\ v.tx = s.tx /\ v.on
    BY <1>3 DEF States
  <2>4. Good(v) /\ Good(u)
    BY <1>3, <2>3, Limits DEF Good
  <2>5. Prepare(s.on) = <<SetRate(ParkRate), SetFir(FALSE)>>
    <3>1. SetRate(ParkRate) \in Commands /\ SetFir(FALSE) \in Commands
      BY Limits DEF SetRate, SetFir, Commands
    <3>2. <<SetRate(ParkRate)>> \o <<SetFir(FALSE)>> = <<SetRate(ParkRate), SetFir(FALSE)>>
      BY <3>1, Short
    <3> QED BY <1>3, <3>2 DEF Prepare
  <2>6. SetRate(ParkRate) \in Messages /\ SetFir(FALSE) \in Messages
    BY Limits DEF SetRate, SetFir, Messages, Commands
  <2> HIDE DEF u, v
  <2> QED BY <2>1, <2>2, <2>3, <2>4, <2>5, <2>6, SafeTwo, Limits
<1>4. CASE s.on /\ ~(current <= LowRate)
  <2> DEFINE u == [s EXCEPT !.on = FALSE]
  <2>1. u \in States /\ ~u.on /\ u.rate = s.rate /\ s.rate > LowRate
    <3>1. u \in States /\ ~u.on /\ u.rate = s.rate
      BY DEF States
    <3>2. s.rate > LowRate
      BY <1>1, <1>4, Limits
    <3> QED BY <3>1, <3>2
  <2>2. Exec(s, SetFir(FALSE)) = u
    BY DEF Exec, SetFir
  <2>3. Good(u)
    BY <1>1, <2>1, Limits DEF Good
  <2>4. <<>> \o <<SetFir(FALSE)>> = <<SetFir(FALSE)>>
    <3>1. SetFir(FALSE) \in Commands
      BY DEF SetFir, Commands
    <3>2. <<SetFir(FALSE)>> \in Seq(Commands)
      BY <3>1, Short
    <3> QED BY <3>2, ConcatEmptySeq
  <2>5. Prepare(s.on) = <<SetFir(FALSE)>>
    BY <1>4, <2>4 DEF Prepare
  <2>6. SetFir(FALSE) \in Messages
    BY DEF SetFir, Messages, Commands
  <2> HIDE DEF u
  <2> QED BY <2>1, <2>2, <2>3, <2>5, <2>6, SafeOne
<1> QED BY <1>1, <1>2, <1>3, <1>4

(* Loading disabled filters is safe.                                       *)
LEMMA LoadSafe ==
  ASSUME NEW u \in States, ~u.on, u.rate > LowRate, NEW fir \in Firs
  PROVE  \E v \in States : /\ Safe(Load(fir), u, v)
                           /\ ~v.on /\ v.rate > LowRate /\ v.rx = fir /\ v.tx = fir
<1> DEFINE w == [u EXCEPT !.rx = fir]
           v == [w EXCEPT !.tx = fir]
<1>1. w \in States /\ v \in States
  BY DEF States
<1>2. w.rate = u.rate /\ v.rate = u.rate /\ ~w.on /\ ~v.on /\ v.rx = fir /\ v.tx = fir
  BY DEF States
<1>3. u.rate \in Nat
  BY DEF States
<1>4. Good(u) /\ Good(w) /\ Good(v)
  BY <1>2, <1>3, Limits DEF Good
<1>5. Exec(u, LoadRx(fir)) = w
  BY DEF Exec, LoadRx
<1>6. Exec(w, LoadTx(fir)) = v
  BY DEF Exec, LoadTx
<1>7. LoadRx(fir) \in Messages /\ LoadTx(fir) \in Messages
  BY DEF LoadRx, LoadTx, Messages, Commands
<1> HIDE DEF w, v
<1>8. Safe(<<LoadRx(fir), LoadTx(fir)>>, u, v)
  BY <1>1, <1>4, <1>5, <1>6, <1>7, SafeTwo
<1> QED BY <1>1, <1>2, <1>8 DEF Load

(* The order of the last two commands is the one the rate needs.           *)
LEMMA FinishSafe ==
  ASSUME NEW v \in States, ~v.on, v.rate > LowRate,
         NEW rate \in Nat, v.rx = FirOf(rate), v.tx = FirOf(rate)
  PROVE  Safe(Finish(rate), v, Target(rate))
<1>1. v.rate \in Nat /\ Good(v)
  BY Limits DEF States, Good
<1>2. SetRate(rate) \in Messages /\ SetFir(TRUE) \in Messages
  BY DEF SetRate, SetFir, Messages, Commands
<1>3. Good(Target(rate))
  BY DEF Good, Target
<1>4. CASE rate <= LowRate
  <2> DEFINE w == [v EXCEPT !.on = TRUE]
  <2>1. w \in States /\ w.on /\ w.rx = v.rx /\ w.tx = v.tx
    BY DEF States
  <2>2. Exec(v, SetFir(TRUE)) = w
    BY DEF Exec, SetFir
  <2>3. Exec(w, SetRate(rate)) = Target(rate)
    BY DEF Exec, SetRate, Target, States
  <2>4. Good(w)
    BY <2>1 DEF Good
  <2> HIDE DEF w
  <2>5. Finish(rate) = <<SetFir(TRUE), SetRate(rate)>>
    BY <1>4 DEF Finish
  <2> QED BY <1>1, <1>2, <1>3, <2>1, <2>2, <2>3, <2>4, <2>5, SafeTwo
<1>5. CASE ~(rate <= LowRate)
  <2> DEFINE w == [v EXCEPT !.rate = rate]
  <2>1. w \in States /\ ~w.on /\ w.rate = rate
    BY DEF States
  <2>2. Exec(v, SetRate(rate)) = w
    BY DEF Exec, SetRate
  <2>3. Exec(w, SetFir(TRUE)) = Target(rate)
    BY DEF Exec, SetFir, Target, States
  <2>4. Good(w)
    BY <1>5, <2>1 DEF Good
  <2> HIDE DEF w
  <2>5. Finish(rate) = <<SetRate(rate), SetFir(TRUE)>>
    BY <1>5 DEF Finish
  <2> QED BY <1>1, <1>2, <1>3, <2>1, <2>2, <2>3, <2>4, <2>5, SafeTwo
<1> QED BY <1>4, <1>5

(* The whole call, from whatever good state the device is in.              *)
LEMMA ProgramSafe ==
  ASSUME NEW s \in States, Good(s), s.rate = current, NEW rate \in Nat
  PROVE  /\ Prepare(s.on) \o Load(FirOf(rate)) \o Finish(rate) \in Seq(Commands)
         /\ Prepare(s.on) \o Load(FirOf(rate)) \o Finish(rate) # <<>>
         /\ Safe(Prepare(s.on) \o Load(FirOf(rate)) \o Finish(rate), s, Target(rate))
<1> DEFINE p == Prepare(s.on)
           l == Load(FirOf(rate))
           f == Finish(rate)
<1>1. FirOf(rate) \in Firs /\ s.on \in BOOLEAN
  BY FirType DEF States
<1>2. p \in Seq(Commands) /\ l \in Seq(Commands) /\ f \in Seq(Commands) /\ f # <<>>
  BY <1>1, ProgramType
<1>3. PICK u \in States : Safe(p, s, u) /\ ~u.on /\ u.rate > LowRate
  BY PrepareSafe
<1>4. PICK v \in States : /\ Safe(l, u, v)
                          /\ ~v.on /\ v.rate > LowRate /\ v.rx = FirOf(rate) /\ v.tx = FirOf(rate)
  BY <1>1, <1>3, LoadSafe
<1>5. Safe(f, v, Target(rate))
  BY <1>4, FinishSafe
<1> HIDE DEF p, l, f
<1>6. p \in Seq(Messages) /\ l \in Seq(Messages) /\ f \in Seq(Messages)
  BY <1>2 DEF Messages
<1>7. p \o l \in Seq(Messages) /\ p \o l \in Seq(Commands)
  BY <1>2, <1>6, ConcatProperties
<1>8. Safe(p \o l, s, v)
  BY <1>3, <1>4, <1>6, SafeConcat
<1>9. Safe((p \o l) \o f, s, Target(rate))
  BY <1>5, <1>6, <1>7, <1>8, SafeConcat
<1>10. (p \o l) \o f \in Seq(Commands) /\ (p \o l) \o f # <<>>
  BY <1>2, <1>7, ConcatProperties, ConcatEqualIffEmpty
<1> QED BY <1>9, <1>10 DEF p, l, f

-----------------------------------------------------------------------------
(* The steps.                                                              *)

(* The first message of two series is that of the first one.               *)
LEMMA FirstOfBoth ==
  ASSUME NEW S, NEW p \in Seq(S), NEW q \in Seq(S), p # <<>>
  PROVE  Head(p \o q) = Head(p) /\ Tail(p \o q) = Tail(p) \o q /\ p \o q # <<>>
<1> DEFINE n == Len(p)
           k == Len(q)
           r == p \o q
           x == Tail(r)
           h == Tail(p)
           y == h \o q
<1>1. n \in Nat /\ k \in Nat /\ n >= 1 /\ Head(p) = p[1]
  BY EmptySeq
<1>2. /\ r \in Seq(S) /\ Len(r) = n + k
      /\ \A i \in 1 .. n + k : r[i] = IF i <= n THEN p[i] ELSE q[i - n]
  BY ConcatProperties
<1>3. h \in Seq(S) /\ Len(h) = n - 1 /\ \A i \in 1 .. n - 1 : h[i] = p[i + 1]
  BY HeadTailProperties
<1>4. r # <<>>
  <2> HIDE DEF r, n, k
  <2> QED BY <1>1, <1>2
<1>5. Head(r) = r[1]
  <2> HIDE DEF r, n, k
  <2> QED BY <1>2, <1>4
<1>6. x \in Seq(S) /\ Len(x) = (n + k) - 1 /\ \A i \in 1 .. (n + k) - 1 : x[i] = r[i + 1]
  <2> HIDE DEF r
  <2> QED BY <1>2, <1>4, HeadTailProperties
<1> HIDE DEF h
<1>7. /\ y \in Seq(S) /\ Len(y) = (n - 1) + k
      /\ \A i \in 1 .. (n - 1) + k : y[i] = IF i <= n - 1 THEN h[i] ELSE q[i - (n - 1)]
  <2>1. h \in Seq(S)
    BY <1>3
  <2>2. /\ y \in Seq(S) /\ Len(y) = Len(h) + k
        /\ \A i \in 1 .. Len(h) + k : y[i] = IF i <= Len(h) THEN h[i] ELSE q[i - Len(h)]
    BY <2>1, ConcatProperties
  <2> HIDE DEF y, n, k
  <2> QED BY <1>3, <2>2
<1> HIDE DEF r, n, k, x, y
<1>8. Len(x) = Len(y)
  BY <1>1, <1>6, <1>7
<1>9. ASSUME NEW i \in 1 .. Len(x) PROVE x[i] = y[i]
  <2>1. i \in 1 .. (n + k) - 1 /\ i \in 1 .. (n - 1) + k /\ i + 1 \in 1 .. n + k
    BY <1>1, <1>6, <1>9
  <2>2. x[i] = r[i + 1]
    BY <1>6, <2>1
  <2>3. CASE i <= n - 1
    <3>1. i + 1 <= n /\ i \in 1 .. n - 1
      BY <1>1, <2>1, <2>3
    <3> QED BY <1>2, <1>3, <1>7, <2>1, <2>2, <2>3, <3>1
  <2>4. CASE ~(i <= n - 1)
    <3>1. ~(i + 1 <= n) /\ (i + 1) - n = i - (n - 1)
      BY <1>1, <2>1, <2>4
    <3> QED BY <1>2, <1>7, <2>1, <2>2, <2>4, <3>1
  <2> QED BY <2>3, <2>4
<1>10. x = y
  BY <1>6, <1>7, <1>8, <1>9, SeqEqual
<1>11. r[1] = p[1]
  <2>1. 1 \in 1 .. n + k /\ 1 <= n
    BY <1>1
  <2> QED BY <1>2, <2>1
<1> QED BY <1>1, <1>4, <1>5, <1>10, <1>11 DEF r, x, y, h

(* A series is its first message and the rest.                             *)
LEMMA HeadThenTail ==
  ASSUME NEW S, NEW q \in Seq(S), q # <<>>
  PROVE  <<Head(q)>> \o Tail(q) = q
<1> DEFINE n == Len(q)
           x == <<Head(q)>>
           y == Tail(q)
           r == x \o y
<1>1. n \in Nat /\ n >= 1 /\ Head(q) = q[1] /\ Head(q) \in S
  BY EmptySeq, HeadTailProperties
<1>2. x \in Seq(S) /\ Len(x) = 1 /\ x[1] = q[1]
  BY <1>1
<1>3. y \in Seq(S) /\ Len(y) = n - 1 /\ \A i \in 1 .. n - 1 : y[i] = q[i + 1]
  BY HeadTailProperties
<1> HIDE DEF x, y
<1>4. /\ r \in Seq(S) /\ Len(r) = Len(x) + Len(y)
      /\ \A i \in 1 .. Len(x) + Len(y) : r[i] = IF i <= Len(x) THEN x[i] ELSE y[i - Len(x)]
  <2>1. x \in Seq(S) /\ y \in Seq(S)
    BY <1>2, <1>3
  <2> QED BY <2>1, ConcatProperties
<1> HIDE DEF r, n
<1>5. Len(r) = n
  BY <1>1, <1>2, <1>3, <1>4
<1>6. ASSUME NEW i \in 1 .. n PROVE r[i] = q[i]
  <2>1. CASE i = 1
    <3>1. 1 \in 1 .. Len(x) + Len(y) /\ 1 <= Len(x)
      BY <1>1, <1>2, <1>3
    <3> QED BY <1>2, <1>4, <2>1, <3>1
  <2>2. CASE i # 1
    <3>1. i \in 1 .. Len(x) + Len(y) /\ ~(i <= Len(x)) /\ i - Len(x) = i - 1 /\ i - 1 \in 1 .. n - 1 /\ (i - 1) + 1 = i
      BY <1>1, <1>2, <1>3, <1>6, <2>2
    <3> QED BY <1>3, <1>4, <3>1
  <2> QED BY <2>1, <2>2
<1>7. r = q
  BY <1>4, <1>5, <1>6, SeqEqual DEF n
<1> QED BY <1>7 DEF r, x, y

(* The first message of a series may go to the end of the one before it.   *)
LEMMA FirstMoves ==
  ASSUME NEW S, NEW p \in Seq(S), NEW q \in Seq(S), q # <<>>
  PROVE  Append(p, Head(q)) \o Tail(q) = p \o q
<1>1. Head(q) \in S /\ Tail(q) \in Seq(S)
  BY HeadTailProperties
<1>2. <<Head(q)>> \in Seq(S) /\ Append(p, Head(q)) = p \o <<Head(q)>>
  BY <1>1, Short, AppendIsConcat
<1>3. <<Head(q)>> \o Tail(q) = q
  BY HeadThenTail
<1> QED BY <1>1, <1>2, <1>3, ConcatAssociative

(* Commands are messages, and a call's rest follows what is under way.     *)
LEMMA WholeCourse ==
  ASSUME Types
  PROVE  /\ Seq(Commands) \subseteq Seq(Messages)
         /\ todo \in Seq(Messages) /\ toDev \o todo \in Seq(Messages)
         /\ todo = <<>> => toDev \o todo = toDev
<1>1. Seq(Commands) \subseteq Seq(Messages)
  BY DEF Messages
<1>2. todo \in Seq(Messages) /\ toDev \in Seq(Messages)
  BY <1>1 DEF Types
<1> QED BY <1>1, <1>2, ConcatProperties, ConcatEmptySeq

(* Questions are no commands and leave the device as it is.                *)
LEMMA QuestionIs ==
  /\ \A m \in Commands : m.do \notin {"get_rate", "get_fir"}
  /\ \A m \in Questions : m \in Messages /\ m.do \in {"get_rate", "get_fir"} /\ \A s : Exec(s, m) = s
  /\ Question("get_rate") \in Questions /\ Question("get_fir") \in Questions
  /\ Question("get_rate").do = "get_rate" /\ Question("get_fir").do = "get_fir"
  BY DEF Commands, Questions, Messages, Question, Exec

(* The device starts in a good state.                                      *)
LEMMA RateStarts == Init => IInv
<1> SUFFICES ASSUME Init PROVE IInv
  OBVIOUS
<1>1. PICK r \in Rates, on \in BOOLEAN :
        (r <= LowRate => on) /\ dev = [rate |-> r, on |-> on, rx |-> FirOf(r), tx |-> FirOf(r)]
  BY DEF Init
<1>2. r \in Nat /\ want \in Nat /\ FirOf(r) \in Firs
  BY FirType, RateAssumption DEF Init
<1>3. dev \in States /\ Good(dev)
  BY <1>1, <1>2 DEF States, Good
<1>4. Types
  BY <1>2, <1>3, EmptySeq DEF Init, Types
<1>5. Phase
  BY EmptySeq DEF Init, Phase, NoQuestions
<1>6. toDev \o todo = <<>>
  BY <1>4, WholeCourse DEF Init
<1>7. Safe(toDev \o todo, dev, dev)
  BY <1>3, <1>6, SafeNone
<1>8. Rest /\ Ends
  BY DEF Init, Rest, Ends
<1> QED BY <1>3, <1>4, <1>5, <1>7, <1>8 DEF IInv, Course

(* The device is in a good state now.                                      *)
LEMMA DevGood ==
  ASSUME Tame
  PROVE  dev \in States /\ Good(dev)
<1>1. PICK t \in States : Safe(toDev \o todo, dev, t)
  BY DEF Tame, Course
<1> QED BY <1>1, WholeCourse, SafeEnds DEF Tame

(* The course while no command moves.                                      *)
LEMMA CourseKept ==
  ASSUME Tame, UNCHANGED <<toDev, todo, dev>>
  PROVE  Course'
  BY DEF Tame, Course

(* A call begins with its questions.                                       *)
LEMMA CallStep ==
  ASSUME Tame, Types', NEW rate \in Rates, Call(rate)
  PROVE  Tame'
<1>1. Phase'
  BY DEF Tame, Phase, NoQuestions, Call
<1>2. Course'
  BY CourseKept DEF Call
<1> QED BY <1>1, <1>2 DEF Tame

(* A question goes behind what is under way and changes nothing.           *)
LEMMA AskStep ==
  ASSUME Tame, Types', Ask
  PROVE  Tame'
<1>1. CASE pc' = "idle" /\ result' = "failed" /\ UNCHANGED toDev
  <2>1. UNCHANGED <<want, current, todo, toHost, dev>> /\ pc \in {"get_rate", "get_fir"}
    BY DEF Ask
  <2>2. Phase'
    BY <1>1, <2>1, EmptySeq DEF Tame, Phase, NoQuestions
  <2>3. Course'
    BY <1>1, <2>1, CourseKept
  <2> QED BY <2>2, <2>3 DEF Tame
<1>2. CASE toDev' = Append(toDev, Question(pc)) /\ pc' = IF pc = "get_rate" THEN "wait_rate" ELSE "wait_fir"
  <2>1. UNCHANGED <<want, current, todo, toHost, dev>> /\ pc \in {"get_rate", "get_fir"}
    BY DEF Ask
  <2> DEFINE m == Question(pc)
  <2>2. m \in Questions /\ m \in Messages /\ \A s : Exec(s, m) = s
    BY <2>1, QuestionIs DEF Question, Questions
  <2>3. toDev \in Seq(Messages) /\ todo = <<>> /\ todo' = <<>>
    BY <2>1 DEF Tame, Types, Phase
  <2>4. Append(toDev, m) \in Seq(Messages) /\ Append(toDev, m) = toDev \o <<m>> /\ <<m>> \in Seq(Messages)
    <3> HIDE DEF m
    <3>1. <<m>> \in Seq(Messages)
      BY <2>2, Short
    <3> QED BY <2>2, <2>3, <3>1, AppendProperties, AppendIsConcat
  <2>5. Phase'
    <3>1. CASE pc = "get_rate"
      <4>1. toDev \in Seq(Commands) /\ toHost' = <<>> /\ toDev' = Append(toDev, Question("get_rate")) /\ pc' = "wait_rate"
        BY <1>2, <2>1, <3>1 DEF Tame, Phase, NoQuestions
      <4> QED BY <2>3, <4>1 DEF Phase
    <3>2. CASE pc = "get_fir"
      <4>1. toDev = <<>> /\ toHost' = <<>> /\ toDev' = Append(<<>>, Question("get_fir")) /\ pc' = "wait_fir" /\ current' = dev'.rate
        BY <1>2, <2>1, <3>2 DEF Tame, Phase
      <4>2. toDev' = <<Question("get_fir")>>
        BY <4>1
      <4> QED BY <2>3, <4>1, <4>2 DEF Phase
    <3> QED BY <2>1, <3>1, <3>2
  <2>6. Course'
    <3>1. PICK t \in States : Safe(toDev, dev, t)
      BY <2>3, WholeCourse DEF Tame, Course
    <3>2. Good(t)
      BY <2>3, <3>1, SafeEnds
    <3>3. Safe(<<m>>, t, t)
      <4> HIDE DEF m
      <4> QED BY <2>2, <3>2, SafeOne
    <3>4. Safe(Append(toDev, m), dev, t)
      <4> HIDE DEF m
      <4> QED BY <2>3, <2>4, <3>1, <3>3, SafeConcat
    <3>5. toDev' \o todo' = Append(toDev, m)
      BY <1>2, <2>3, <2>4, ConcatEmptySeq
    <3>6. dev' = dev
      BY <1>2, <2>1
    <3> QED BY <3>4, <3>5, <3>6 DEF Course
  <2> QED BY <2>5, <2>6 DEF Tame
<1> QED BY <1>1, <1>2 DEF Ask, Goto, Return, Question

(* The answer is the rate the device still has.                            *)
LEMMA GotRateStep ==
  ASSUME Tame, Types', GotRate
  PROVE  Tame'
<1>1. toHost = <<dev.rate>> /\ toDev = <<>> /\ todo = <<>>
  BY DEF Tame, Phase, GotRate
<1>2. current' = dev.rate /\ toHost' = <<>> /\ pc' = "get_fir" /\ UNCHANGED <<want, todo, toDev, dev>>
  BY <1>1 DEF GotRate, Goto
<1>3. Phase'
  BY <1>1, <1>2 DEF Phase
<1>4. Course'
  BY <1>2, CourseKept
<1> QED BY <1>3, <1>4 DEF Tame

(* The commands of the call start from the state the answers describe.     *)
LEMMA GotFirStep ==
  ASSUME Tame, Types', GotFir
  PROVE  Tame'
<1> DEFINE p == Prepare(dev.on) \o Load(FirOf(want)) \o Finish(want)
<1>1. toHost = <<IF dev.on THEN 1 ELSE 0>> /\ toDev = <<>> /\ current = dev.rate
  BY DEF Tame, Phase, GotFir
<1>2. dev.on \in BOOLEAN /\ want \in Nat
  BY DEF Tame, Types, States
<1>3. Prepare(IsOn(Head(toHost))) = Prepare(dev.on)
  <2>1. IsOn(Head(toHost)) <=> dev.on
    BY <1>1 DEF IsOn
  <2> QED BY <2>1 DEF Prepare
<1>4. /\ todo' = p /\ toHost' = <<>> /\ pc' = "send"
      /\ UNCHANGED <<want, current, toDev, dev>>
  <2>1. Tail(toHost) = <<>>
    BY <1>1
  <2> QED BY <1>3, <2>1 DEF GotFir, Goto
<1>5. p \in Seq(Commands) /\ p # <<>> /\ Safe(p, dev, Target(want))
  BY <1>1, <1>2, DevGood, ProgramSafe
<1> HIDE DEF p
<1>6. Phase'
  BY <1>1, <1>4, <1>5, EmptySeq DEF Phase, NoQuestions
<1>7. toDev' \o todo' = p
  BY <1>1, <1>4, <1>5, ConcatEmptySeq
<1>8. Course'
  BY <1>2, <1>4, <1>5, <1>7, FirType DEF Course
<1> QED BY <1>6, <1>8 DEF Tame

(* A call that gives up a question leaves nothing under way.               *)
LEMMA RecvfromFailsStep ==
  ASSUME Tame, Types', RecvfromFails
  PROVE  Tame'
<1>1. toDev = <<>> /\ toHost' = <<>> /\ todo = <<>>
  <2>1. pc \in {"wait_rate", "wait_fir"} /\ toHost # <<>> /\ toHost' = Tail(toHost)
    BY DEF RecvfromFails
  <2>2. /\ toHost = <<dev.rate>> \/ toHost = <<IF dev.on THEN 1 ELSE 0>>
        /\ toDev = <<>> /\ todo = <<>>
    BY <2>1 DEF Tame, Phase
  <2>3. \A a : Tail(<<a>>) = <<>>
    OBVIOUS
  <2> QED BY <2>1, <2>2, <2>3
<1>2. pc' = "idle" /\ result' = "failed" /\ UNCHANGED <<want, current, todo, toDev, dev>>
  BY DEF RecvfromFails, Return
<1>3. Phase'
  BY <1>1, <1>2, EmptySeq DEF Phase, NoQuestions
<1>4. Course'
  BY <1>2, CourseKept
<1> QED BY <1>3, <1>4 DEF Tame

(* Nothing comes after a time-out that was not too early.                  *)
LEMMA TimeOutStep ==
  ASSUME Tame, Types', TimeOut, clean'
  PROVE  Tame'
<1>1. toDev = <<>> /\ toHost = <<>> /\ todo = <<>>
  <2>1. pc # "send"
    BY DEF TimeOut
  <2> QED BY <2>1 DEF Tame, Phase, TimeOut
<1>2. pc' = "idle" /\ result' = "timed_out" /\ UNCHANGED <<want, current, todo, toDev, toHost, dev>>
  BY DEF TimeOut, Return
<1>3. Phase'
  BY <1>1, <1>2, EmptySeq DEF Phase, NoQuestions
<1>4. Course'
  BY <1>2, CourseKept
<1> QED BY <1>3, <1>4 DEF Tame

(* A command that is sent moves from the rest of the call to the commands  *)
(* under way; a call given up leaves a safe first part of its commands.    *)
LEMMA SendStep ==
  ASSUME Tame, Types', Send
  PROVE  Tame'
<1>1. /\ todo \in Seq(Commands) /\ todo # <<>> /\ toDev \in Seq(Commands) /\ toHost = <<>>
      /\ UNCHANGED <<want, current, toHost, dev>>
  BY DEF Tame, Types, Phase, NoQuestions, Send
<1>2. PICK t \in States : Safe(toDev \o todo, dev, t)
  BY DEF Tame, Course
<1>3. CASE toDev' = Append(toDev, Head(todo)) /\ todo' = Tail(todo)
  <2>1. /\ Head(todo) \in Commands /\ Tail(todo) \in Seq(Commands)
        /\ Append(toDev, Head(todo)) \in Seq(Commands)
    BY <1>1, HeadTailProperties, AppendProperties
  <2>2. toDev' \o todo' = toDev \o todo
    BY <1>1, <1>3, FirstMoves
  <2>3. IF todo' = <<>> THEN pc' = "idle" /\ result' = "ok" ELSE pc' = "send"
    BY <1>3 DEF Send, Return, Goto, SendFails
  <2>4. Phase'
    BY <1>1, <1>3, <2>1, <2>3 DEF Phase, NoQuestions
  <2>5. Course'
    BY <1>1, <1>2, <2>2 DEF Course
  <2> QED BY <2>4, <2>5 DEF Tame
<1>4. CASE SendFails /\ UNCHANGED toDev
  <2>1. todo' = <<>> /\ toDev' = toDev /\ pc' = "idle" /\ result' = "failed"
    BY <1>4 DEF SendFails, Return
  <2>2. Phase'
    BY <1>1, <2>1 DEF Phase, NoQuestions
  <2>3. PICK u \in States : Safe(toDev, dev, u)
    BY <1>1, <1>2, WholeCourse, SafePrefix DEF Tame
  <2>4. toDev' \o todo' = toDev
    BY <1>1, <2>1, ConcatEmptySeq
  <2>5. Course'
    BY <1>1, <2>1, <2>3, <2>4 DEF Course
  <2> QED BY <2>2, <2>5 DEF Tame
<1> QED BY <1>3, <1>4 DEF Send

(* The first message of a series of commands and a question.               *)
LEMMA QuestionLast ==
  ASSUME NEW q \in Seq(Commands), NEW m \in Questions
  PROVE  \/ q = <<>> /\ Head(Append(q, m)) = m /\ Tail(Append(q, m)) = <<>>
         \/ /\ q # <<>> /\ Head(Append(q, m)) \in Commands
            /\ Tail(q) \in Seq(Commands) /\ Tail(Append(q, m)) = Append(Tail(q), m)
<1>1. q \in Seq(Messages) /\ m \in Messages /\ <<m>> \in Seq(Messages)
  BY Short DEF Messages
<1>2. Append(q, m) = q \o <<m>>
  BY <1>1, AppendIsConcat
<1>3. CASE q = <<>>
  <2>1. Append(q, m) = <<m>>
    BY <1>1, <1>2, <1>3, ConcatEmptySeq
  <2>2. Head(<<m>>) = m /\ Tail(<<m>>) = <<>>
    OBVIOUS
  <2> QED BY <1>3, <2>1, <2>2
<1>4. CASE q # <<>>
  <2>1. Head(q \o <<m>>) = Head(q) /\ Tail(q \o <<m>>) = Tail(q) \o <<m>>
    BY <1>1, <1>4, FirstOfBoth
  <2>2. Head(q) \in Commands /\ Tail(q) \in Seq(Commands)
    BY <1>4, HeadTailProperties
  <2>3. Tail(q) \in Seq(Messages)
    BY <2>2 DEF Messages
  <2>4. Append(Tail(q), m) = Tail(q) \o <<m>>
    BY <1>1, <2>3, AppendIsConcat
  <2> QED BY <1>2, <1>4, <2>1, <2>2, <2>4
<1> QED BY <1>3, <1>4

(* The device takes the next message; if that is the question of the call, *)
(* it is the last one and its answer is true.                              *)
LEMMA DeviceStep ==
  ASSUME Tame, Types', Device
  PROVE  Tame'
<1> DEFINE m == Head(toDev)
           answer == CASE m.do = "get_rate" -> Append(toHost, dev.rate)
                       [] m.do = "get_fir"  -> Append(toHost, IF dev.on THEN 1 ELSE 0)
                       [] OTHER             -> toHost
<1>1. /\ toDev # <<>> /\ toDev' = Tail(toDev) /\ dev' = Exec(dev, m) /\ toHost' = answer
      /\ UNCHANGED <<pc, want, current, todo, result>>
  BY DEF Device, Exec
<1>2. toDev \in Seq(Messages) /\ m \in Messages /\ Tail(toDev) \in Seq(Messages) /\ toHost \in Seq(Nat)
  BY <1>1, HeadTailProperties DEF Tame, Types
<1>3. dev \in States /\ Good(dev) /\ dev.rate \in Nat /\ dev.on \in BOOLEAN
  BY DevGood DEF States
<1>4. /\ m \in Commands => toHost' = toHost
      /\ m = Question("get_rate") => toHost' = Append(toHost, dev.rate) /\ dev' = dev
      /\ m = Question("get_fir") => toHost' = Append(toHost, IF dev.on THEN 1 ELSE 0) /\ dev' = dev
  <2>1. CASE m \in Commands
    BY <1>1, <2>1, QuestionIs DEF Question
  <2>2. CASE m = Question("get_rate")
    <3> HIDE DEF m
    <3> QED BY <1>1, <2>2, QuestionIs
  <2>3. CASE m = Question("get_fir")
    <3>1. "get_rate" # "get_fir" /\ Question("get_fir").do = "get_fir" /\ Question("get_fir") \in Questions
      BY QuestionIs
    <3> HIDE DEF m
    <3> QED BY <1>1, <2>3, <3>1, QuestionIs
  <2> QED BY <2>1, <2>2, <2>3, QuestionIs
<1>5. m \in Commands \/ m = Question("get_rate") \/ m = Question("get_fir")
  BY <1>2 DEF Messages, Questions
<1> HIDE DEF m, answer
<1>6. Phase'
  <2>1. todo' = todo /\ pc' = pc /\ current' = current /\ (pc # "send" => todo = <<>>) /\ (pc = "send" => todo # <<>>)
    BY <1>1 DEF Tame, Phase
  <2>2. CASE pc \in {"idle", "get_rate", "send"}
    <3>1. toDev \in Seq(Commands) /\ toHost = <<>>
      BY <2>2 DEF Tame, Phase, NoQuestions
    <3>2. m \in Commands /\ Tail(toDev) \in Seq(Commands)
      BY <1>1, <3>1, HeadTailProperties DEF m
    <3> QED BY <1>1, <1>4, <2>1, <2>2, <3>1, <3>2 DEF Phase, NoQuestions
  <2>3. CASE pc = "wait_rate"
    <3>1. toHost = <<>> /\ \E q \in Seq(Commands) : toDev = Append(q, Question("get_rate"))
      BY <1>1, <2>3 DEF Tame, Phase
    <3>2. PICK q \in Seq(Commands) : toDev = Append(q, Question("get_rate"))
      BY <3>1
    <3>3. Question("get_rate") \in Questions
      BY QuestionIs
    <3>4. CASE q = <<>> /\ m = Question("get_rate") /\ Tail(toDev) = <<>>
      <4>1. toHost' = <<dev'.rate>> /\ toDev' = <<>>
        <5>1. Append(<<>>, dev.rate) = <<dev.rate>>
          OBVIOUS
        <5> QED BY <1>1, <1>4, <3>1, <3>4, <5>1
      <4> QED BY <2>1, <2>3, <4>1 DEF Phase
    <3>5. CASE m \in Commands /\ Tail(q) \in Seq(Commands) /\ Tail(toDev) = Append(Tail(q), Question("get_rate"))
      <4>1. toHost' = <<>> /\ \E p \in Seq(Commands) : toDev' = Append(p, Question("get_rate"))
        BY <1>1, <1>4, <3>1, <3>5
      <4> QED BY <2>1, <2>3, <4>1 DEF Phase
    <3> QED BY <3>2, <3>3, <3>4, <3>5, QuestionLast DEF m
  <2>4. CASE pc = "get_fir"
    BY <1>1, <2>4 DEF Tame, Phase
  <2>5. CASE pc = "wait_fir"
    <3>1. toHost = <<>> /\ toDev = <<Question("get_fir")>> /\ current = dev.rate
      BY <1>1, <2>5 DEF Tame, Phase
    <3>2. \A a : Head(<<a>>) = a /\ Tail(<<a>>) = <<>> /\ Append(<<>>, a) = <<a>>
      OBVIOUS
    <3>3. m = Question("get_fir") /\ toDev' = <<>>
      BY <1>1, <3>1, <3>2 DEF m
    <3>4. dev' = dev /\ toHost' = <<IF dev'.on THEN 1 ELSE 0>>
      BY <1>4, <3>1, <3>2, <3>3
    <3> QED BY <2>1, <2>5, <3>1, <3>3, <3>4 DEF Phase
  <2> QED BY <2>2, <2>3, <2>4, <2>5 DEF Tame, Types
<1>7. Course'
  <2>1. PICK t \in States : Safe(toDev \o todo, dev, t)
    BY DEF Tame, Course
  <2>2. todo \in Seq(Messages) /\ toDev \o todo \in Seq(Messages)
    BY WholeCourse DEF Tame
  <2>3. /\ toDev \o todo # <<>> /\ Head(toDev \o todo) = m
        /\ Tail(toDev \o todo) = Tail(toDev) \o todo
    BY <1>1, <1>2, <2>2, FirstOfBoth DEF m
  <2>4. Safe(Tail(toDev) \o todo, Exec(dev, m), t)
    BY <2>1, <2>2, <2>3, SafeTail
  <2>5. Safe(toDev' \o todo', dev', t)
    BY <1>1, <2>4
  <2> QED BY <1>1, <2>1, <2>5 DEF Course
<1> QED BY <1>6, <1>7 DEF Tame

(* What gets lost is the question of the call, or its answer.              *)
LEMMA LoseStep ==
  ASSUME Tame, Types', Lose, clean'
  PROVE  Tame'
<1>1. /\ UNCHANGED <<pc, want, current, todo, result, dev>>
      /\ \/ /\ toDev # <<>> /\ Head(toDev).do \in {"get_rate", "get_fir"}
            /\ toDev' = Tail(toDev) /\ toHost' = toHost
         \/ toHost # <<>> /\ toHost' = Tail(toHost) /\ toDev' = toDev
  BY DEF Lose, LoseQuestion, LoseAnswer, LoseCommand
<1>2. Seq(Commands) \subseteq Seq(Messages) /\ toDev \in Seq(Messages)
  BY WholeCourse DEF Tame, Types
<1>3. /\ pc \in {"wait_rate", "wait_fir"} /\ toDev' = <<>> /\ toHost' = <<>> /\ todo = <<>>
      /\ pc = "wait_fir" => current = dev.rate
  <2>1. CASE pc \in {"idle", "get_rate", "send", "get_fir"}
    <3>1. toDev \in Seq(Commands) /\ toHost = <<>>
      BY <2>1, EmptySeq DEF Tame, Phase, NoQuestions
    <3>2. toDev # <<>> => Head(toDev) \in Commands
      BY <3>1, HeadTailProperties
    <3> QED BY <1>1, <3>1, <3>2, QuestionIs
  <2>2. \A a : Tail(<<a>>) = <<>>
    OBVIOUS
  <2>3. CASE pc = "wait_rate"
    <3>1. todo = <<>>
      BY <2>3 DEF Tame, Phase
    <3>2. CASE toHost = <<>> /\ toDev = <<>>
      BY <1>1, <3>2
    <3>3. CASE toHost = <<>> /\ \E q \in Seq(Commands) : toDev = Append(q, Question("get_rate"))
      <4>1. PICK q \in Seq(Commands) : toDev = Append(q, Question("get_rate"))
        BY <3>3
      <4>2. Head(toDev) \notin Commands
        BY <1>1, <3>3, QuestionIs
      <4>3. Tail(toDev) = <<>>
        BY <4>1, <4>2, QuestionIs, QuestionLast
      <4> QED BY <1>1, <2>3, <3>1, <3>3, <4>3
    <3>4. CASE toHost = <<dev.rate>> /\ toDev = <<>>
      BY <1>1, <2>2, <2>3, <3>1, <3>4
    <3> QED BY <2>3, <3>2, <3>3, <3>4 DEF Tame, Phase
  <2>4. CASE pc = "wait_fir"
    <3>1. /\ todo = <<>> /\ current = dev.rate
          /\ \/ toHost = <<>> /\ toDev = <<>>
             \/ toHost = <<>> /\ toDev = <<Question("get_fir")>>
             \/ toHost = <<IF dev.on THEN 1 ELSE 0>> /\ toDev = <<>>
      BY <2>4 DEF Tame, Phase
    <3> QED BY <1>1, <2>2, <2>4, <3>1
  <2> QED BY <2>1, <2>3, <2>4 DEF Tame, Types
<1>4. Phase'
  <2>1. pc' = "wait_rate" \/ (pc' = "wait_fir" /\ current' = dev'.rate)
    BY <1>1, <1>3
  <2> QED BY <1>1, <1>3, <2>1 DEF Phase
<1>5. Course'
  <2>1. Safe(<<>>, dev, dev) /\ dev \in States
    BY DevGood, SafeNone
  <2>2. toDev' \o todo' = <<>>
    BY <1>1, <1>3, <1>2, EmptySeq, ConcatEmptySeq
  <2> QED BY <1>1, <2>1, <2>2 DEF Course
<1> QED BY <1>4, <1>5 DEF Tame

-----------------------------------------------------------------------------
(* Types are kept, whatever the answers are.                               *)
LEMMA TypesStep ==
  ASSUME Types, Rest, Next
  PROVE  Types'
<1>1. toDev \in Seq(Messages) /\ todo \in Seq(Commands) /\ toHost \in Seq(Nat) /\ dev \in States
      /\ dev.rate \in Nat /\ dev.on \in BOOLEAN /\ Seq(Commands) \subseteq Seq(Messages)
  BY WholeCourse DEF Types, States
<1>2. ASSUME NEW rate \in Rates, Call(rate) PROVE Types'
  BY <1>2, RateAssumption DEF Types, Call
<1>3. CASE Ask
  <2>1. [do |-> pc] \in Messages /\ Append(toDev, [do |-> pc]) \in Seq(Messages)
    <3>1. [do |-> pc] \in Messages
      BY <1>3, QuestionIs DEF Ask, Questions, Question
    <3> QED BY <1>1, <3>1, AppendProperties
  <2> QED BY <1>3, <2>1 DEF Types, Ask, Goto, Return
<1>4. CASE GotRate \/ RecvfromFails \/ TimeOut
  <2>1. toHost # <<>> => Head(toHost) \in Nat /\ Tail(toHost) \in Seq(Nat)
    BY <1>1, HeadTailProperties
  <2> QED BY <1>4, <2>1 DEF Types, GotRate, RecvfromFails, TimeOut, Goto, Return
<1>5. CASE GotFir
  <2>1. Tail(toHost) \in Seq(Nat)
    BY <1>1, <1>5, HeadTailProperties DEF GotFir
  <2>2. todo' \in Seq(Commands)
    <3>1. IsOn(Head(toHost)) \in BOOLEAN /\ FirOf(want) \in Firs /\ want \in Nat
      BY FirType DEF IsOn, Types
    <3>2. /\ Prepare(IsOn(Head(toHost))) \in Seq(Commands)
          /\ Load(FirOf(want)) \in Seq(Commands) /\ Finish(want) \in Seq(Commands)
      BY <3>1, ProgramType
    <3> QED BY <1>5, <3>2, ConcatProperties DEF GotFir
  <2> QED BY <1>5, <2>1, <2>2 DEF Types, GotFir, Goto
<1>6. CASE Send
  <2>1. /\ Head(todo) \in Commands /\ Tail(todo) \in Seq(Commands)
        /\ Append(toDev, Head(todo)) \in Seq(Messages)
    <3>1. todo # <<>>
      BY <1>6 DEF Rest, Send
    <3>2. Head(todo) \in Commands /\ Tail(todo) \in Seq(Commands)
      BY <1>1, <3>1, HeadTailProperties
    <3> QED BY <1>1, <3>2, AppendProperties DEF Messages
  <2>2. <<>> \in Seq(Commands)
    BY EmptySeq
  <2> QED BY <1>6, <2>1, <2>2 DEF Types, Send, SendFails, Goto, Return
<1>7. CASE Device
  <2> DEFINE m == Head(toDev)
  <2>1. m \in Messages /\ Tail(toDev) \in Seq(Messages)
    BY <1>1, <1>7, HeadTailProperties DEF Device
  <2>2. dev' = Exec(dev, m) /\ dev' \in States
    <3>1. dev' = Exec(dev, m)
      BY <1>7 DEF Device, Exec
    <3> HIDE DEF m
    <3> QED BY <1>1, <2>1, <3>1, ExecType
  <2>3. toHost' \in Seq(Nat)
    <3>1. \A a \in Nat : Append(toHost, a) \in Seq(Nat)
      BY <1>1, AppendProperties
    <3>2. (IF dev.on THEN 1 ELSE 0) \in Nat
      OBVIOUS
    <3> QED BY <1>1, <1>7, <3>1, <3>2 DEF Device
  <2> QED BY <1>7, <2>1, <2>2, <2>3 DEF Types, Device
<1>8. CASE Lose
  <2>1. toHost # <<>> => Tail(toHost) \in Seq(Nat)
    BY <1>1, HeadTailProperties
  <2>2. toDev # <<>> => Tail(toDev) \in Seq(Messages)
    BY <1>1, HeadTailProperties
  <2> QED BY <1>8, <2>1, <2>2 DEF Types, Lose, LoseQuestion, LoseAnswer, LoseCommand
<1> QED BY <1>2, <1>3, <1>4, <1>5, <1>6, <1>7, <1>8 DEF Next

(* A call that sends has something to send.                                *)
LEMMA RestStep ==
  ASSUME Types, Rest, Next
  PROVE  Rest'
<1>1. CASE GotFir
  <2>1. IsOn(Head(toHost)) \in BOOLEAN /\ FirOf(want) \in Firs /\ want \in Nat
    BY FirType DEF IsOn, Types
  <2>2. /\ Prepare(IsOn(Head(toHost))) \in Seq(Commands) /\ Load(FirOf(want)) \in Seq(Commands)
        /\ Finish(want) \in Seq(Commands) /\ Finish(want) # <<>>
    BY <2>1, ProgramType
  <2>3. todo' # <<>>
    <3>1. (Prepare(IsOn(Head(toHost))) \o Load(FirOf(want))) \in Seq(Commands)
      BY <2>2, ConcatProperties
    <3> QED BY <1>1, <2>2, <3>1, ConcatEqualIffEmpty DEF GotFir
  <2> QED BY <1>1, <2>3 DEF Rest, GotFir, Goto
<1>2. CASE Send
  BY <1>2 DEF Rest, Send, SendFails, Goto, Return
<1>3. ASSUME ~GotFir, ~Send PROVE ((pc = "send") = (pc' = "send")) /\ todo' = todo
  BY <1>3 DEF Next, Call, Ask, GotRate, RecvfromFails, TimeOut, Device, Lose, Goto, Return
<1> QED BY <1>1, <1>2, <1>3 DEF Rest

-----------------------------------------------------------------------------
(* What the commands of a call bring.                                      *)

(* What a later series brings is what both bring.                          *)
LEMMA BringsLater ==
  ASSUME NEW p \in Seq(Messages), NEW q \in Seq(Messages), NEW m, NEW h, Brings(q, m, FALSE)
  PROVE  Brings(p \o q, m, h)
<1> DEFINE n == Len(p)
           r == p \o q
<1>1. PICK i \in 1 .. Len(q) : q[i] = m /\ \A j \in 1 .. Len(q) : j > i => q[j].do # m.do
  BY DEF Brings
<1>2. /\ n \in Nat /\ Len(q) \in Nat /\ Len(r) = n + Len(q)
      /\ \A j \in 1 .. n + Len(q) : r[j] = IF j <= n THEN p[j] ELSE q[j - n]
  BY ConcatProperties
<1> HIDE DEF n, r
<1>3. n + i \in 1 .. Len(r) /\ ~(n + i <= n) /\ (n + i) - n = i
  BY <1>2
<1>4. r[n + i] = m
  BY <1>1, <1>2, <1>3
<1>5. ASSUME NEW j \in 1 .. Len(r), j > n + i PROVE r[j].do # m.do
  <2>1. j - n \in 1 .. Len(q) /\ j - n > i /\ ~(j <= n)
    BY <1>2, <1>5
  <2> QED BY <1>1, <1>2, <2>1
<1>6. Brings(r, m, h)
  BY <1>3, <1>4, <1>5 DEF Brings
<1> QED BY <1>6 DEF r

(* And so is what an earlier one brings, if the later one does not.        *)
LEMMA BringsEarlier ==
  ASSUME NEW p \in Seq(Messages), NEW q \in Seq(Messages), NEW m, Brings(p, m, FALSE),
         \A j \in 1 .. Len(q) : q[j].do # m.do
  PROVE  Brings(p \o q, m, FALSE)
<1> DEFINE n == Len(p)
           r == p \o q
<1>1. PICK i \in 1 .. n : p[i] = m /\ \A j \in 1 .. n : j > i => p[j].do # m.do
  BY DEF Brings
<1>2. /\ n \in Nat /\ Len(q) \in Nat /\ Len(r) = n + Len(q)
      /\ \A j \in 1 .. n + Len(q) : r[j] = IF j <= n THEN p[j] ELSE q[j - n]
  BY ConcatProperties
<1> HIDE DEF n, r
<1>3. i \in 1 .. Len(r) /\ i <= n
  BY <1>2
<1>4. r[i] = m
  BY <1>1, <1>2, <1>3
<1>5. ASSUME NEW j \in 1 .. Len(r), j > i PROVE r[j].do # m.do
  <2>1. CASE j <= n
    <3>1. j \in 1 .. n
      BY <1>2, <2>1
    <3> QED BY <1>1, <1>2, <1>5, <2>1, <3>1
  <2>2. CASE ~(j <= n)
    <3>1. j - n \in 1 .. Len(q)
      BY <1>2, <2>2
    <3> QED BY <1>2, <2>2, <3>1
  <2> QED BY <2>1, <2>2
<1>6. Brings(r, m, FALSE)
  BY <1>3, <1>4, <1>5 DEF Brings
<1> QED BY <1>6 DEF r

(* Two commands for different parts of the device.                         *)
LEMMA BringsTwo ==
  ASSUME NEW a, NEW b, NEW q, q = <<a, b>>, a.do # b.do
  PROVE  /\ Brings(q, a, FALSE) /\ Brings(q, b, FALSE)
         /\ \A j \in 1 .. Len(q) : q[j].do \in {a.do, b.do}
<1>1. Len(q) = 2 /\ q[1] = a /\ q[2] = b
  OBVIOUS
<1>2. \A j \in 1 .. 2 : j = 1 \/ j = 2
  OBVIOUS
<1>3. 1 \in 1 .. 2 /\ 2 \in 1 .. 2 /\ ~(1 > 1) /\ ~(1 > 2) /\ ~(2 > 2)
  OBVIOUS
<1>4. Brings(q, a, FALSE) /\ Brings(q, b, FALSE)
  BY <1>1, <1>2, <1>3 DEF Brings
<1> QED BY <1>1, <1>2, <1>4

(* The commands of a call bring all of what it is for, whatever it took    *)
(* the device for and whatever is sent before them.                        *)
LEMMA ProgramBrings ==
  ASSUME NEW q \in Seq(Messages), NEW rate \in Nat, NEW on \in BOOLEAN, NEW s
  PROVE  BringsAll(q \o (Prepare(on) \o Load(FirOf(rate)) \o Finish(rate)), s, rate)
<1> DEFINE l == Load(FirOf(rate))
           f == Finish(rate)
           x == Prepare(on) \o l
<1>1. FirOf(rate) \in Firs
  BY FirType
<1>2. /\ Prepare(on) \in Seq(Messages) /\ l \in Seq(Messages) /\ f \in Seq(Messages)
  BY <1>1, ProgramType DEF Messages
<1>3. x \in Seq(Messages) /\ x \o f \in Seq(Messages)
  BY <1>2, ConcatProperties
<1>4. Brings(l, LoadRx(FirOf(rate)), FALSE) /\ Brings(l, LoadTx(FirOf(rate)), FALSE)
  <2> DEFINE a == LoadRx(FirOf(rate))
             b == LoadTx(FirOf(rate))
  <2>1. l = <<a, b>> /\ a.do # b.do
    BY DEF Load, LoadRx, LoadTx
  <2> HIDE DEF a, b, l
  <2>2. Brings(l, a, FALSE) /\ Brings(l, b, FALSE)
    BY <2>1, BringsTwo
  <2> QED BY <2>2 DEF a, b
<1>5. /\ Brings(f, SetRate(rate), FALSE) /\ Brings(f, SetFir(TRUE), FALSE)
      /\ \A j \in 1 .. Len(f) : f[j].do \in {"rate", "enable"}
  <2> DEFINE a == SetRate(rate)
             b == SetFir(TRUE)
  <2>1. a.do = "rate" /\ b.do = "enable" /\ a.do # b.do /\ b.do # a.do
    BY DEF SetRate, SetFir
  <2>2. f = <<b, a>> \/ f = <<a, b>>
    BY DEF Finish
  <2> HIDE DEF a, b, f
  <2>3. /\ Brings(f, a, FALSE) /\ Brings(f, b, FALSE)
        /\ \A j \in 1 .. Len(f) : f[j].do \in {a.do, b.do}
    <3>1. CASE f = <<b, a>>
      <4>1. /\ Brings(f, b, FALSE) /\ Brings(f, a, FALSE)
            /\ \A j \in 1 .. Len(f) : f[j].do \in {b.do, a.do}
        BY <2>1, <3>1, BringsTwo
      <4> QED BY <4>1
    <3>2. CASE f = <<a, b>>
      BY <2>1, <3>2, BringsTwo
    <3> QED BY <2>2, <3>1, <3>2
  <2> QED BY <2>1, <2>3 DEF a, b
<1>6. LoadRx(FirOf(rate)).do = "load_rx" /\ LoadTx(FirOf(rate)).do = "load_tx"
  BY DEF LoadRx, LoadTx
<1> HIDE DEF l, f
<1>7. Brings(x, LoadRx(FirOf(rate)), FALSE) /\ Brings(x, LoadTx(FirOf(rate)), FALSE)
  BY <1>2, <1>4, BringsLater
<1> HIDE DEF x
<1>8. /\ Brings(x \o f, LoadRx(FirOf(rate)), FALSE) /\ Brings(x \o f, LoadTx(FirOf(rate)), FALSE)
      /\ Brings(x \o f, SetRate(rate), FALSE) /\ Brings(x \o f, SetFir(TRUE), FALSE)
  BY <1>2, <1>3, <1>5, <1>6, <1>7, BringsEarlier, BringsLater
<1>9. BringsAll(q \o (x \o f), s, rate)
  BY <1>3, <1>8, BringsLater DEF BringsAll
<1> QED BY <1>9 DEF x, l, f

(* When the first message has been carried out the rest brings the same.   *)
LEMMA BringsTail ==
  ASSUME NEW q \in Seq(Messages), q # <<>>, NEW m, NEW h \in BOOLEAN, NEW k \in BOOLEAN,
         Brings(q, m, h), Head(q) = m => k, Head(q).do # m.do /\ h => k
  PROVE  Brings(Tail(q), m, k)
<1> DEFINE n == Len(q)
           r == Tail(q)
<1>1. n \in Nat /\ n >= 1 /\ Head(q) = q[1]
  BY EmptySeq
<1>2. Len(r) = n - 1 /\ \A i \in 1 .. n - 1 : r[i] = q[i + 1]
  BY HeadTailProperties
<1> HIDE DEF n, r
<1>3. \A j \in 1 .. n - 1 : j + 1 \in 1 .. n /\ j + 1 > 1
  BY <1>1
<1>4. ASSUME h, \A j \in 1 .. n : q[j].do # m.do
      PROVE  Brings(r, m, k)
  <2>1. q[1].do # m.do
    BY <1>1, <1>4
  <2>2. k /\ \A j \in 1 .. n - 1 : r[j].do # m.do
    BY <1>1, <1>2, <1>3, <1>4, <2>1
  <2> QED BY <1>2, <2>2 DEF Brings
<1>5. ASSUME NEW i \in 1 .. n, q[i] = m, \A j \in 1 .. n : j > i => q[j].do # m.do
      PROVE  Brings(r, m, k)
  <2>1. CASE i = 1
    <3>1. k /\ \A j \in 1 .. n - 1 : r[j].do # m.do
      BY <1>1, <1>2, <1>3, <1>5, <2>1
    <3> QED BY <1>2, <3>1 DEF Brings
  <2>2. CASE i # 1
    <3>1. i - 1 \in 1 .. n - 1 /\ (i - 1) + 1 = i
      BY <1>1, <2>2
    <3>2. \A j \in 1 .. n - 1 : j > i - 1 => j + 1 \in 1 .. n /\ j + 1 > i
      BY <1>1
    <3>3. r[i - 1] = m /\ \A j \in 1 .. n - 1 : j > i - 1 => r[j].do # m.do
      BY <1>2, <1>5, <3>1, <3>2
    <3> QED BY <1>2, <3>1, <3>3 DEF Brings
  <2> QED BY <2>1, <2>2
<1> QED BY <1>4, <1>5 DEF Brings, n, r

(* A command sets its part of the device, and leaves the others.           *)
LEMMA ExecParts ==
  ASSUME NEW s \in States, NEW m \in Messages, NEW rate \in Nat
  PROVE  LET t == Exec(s, m) IN
         /\ m = SetRate(rate) => t.rate = rate
         /\ m = SetFir(TRUE) => t.on = TRUE
         /\ m = LoadRx(FirOf(rate)) => t.rx = FirOf(rate)
         /\ m = LoadTx(FirOf(rate)) => t.tx = FirOf(rate)
         /\ m.do # "rate" => t.rate = s.rate
         /\ m.do # "enable" => t.on = s.on
         /\ m.do # "load_rx" => t.rx = s.rx
         /\ m.do # "load_tx" => t.tx = s.tx
<1>1. FirOf(rate) \in Firs
  BY FirType
<1>2. CASE m \in Commands
  BY <1>1, <1>2 DEF Exec, States, SetRate, SetFir, LoadRx, LoadTx, Commands
<1>3. CASE m \in Questions
  BY <1>1, <1>3, QuestionIs DEF SetRate, SetFir, LoadRx, LoadTx
<1> QED BY <1>2, <1>3 DEF Messages

(* A step keeps what a call will bring, or begins or ends the call.        *)
LEMMA EndsStep ==
  ASSUME Types, Rest, Ends, Next, Types'
  PROVE  Ends'
<1>1. /\ toDev \in Seq(Messages) /\ todo \in Seq(Messages) /\ toDev \o todo \in Seq(Messages)
      /\ want \in Nat /\ dev \in States
  BY WholeCourse DEF Types
<1>2. CASE GotFir
  <2>1. IsOn(Head(toHost)) \in BOOLEAN
    BY DEF IsOn
  <2>2. /\ todo' = Prepare(IsOn(Head(toHost))) \o Load(FirOf(want)) \o Finish(want)
        /\ UNCHANGED <<toDev, want, dev>>
    BY <1>2 DEF GotFir
  <2>3. BringsAll(toDev \o todo', dev, want)
    BY <1>1, <2>1, <2>2, ProgramBrings
  <2> QED BY <2>2, <2>3 DEF Ends
<1>3. CASE Send
  <2>1. CASE toDev' = Append(toDev, Head(todo)) /\ todo' = Tail(todo)
    <3>1. toDev' \o todo' = toDev \o todo
      BY <1>1, <1>3, <2>1, FirstMoves DEF Rest, Send
    <3> QED BY <1>3, <2>1, <3>1 DEF Ends, Send, Rest, Goto, Return
  <2>2. CASE SendFails
    BY <2>2 DEF SendFails, Return, Ends
  <2> QED BY <1>3, <2>1, <2>2 DEF Send
<1>4. CASE Device
  <2> DEFINE q == toDev \o todo
             m == Head(toDev)
             t == Exec(dev, m)
  <2>1. /\ toDev # <<>> /\ toDev' = Tail(toDev) /\ dev' = t
        /\ UNCHANGED <<pc, want, todo, result, lost>>
    BY <1>4 DEF Device, Exec
  <2>2. q # <<>> /\ Head(q) = m /\ Tail(q) = toDev' \o todo'
    BY <1>1, <2>1, FirstOfBoth
  <2>3. m \in Messages /\ t \in States
    <3>1. m \in Messages
      BY <1>1, <2>1, HeadTailProperties
    <3> HIDE DEF m
    <3> QED BY <1>1, <3>1, ExecType
  <2>4. LET rate == want IN
        /\ m = SetRate(rate) => t.rate = rate
        /\ m = SetFir(TRUE) => t.on = TRUE
        /\ m = LoadRx(FirOf(rate)) => t.rx = FirOf(rate)
        /\ m = LoadTx(FirOf(rate)) => t.tx = FirOf(rate)
        /\ m.do # "rate" => t.rate = dev.rate
        /\ m.do # "enable" => t.on = dev.on
        /\ m.do # "load_rx" => t.rx = dev.rx
        /\ m.do # "load_tx" => t.tx = dev.tx
    <3> HIDE DEF m
    <3> QED BY <1>1, <2>3, ExecParts
  <2>5. /\ SetRate(want).do = "rate" /\ SetFir(TRUE).do = "enable"
        /\ LoadRx(FirOf(want)).do = "load_rx" /\ LoadTx(FirOf(want)).do = "load_tx"
    BY DEF SetRate, SetFir, LoadRx, LoadTx
  <2> HIDE DEF q, m, t
  <2>6. q \in Seq(Messages)
    BY <1>1 DEF q
  <2>7. BringsAll(q, dev, want) => BringsAll(Tail(q), t, want)
    <3> SUFFICES ASSUME BringsAll(q, dev, want) PROVE BringsAll(Tail(q), t, want)
      OBVIOUS
    <3>1. Brings(Tail(q), SetRate(want), t.rate = want)
      BY <2>2, <2>4, <2>5, <2>6, BringsTail DEF BringsAll
    <3>2. Brings(Tail(q), SetFir(TRUE), t.on = TRUE)
      BY <2>2, <2>4, <2>5, <2>6, BringsTail DEF BringsAll
    <3>3. Brings(Tail(q), LoadRx(FirOf(want)), t.rx = FirOf(want))
      BY <2>2, <2>4, <2>5, <2>6, BringsTail DEF BringsAll
    <3>4. Brings(Tail(q), LoadTx(FirOf(want)), t.tx = FirOf(want))
      BY <2>2, <2>4, <2>5, <2>6, BringsTail DEF BringsAll
    <3> QED BY <3>1, <3>2, <3>3, <3>4 DEF BringsAll
  <2> QED BY <2>1, <2>2, <2>7 DEF Ends, q
<1>5. CASE Lose
  <2>1. CASE LoseAnswer
    BY <1>5, <2>1 DEF Lose, LoseAnswer, Ends
  <2>2. CASE LoseCommand
    BY <2>2 DEF LoseCommand, Ends
  <2>3. CASE LoseQuestion
    <3> DEFINE q == toDev \o todo
               m == Head(toDev)
    <3>1. /\ toDev # <<>> /\ toDev' = Tail(toDev) /\ m.do \in {"get_rate", "get_fir"}
          /\ UNCHANGED <<pc, want, todo, result, lost, dev>>
      BY <1>5, <2>3 DEF Lose, LoseQuestion
    <3>2. q # <<>> /\ Head(q) = m /\ Tail(q) = toDev' \o todo' /\ q \in Seq(Messages)
      BY <1>1, <3>1, FirstOfBoth
    <3>3. /\ SetRate(want).do = "rate" /\ SetFir(TRUE).do = "enable"
          /\ LoadRx(FirOf(want)).do = "load_rx" /\ LoadTx(FirOf(want)).do = "load_tx"
      BY DEF SetRate, SetFir, LoadRx, LoadTx
    <3> HIDE DEF q, m
    <3>4. m # SetRate(want) /\ m # SetFir(TRUE) /\ m # LoadRx(FirOf(want)) /\ m # LoadTx(FirOf(want))
      BY <3>1, <3>3
    <3>5. BringsAll(q, dev, want) => BringsAll(Tail(q), dev, want)
      BY <3>2, <3>4, BringsTail DEF BringsAll
    <3> QED BY <3>1, <3>2, <3>5 DEF Ends, q
  <2> QED BY <1>5, <2>1, <2>2, <2>3 DEF Lose
<1>6. ASSUME ~GotFir, ~Send, ~Device, ~Lose PROVE Ends'
  <2>1. pc' # "send" /\ ~(pc' = "idle" /\ result' = "ok")
    BY <1>6 DEF Next, Call, Ask, GotRate, RecvfromFails, TimeOut, Goto, Return
  <2> QED BY <2>1 DEF Ends
<1> QED BY <1>2, <1>3, <1>4, <1>5, <1>6

(* What has been brought is so.                                            *)
LEMMA EndsHere ==
  ASSUME Types, Rest, Ends, ~lost, pc = "idle", result = "ok", toDev = <<>>
  PROVE  dev = Target(want)
<1>1. todo = <<>>
  BY DEF Rest
<1>2. toDev \o todo = <<>>
  BY <1>1, WholeCourse
<1>3. BringsAll(<<>>, dev, want)
  BY <1>2 DEF Ends
<1>4. Len(<<>>) = 0 /\ \A i \in 1 .. 0 : FALSE
  OBVIOUS
<1>5. dev.rate = want /\ dev.on = TRUE /\ dev.rx = FirOf(want) /\ dev.tx = FirOf(want)
  BY <1>3, <1>4 DEF BringsAll, Brings
<1> QED BY <1>5 DEF Types, States, Target

(* A call that begins when the device is known to be set is tame again.    *)
LEMMA KnownStep ==
  ASSUME IInv, NEW rate \in Rates, Call(rate), Known
  PROVE  Phase' /\ Course'
<1>1. /\ pc = "idle" /\ result = "ok" /\ ~lost /\ toDev = <<>> /\ toHost = <<>> /\ todo = <<>>
      /\ pc' = "get_rate" /\ UNCHANGED <<todo, toDev, toHost, dev>>
  BY DEF Known, Call, IInv, Rest
<1>2. dev = Target(want) /\ dev \in States
  BY <1>1, EndsHere DEF IInv, Types
<1>3. Good(dev)
  BY <1>2 DEF Target, Good
<1>4. toDev \o todo = <<>>
  BY <1>1, WholeCourse DEF IInv
<1>5. Phase'
  BY <1>1, EmptySeq DEF Phase, NoQuestions
<1>6. Course'
  BY <1>1, <1>2, <1>3, <1>4, SafeNone DEF Course
<1> QED BY <1>5, <1>6

-----------------------------------------------------------------------------
(* The theorems.                                                           *)

(* The invariant is inductive.                                             *)
LEMMA RateStep == IInv /\ [Next]_vars => IInv'
<1> SUFFICES ASSUME IInv, [Next]_vars PROVE IInv'
  OBVIOUS
<1>1. CASE UNCHANGED vars
  <2>1. Types' /\ Phase' = Phase /\ Rest' /\ Ends'
    BY <1>1 DEF vars, IInv, Types, Phase, NoQuestions, Rest, Ends
  <2>2. Course' = Course
    BY <1>1 DEF vars, Course
  <2> QED BY <1>1, <2>1, <2>2 DEF IInv, vars
<1>2. CASE Next
  <2>1. Types' /\ Rest' /\ Ends'
    BY <1>2, TypesStep, RestStep, EndsStep DEF IInv
  <2>2. ASSUME clean', NEW rate \in Rates, Call(rate) PROVE Phase' /\ Course'
    <3>1. CASE clean
      BY <2>1, <2>2, <3>1, CallStep DEF IInv, Tame
    <3>2. CASE Known
      BY <2>2, <3>2, KnownStep
    <3> QED BY <2>2, <3>1, <3>2 DEF Call
  <2>3. ASSUME clean', Ask \/ GotRate \/ GotFir \/ RecvfromFails \/ TimeOut \/ Send \/ Device \/ Lose
        PROVE  Phase' /\ Course'
    <3>1. clean
      BY <2>3 DEF Ask, GotRate, GotFir, RecvfromFails, TimeOut, Send, Device,
                  Lose, LoseQuestion, LoseAnswer, LoseCommand
    <3>2. Tame
      BY <3>1 DEF IInv, Tame
    <3>3. Tame'
      BY <2>1, <2>3, <3>2, AskStep, GotRateStep, GotFirStep, RecvfromFailsStep, TimeOutStep,
         SendStep, DeviceStep, LoseStep
    <3> QED BY <3>3 DEF Tame
  <2> QED BY <1>2, <2>1, <2>2, <2>3 DEF Next, IInv
<1> QED BY <1>1, <1>2

(* And it always holds.                                                    *)
LEMMA RateInvariant == Spec => []IInv
  BY RateStarts, RateStep, PTL DEF Spec

(* The device never runs at a rate that needs the filters without them,    *)
(* whatever rate it had, is asked for, and wherever calls are given up, as *)
(* long as no command was lost and no question given up too early since it *)
(* was last known to be set.                                               *)
THEOREM RateLowHasFir == Spec => []LowRateHasFir
<1>1. IInv => LowRateHasFir
  BY DevGood DEF IInv, Tame, Good, LowRateHasFir
<1> QED BY <1>1, RateInvariant, PTL

(* Enabled filters of the two directions are of the same kind, under the   *)
(* same condition.                                                         *)
THEOREM RateFirsAgree == Spec => []FirsAgree
<1>1. IInv => FirsAgree
  BY DevGood DEF IInv, Tame, Good, FirsAgree
<1> QED BY <1>1, RateInvariant, PTL

(* A successful call is carried out in full once its commands arrived,     *)
(* whatever its answers were and whatever calls before it lost or left.    *)
THEOREM RateSettled == Spec => []Settled
<1>1. IInv => Settled
  BY EndsHere DEF IInv, Settled, Target
<1> QED BY <1>1, RateInvariant, PTL
=============================================================================
