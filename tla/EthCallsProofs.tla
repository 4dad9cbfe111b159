--------------------------- MODULE EthCallsProofs ---------------------------
(***************************************************************************)
(* What libyunsdr guarantees to the calls of a program, for every number   *)
(* of devices and registers, every frame length and every sampling rate:   *)
(* that its conversions of time stamps are exact but for one rounding,     *)
(* that the reader of a stream stays on the boundaries of frames, and that *)
(* answers nobody waits for are left behind by time-outs alone, and that a *)
(* get reads what was written before it.                                   *)
(***************************************************************************)
EXTENDS TickTime, EthStream, EthCommand, FiniteSetTheorems, SequenceTheorems, TLAPS

-----------------------------------------------------------------------------
(* TickTime: what the conversions compute, for every sampling rate that is *)
(* a fraction of one hertz or more, every stamp and every delay.           *)

(* Division with a remainder.                                              *)
LEMMA Division ==
  ASSUME NEW a \in Int, NEW b \in Nat \ {0}
  PROVE  a \div b \in Int /\ b * (a \div b) <= a /\ a < b * (a \div b) + b
BY SMTT(30)

(* llround is an integer at most one half away from the quotient.          *)
LEMMA LlroundIsNearest ==
  ASSUME NEW a \in Int, NEW b \in Nat \ {0}
  PROVE  llround(a, b) \in Int /\ Nearest(llround(a, b), a, b)
<1>1. CASE a >= 0
  <2> DEFINE q == (2 * a + b) \div (2 * b)
  <2>1. q \in Int /\ (2 * b) * q <= 2 * a + b /\ 2 * a + b < (2 * b) * q + 2 * b
    BY Division, 2 * a + b \in Int, 2 * b \in Nat \ {0}
  <2>2. llround(a, b) = q
    BY <1>1 DEF llround
  <2> HIDE DEF q
  <2>3. 2 * (q * b - a) = (2 * b) * q - 2 * a
    BY <2>1
  <2> QED BY <2>1, <2>2, <2>3 DEF Nearest
<1>2. CASE a < 0
  <2> DEFINE q == (-2 * a + b) \div (2 * b)
  <2>1. q \in Int /\ (2 * b) * q <= -2 * a + b /\ -2 * a + b < (2 * b) * q + 2 * b
    BY Division, -2 * a + b \in Int, 2 * b \in Nat \ {0}
  <2>2. llround(a, b) = -q
    BY <1>2 DEF llround
  <2> HIDE DEF q
  <2>3. 2 * ((-q) * b - a) = -((2 * b) * q) - 2 * a
    BY <2>1
  <2> QED BY <2>1, <2>2, <2>3 DEF Nearest
<1> QED BY <1>1, <1>2

-----------------------------------------------------------------------------
(* The correction by the remainder of the rate makes the conversion exact  *)
(* up to its last rounding, although whole seconds are counted with a rate *)
(* that is cut to an integer.                                              *)

(* The parts of a rate: at least one whole tick a second, and a remainder. *)
LEMMA RateParts ==
  ASSUME NEW r \in Rate
  PROVE  /\ r.num \in Nat \ {0} /\ r.den \in Nat \ {0}
         /\ Whole(r) \in Nat \ {0}
         /\ Rest(r) = r.num - Whole(r) * r.den /\ Rest(r) \in Int
<1>1. r.num \in Nat \ {0} /\ r.den \in Nat \ {0} /\ r.num >= r.den
  BY TickTimeAssumption
<1>2. Whole(r) \in Int /\ r.den * Whole(r) <= r.num /\ r.num < r.den * Whole(r) + r.den
  BY <1>1, Division DEF Whole
<1>3. Whole(r) > 0
  <2> SUFFICES ASSUME Whole(r) <= 0 PROVE FALSE
    BY <1>2
  <2>1. r.den * Whole(r) <= 0
    BY <1>1, <1>2
  <2> QED BY <1>1, <1>2, <2>1
<1> QED BY <1>1, <1>2, <1>3 DEF Rest

(* The time of a stamp.                                                    *)
LEMMA TimeIsNearest ==
  ASSUME NEW k \in Int, NEW r \in Rate
  PROVE  /\ ticksToTimeNs(k, r) \in Int
         /\ Nearest(ticksToTimeNs(k, r), k * Second * r.den, r.num)
<1> DEFINE W == Whole(r)
           N == r.num
           D == r.den
           S == Second
           full == k \div W
           x == ((k - full * W) * D - full * Rest(r)) * S
           l == llround(x, N)
<1>1. N \in Nat \ {0} /\ D \in Nat \ {0} /\ W \in Nat \ {0} /\ Rest(r) = N - W * D /\ S \in Nat \ {0}
  BY RateParts, TickTimeAssumption
<1>2. full \in Int
  BY <1>1, Division
<1>3. x = (k * D - full * N) * S /\ x \in Int
  <2> HIDE DEF W, N, D, S, full
  <2> QED BY <1>1, <1>2
<1>4. l \in Int /\ Nearest(l, x, N)
  BY <1>1, <1>3, LlroundIsNearest
<1>5. ticksToTimeNs(k, r) = full * S + l
  BY DEF ticksToTimeNs
<1> HIDE DEF W, N, D, S, full, x, l
<1>6. (full * S + l) * N - k * S * D = l * N - x
  BY <1>1, <1>2, <1>3, <1>4
<1>7. Nearest(full * S + l, k * S * D, N)
  BY <1>4, <1>6 DEF Nearest
<1> QED BY <1>1, <1>2, <1>4, <1>5, <1>7 DEF N, D, S

(* The stamp of a time.                                                    *)
LEMMA TicksAreNearest ==
  ASSUME NEW n \in Int, NEW r \in Rate
  PROVE  /\ timeNsToTicks(n, r) \in Int
         /\ Nearest(timeNsToTicks(n, r), n * r.num, Second * r.den)
<1> DEFINE W == Whole(r)
           N == r.num
           D == r.den
           S == Second
           full == n \div S
           x == full * Rest(r) * S + (n - full * S) * N
           l == llround(x, S * D)
<1>1. N \in Nat \ {0} /\ D \in Nat \ {0} /\ W \in Nat \ {0} /\ Rest(r) = N - W * D /\ S \in Nat \ {0}
  BY RateParts, TickTimeAssumption
<1>2. full \in Int
  BY <1>1, Division
<1>3. x = n * N - full * W * D * S /\ x \in Int /\ S * D \in Nat \ {0}
  <2> HIDE DEF W, N, D, S, full
  <2> QED BY <1>1, <1>2
<1>4. l \in Int /\ Nearest(l, x, S * D)
  BY <1>3, LlroundIsNearest
<1>5. timeNsToTicks(n, r) = full * W + l
  BY DEF timeNsToTicks
<1> HIDE DEF W, N, D, S, full, x, l
<1>6. (full * W + l) * (S * D) - n * N = l * (S * D) - x
  BY <1>1, <1>2, <1>3, <1>4
<1>7. Nearest(full * W + l, n * N, S * D)
  BY <1>4, <1>6 DEF Nearest
<1> QED BY <1>1, <1>2, <1>4, <1>5, <1>7 DEF N, D, S

(* The nearest integer to what is not negative is not negative.            *)
LEMMA NearestNat ==
  ASSUME NEW x \in Int, NEW a \in Nat, NEW b \in Nat \ {0}, Nearest(x, a, b)
  PROVE  x \in Nat
<1> SUFFICES ASSUME x <= -1 PROVE FALSE
  OBVIOUS
<1>1. x * b <= -b
  OBVIOUS
<1> QED BY <1>1 DEF Nearest

-----------------------------------------------------------------------------
(* Times and stamps are counted from zero.                                 *)
TimeTypeOK ==
  /\ rate \in Rate
  /\ stamp \in Nat /\ nano \in Nat /\ delay \in Nat /\ answer \in Int

TimeInv == TimeTypeOK /\ TimesAreNearest

(* A program that has received no frame.                                   *)
LEMMA InitTimeInv == TimeInit => TimeInv
<1> SUFFICES ASSUME TimeInit PROVE TimeInv
  OBVIOUS
<1>1. rate.num \in Nat \ {0} /\ rate.den \in Nat \ {0} /\ Second \in Nat \ {0}
  BY RateParts, TickTimeAssumption DEF TimeInit
<1>2. Nearest(0, 0, rate.num) /\ Nearest(0, 0, Second * rate.den)
  BY <1>1 DEF Nearest
<1>3. 0 * Second * rate.den = 0 /\ (0 + 0) * rate.num = 0
  BY <1>1
<1> QED BY <1>1, <1>2, <1>3 DEF TimeInit, TimeInv, TimeTypeOK, TimesAreNearest

(* Every conversion is the nearest one.                                    *)
LEMMA TimeInvStep == TimeInv /\ [TimeNext]_timeVars => TimeInv'
<1> SUFFICES ASSUME TimeInv, [TimeNext]_timeVars PROVE TimeInv'
  OBVIOUS
<1>1. rate.num \in Nat \ {0} /\ rate.den \in Nat \ {0} /\ Second \in Nat \ {0}
  BY RateParts, TickTimeAssumption DEF TimeInv, TimeTypeOK
<1>2. ASSUME NEW k \in Stamp, ReadFrame(k) PROVE TimeInv'
  <2>1. k \in Nat /\ rate \in Rate
    BY TickTimeAssumption DEF TimeInv, TimeTypeOK
  <2>2. /\ nano' = ticksToTimeNs(k, rate) /\ answer' = timeNsToTicks(nano', rate)
        /\ stamp' = k /\ delay' = 0 /\ rate' = rate
    BY <1>2 DEF ReadFrame
  <2>3. nano' \in Int /\ Nearest(nano', k * Second * rate.den, rate.num)
    BY <2>1, <2>2, TimeIsNearest
  <2>4. k * Second * rate.den \in Nat
    BY <1>1, <2>1
  <2>5. nano' \in Nat
    BY <1>1, <2>3, <2>4, NearestNat
  <2>6. answer' \in Int /\ Nearest(answer', nano' * rate.num, Second * rate.den)
    BY <2>1, <2>2, <2>5, TicksAreNearest
  <2> QED BY <2>1, <2>2, <2>3, <2>5, <2>6 DEF TimeInv, TimeTypeOK, TimesAreNearest
<1>3. ASSUME NEW t \in Delay, WriteFrame(t) PROVE TimeInv'
  <2>1. t \in Nat /\ rate \in Rate /\ nano \in Nat
    BY TickTimeAssumption DEF TimeInv, TimeTypeOK
  <2>2. answer' = timeNsToTicks(nano + t, rate) /\ delay' = t /\ UNCHANGED <<rate, stamp, nano>>
    BY <1>3 DEF WriteFrame
  <2>3. answer' \in Int /\ Nearest(answer', (nano + t) * rate.num, Second * rate.den)
    BY <2>1, <2>2, TicksAreNearest
  <2> QED BY <2>1, <2>2, <2>3 DEF TimeInv, TimeTypeOK, TimesAreNearest
<1>4. CASE UNCHANGED timeVars
  BY <1>4 DEF timeVars, TimeInv, TimeTypeOK, TimesAreNearest
<1> QED BY <1>2, <1>3, <1>4 DEF TimeNext

(* Both conversions stay the nearest ones.                                 *)
LEMMA TimeInductive == TimeSpec => []TimeInv
BY InitTimeInv, TimeInvStep, PTL DEF TimeSpec

(* For every rate, stamp and delay the time of a stamp is the nearest      *)
(* nanosecond and the stamp of a time the nearest tick.                    *)
THEOREM NearestTimes == TimeSpec => []TimesAreNearest
<1>1. TimeInv => TimesAreNearest
  BY DEF TimeInv
<1> QED BY TimeInductive, <1>1, PTL

(* Two roundings that together cannot reach the next stamp.                *)
LEMMA BackAgain ==
  ASSUME NEW k \in Nat, NEW n \in Nat, NEW a \in Int, NEW p \in Nat \ {0}, NEW q \in Nat \ {0},
         p <= q, Nearest(n, k * q, p), Nearest(a, n * p, q)
  PROVE  a = k
<1>1. /\ -p <= 2 * (n * p - k * q) /\ 2 * (n * p - k * q) <= p
      /\ -q <= 2 * (a * q - n * p) /\ 2 * (a * q - n * p) <= q
  BY DEF Nearest
<1>2. -(p + q) <= 2 * ((a - k) * q) /\ 2 * ((a - k) * q) <= p + q
  BY <1>1
<1>3. CASE p < q
  <2>1. ASSUME a - k >= 1 PROVE FALSE
    <3>1. (a - k) * q >= q
      BY <2>1
    <3> QED BY <1>2, <1>3, <3>1
  <2>2. ASSUME a - k <= -1 PROVE FALSE
    <3>1. (a - k) * q <= -q
      BY <2>2
    <3> QED BY <1>2, <1>3, <3>1
  <2> QED BY <2>1, <2>2
<1>4. CASE p = q
  <2>1. n = k
    <3>1. -q <= 2 * ((n - k) * q) /\ 2 * ((n - k) * q) <= q
      BY <1>1, <1>4
    <3>2. ASSUME n - k >= 1 PROVE FALSE
      <4>1. (n - k) * q >= q
        BY <3>2
      <4> QED BY <3>1, <4>1
    <3>3. ASSUME n - k <= -1 PROVE FALSE
      <4>1. (n - k) * q <= -q
        BY <3>3
      <4> QED BY <3>1, <4>1
    <3> QED BY <3>2, <3>3
  <2>2. -q <= 2 * ((a - k) * q) /\ 2 * ((a - k) * q) <= q
    BY <1>1, <1>4, <2>1
  <2>3. ASSUME a - k >= 1 PROVE FALSE
    <3>1. (a - k) * q >= q
      BY <2>3
    <3> QED BY <2>2, <3>1
  <2>4. ASSUME a - k <= -1 PROVE FALSE
    <3>1. (a - k) * q <= -q
      BY <2>4
    <3> QED BY <2>2, <3>1
  <2> QED BY <2>3, <2>4
<1> QED BY <1>3, <1>4

(* Up to a tick per nanosecond a stamp survives the way to a time and      *)
(* back, whatever the fraction of the rate.                                *)
THEOREM StampsSurvive == TimeSpec => []RoundTrip
<1>1. TimeInv => RoundTrip
  <2> SUFFICES ASSUME TimeInv, delay = 0, rate.num <= Second * rate.den PROVE answer = stamp
    BY DEF RoundTrip
  <2>1. rate.num \in Nat \ {0} /\ rate.den \in Nat \ {0} /\ Second \in Nat \ {0}
    BY RateParts, TickTimeAssumption DEF TimeInv, TimeTypeOK
  <2>2. Second * rate.den \in Nat \ {0} /\ stamp \in Nat /\ nano \in Nat /\ answer \in Int
    BY <2>1 DEF TimeInv, TimeTypeOK
  <2>3. Nearest(nano, stamp * (Second * rate.den), rate.num)
    <3>1. stamp * Second * rate.den = stamp * (Second * rate.den)
      BY <2>1, <2>2
    <3> QED BY <3>1 DEF TimeInv, TimesAreNearest
  <2>4. Nearest(answer, nano * rate.num, Second * rate.den)
    BY <2>2 DEF TimeInv, TimesAreNearest
  <2> QED BY <2>1, <2>2, <2>3, <2>4, BackAgain
<1> QED BY TimeInductive, <1>1, PTL

-----------------------------------------------------------------------------
(* EthStream: the reader stays on the boundaries of frames, for every way  *)
(* the connection cuts the stream, while all devices use one length.       *)

(* What is at position i, from 0, of a stream of frames of length len.     *)
Word(i, len) == IF i % len = 0 THEN "meta" ELSE "samples"

(* How much of a frame the reader has taken already.                       *)
Taken(d) == IF reading[d] THEN Len(meta[d]) ELSE 0

Words == {"meta", "samples"}

StreamTypes ==
  /\ nbyte_per_frame \in Nat
  /\ sending \in [Board -> Nat]
  /\ stream \in [Board -> Seq(Words)]
  /\ closed \in [Board -> BOOLEAN]
  /\ reading \in [Board -> BOOLEAN]
  /\ meta \in [Board -> Seq(Words)]
  /\ outcome \in [Board -> {"none", "timed_out", "frame", "failed"}]
  /\ sizes \in SUBSET Nat /\ IsFiniteSet(sizes)

(* Only an enabled device has anything under way.                          *)
Enabled ==
  /\ \A d \in Board : sending[d] = 0 => stream[d] = <<>> /\ ~reading[d]
  /\ \A d \in Board : reading[d] => outcome[d] # "frame"
  /\ sizes = {} => \A d \in Board : sending[d] = 0 /\ outcome[d] # "frame"

(* With frames of length len, the rest of a frame comes first, then whole  *)
(* frames; the reader has the part of the frame that came before.          *)
OnBoundary(d, len) ==
  /\ sending[d] \in {0, len}
  /\ \A i \in 1 .. Len(stream[d]) : stream[d][i] = Word(Taken(d) + i - 1, len)
  /\ (Taken(d) + Len(stream[d])) % len = 0
  /\ reading[d] => /\ Len(meta[d]) < len
                   /\ \A i \in 1 .. Len(meta[d]) : meta[d][i] = Word(i - 1, len)
  /\ outcome[d] = "frame" => meta[d] = Frame(len)

(* So it is while the program has used the one length n.                   *)
Uniform(n) == sizes = {n} => nbyte_per_frame = 1 + n /\ \A d \in Board : OnBoundary(d, 1 + n)

StreamInv == StreamTypes /\ Enabled /\ \A n \in Nat : Uniform(n)

-----------------------------------------------------------------------------
(* Arithmetic of positions.                                                *)

(* Division with remainder.                                                *)
LEMMA DivMod ==
  ASSUME NEW a \in Nat, NEW b \in Nat \ {0}
  PROVE  a \div b \in Int /\ a % b \in 0 .. b - 1 /\ a = b * (a \div b) + (a % b)
<1>1. a \div b \in Int
  OBVIOUS
<1>2. a % b \in 0 .. b - 1
  OBVIOUS
<1>3. a = b * (a \div b) + (a % b)
  OBVIOUS
<1> QED BY <1>1, <1>2, <1>3

(* The remainder is unique.                                                *)
LEMMA ModIs ==
  ASSUME NEW b \in Nat \ {0}, NEW q \in Int, NEW r \in 0 .. b - 1
  PROVE  (b * q + r) % b = r
<1> DEFINE a == b * q + r
           p == a \div b
           m == a % b
<1>1. a \in Int /\ p \in Int /\ m \in 0 .. b - 1 /\ a = b * p + m
  OBVIOUS
<1>2. a = b * q + r
  OBVIOUS
<1> HIDE DEF a, p, m
<1>3. b * (p - q) = r - m
  BY <1>1, <1>2
<1>4. ASSUME p - q >= 1 PROVE FALSE
  <2>1. b * (p - q) >= b
    BY <1>1, <1>4
  <2> QED BY <1>1, <1>3, <2>1
<1>5. ASSUME p - q <= -1 PROVE FALSE
  <2>1. b * (p - q) <= -b
    BY <1>1, <1>5
  <2> QED BY <1>1, <1>3, <2>1
<1>6. p = q
  BY <1>1, <1>4, <1>5
<1>7. m = r
  BY <1>1, <1>2, <1>6
<1> QED BY <1>7 DEF m, a

(* Remainders below the divisor, and one divisor further on.               *)
LEMMA Modulo ==
  ASSUME NEW a \in Nat, NEW b \in Nat \ {0}
  PROVE  /\ a % b \in 0 .. b - 1
         /\ a < b => a % b = a
         /\ (a + b) % b = a % b
<1> DEFINE q == a \div b
           r == a % b
<1>1. q \in Int /\ r \in 0 .. b - 1 /\ a = b * q + r
  OBVIOUS
<1>2. ASSUME a < b PROVE (b * 0 + a) % b = a
  BY <1>2, ModIs
<1>3. b * 0 + a = a
  OBVIOUS
<1>4. (b * (q + 1) + r) % b = r
  <2>1. q + 1 \in Int
    BY <1>1
  <2> HIDE DEF q, r
  <2> QED BY <1>1, <2>1, ModIs
<1>5. b * (q + 1) + r = a + b
  <2> HIDE DEF q, r
  <2> QED BY <1>1
<1> QED BY <1>1, <1>2, <1>3, <1>4, <1>5

(* A frame is what a stream of frames holds from position 0.               *)
LEMMA FrameWords ==
  ASSUME NEW len \in Nat \ {0}
  PROVE  /\ Frame(len) \in Seq(Words) /\ Len(Frame(len)) = len
         /\ \A i \in 1 .. len : Frame(len)[i] = Word(i - 1, len)
<1>1. Frame(len) \in Seq(Words) /\ Len(Frame(len)) = len
  BY DEF Frame, Words
<1>2. ASSUME NEW i \in 1 .. len PROVE Frame(len)[i] = Word(i - 1, len)
  <2>1. i - 1 \in Nat /\ i - 1 < len
    OBVIOUS
  <2>2. (i - 1) % len = i - 1
    BY <2>1, Modulo
  <2> QED BY <2>1, <2>2 DEF Frame, Word
<1> QED BY <1>1, <1>2

(* Whole frames appended to what ends on a boundary continue it.           *)
LEMMA NextFrame ==
  ASSUME NEW a \in Nat, NEW len \in Nat \ {0}, a % len = 0, NEW i \in 1 .. len
  PROVE  Word(a + i - 1, len) = Word(i - 1, len) /\ (a + len) % len = 0
<1>1. PICK q \in Int : a = len * q
  <2>1. a \div len \in Int /\ a = len * (a \div len) + (a % len)
    BY DivMod
  <2>2. a = len * (a \div len)
    BY <2>1
  <2> QED BY <2>1, <2>2
<1>2. (len * q + (i - 1)) % len = i - 1 /\ (i - 1) % len = i - 1
  <2>1. i - 1 \in 0 .. len - 1 /\ i - 1 \in Nat /\ i - 1 < len
    OBVIOUS
  <2>2. (i - 1) % len = i - 1
    BY <2>1, Modulo
  <2> QED BY <2>1, <2>2, ModIs
<1>3. a + i - 1 = len * q + (i - 1)
  BY <1>1
<1>4. (a + len) % len = 0
  BY Modulo
<1> QED BY <1>2, <1>3, <1>4 DEF Word

-----------------------------------------------------------------------------
(* The steps.                                                              *)

(* Nothing is enabled in the beginning.                                    *)
LEMMA FramesStart == Sizes \subseteq Nat /\ StreamInit => StreamInv
<1> SUFFICES ASSUME Sizes \subseteq Nat, StreamInit PROVE StreamInv
  OBVIOUS
<1>1. StreamTypes
  BY EmptySeq, FS_EmptySet DEF StreamInit, StreamTypes
<1>2. Enabled
  BY DEF StreamInit, Enabled
<1>3. \A n \in Nat : Uniform(n)
  BY DEF StreamInit, Uniform
<1> QED BY <1>1, <1>2, <1>3 DEF StreamInv

(* What has no part in a step stays where it is.                           *)
LEMMA StaysOnBoundary ==
  ASSUME NEW e \in Board, NEW len \in Nat \ {0}, OnBoundary(e, len),
         sending'[e] = sending[e], stream'[e] = stream[e], reading'[e] = reading[e],
         meta'[e] = meta[e], outcome'[e] = outcome[e]
  PROVE  OnBoundary(e, len)'
  BY DEF OnBoundary, Taken

(* Enabling sets the length; if it is the first, nothing was under way.    *)
LEMMA EnableStep ==
  ASSUME Sizes \subseteq Nat, StreamInv, NEW d \in Board, NEW n \in Sizes, Enable(d, n)
  PROVE  StreamInv'
<1>1. StreamTypes'
  <2>1. n \in Nat /\ 1 + n \in Nat
    OBVIOUS
  <2>2. sizes' \in SUBSET Nat
    BY <2>1 DEF StreamInv, StreamTypes, Enable
  <2>3. sending' \in [Board -> Nat]
    BY <2>1 DEF StreamInv, StreamTypes, Enable
  <2>4. nbyte_per_frame' \in Nat
    BY <2>1 DEF Enable, BytesPerFrame
  <2>5. IsFiniteSet(sizes')
    BY FS_AddElement DEF StreamInv, StreamTypes, Enable
  <2> QED BY <2>2, <2>3, <2>4, <2>5 DEF StreamInv, StreamTypes, Enable
<1>2. Enabled'
  BY DEF StreamInv, StreamTypes, Enabled, Enable
<1>3. ASSUME NEW m \in Nat, sizes' = {m} PROVE nbyte_per_frame' = 1 + m /\ \A e \in Board : OnBoundary(e, 1 + m)'
  <2>1. m = n /\ (sizes = {} \/ sizes = {m}) /\ nbyte_per_frame' = 1 + m
    BY <1>3 DEF Enable, BytesPerFrame
  <2>2. ASSUME NEW e \in Board, sizes = {} PROVE OnBoundary(e, 1 + m)'
    <3>1. /\ sending'[e] \in {0, 1 + m} /\ stream'[e] = <<>> /\ ~reading'[e] /\ outcome'[e] # "frame"
      BY <2>1, <2>2 DEF StreamInv, StreamTypes, Enabled, Enable
    <3>2. 0 % (1 + m) = 0
      BY Modulo
    <3> QED BY <3>1, <3>2 DEF OnBoundary, Taken
  <2>3. ASSUME NEW e \in Board, sizes = {m} PROVE OnBoundary(e, 1 + m)'
    <3>1. OnBoundary(e, 1 + m)
      BY <2>3 DEF StreamInv, Uniform
    <3>2. /\ sending'[e] \in {0, 1 + m} /\ stream' = stream /\ reading' = reading
          /\ meta' = meta /\ outcome' = outcome
      BY <2>1, <3>1 DEF StreamInv, StreamTypes, Enable, OnBoundary
    <3> QED BY <3>1, <3>2 DEF OnBoundary, Taken
  <2> QED BY <2>1, <2>2, <2>3
<1> QED BY <1>1, <1>2, <1>3 DEF StreamInv, Uniform

(* Any other step keeps the length, so it is enough to look at its device. *)
LEMMA OtherStep ==
  ASSUME StreamInv, NEW d \in Board, StreamTypes', Enabled',
         UNCHANGED <<nbyte_per_frame, sizes>>,
         \A e \in Board \ {d} : /\ sending'[e] = sending[e] /\ stream'[e] = stream[e]
                                 /\ reading'[e] = reading[e] /\ meta'[e] = meta[e]
                                 /\ outcome'[e] = outcome[e],
         ASSUME NEW n \in Nat, nbyte_per_frame = 1 + n, OnBoundary(d, 1 + n)
         PROVE  OnBoundary(d, 1 + n)'
  PROVE  StreamInv'
<1>1. ASSUME NEW n \in Nat, sizes' = {n} PROVE nbyte_per_frame' = 1 + n /\ \A e \in Board : OnBoundary(e, 1 + n)'
  <2>1. nbyte_per_frame = 1 + n /\ \A e \in Board : OnBoundary(e, 1 + n)
    BY <1>1 DEF StreamInv, Uniform
  <2>2. OnBoundary(d, 1 + n)'
    BY <2>1
  <2>3. ASSUME NEW e \in Board \ {d} PROVE OnBoundary(e, 1 + n)'
    BY <2>1, StaysOnBoundary
  <2> QED BY <2>1, <2>2, <2>3
<1> QED BY <1>1 DEF StreamInv, Uniform

(* Disabling throws away the connection with all that was in it.           *)
LEMMA DisableStep ==
  ASSUME StreamInv, NEW d \in Board, Disable(d)
  PROVE  StreamInv'
<1>1. StreamTypes'
  <2>1. stream' \in [Board -> Seq(Words)]
    BY EmptySeq DEF StreamInv, StreamTypes, Disable
  <2> QED BY <2>1 DEF StreamInv, StreamTypes, Disable
<1>2. Enabled'
  BY DEF StreamInv, StreamTypes, Enabled, Disable
<1>3. ASSUME NEW n \in Nat, OnBoundary(d, 1 + n) PROVE OnBoundary(d, 1 + n)'
  <2>1. sending'[d] = 0 /\ stream'[d] = <<>> /\ ~reading[d] /\ ~reading'[d]
    BY DEF StreamInv, StreamTypes, Disable
  <2>2. 0 % (1 + n) = 0
    BY Modulo
  <2>3. meta' = meta /\ outcome' = outcome
    BY DEF Disable
  <2> QED BY <1>3, <2>1, <2>2, <2>3 DEF OnBoundary, Taken
<1> QED BY <1>1, <1>2, <1>3, OtherStep DEF Disable, StreamInv, StreamTypes

(* A read starts with an empty frame.                                      *)
LEMMA SelectStep ==
  ASSUME StreamInv, NEW d \in Board, Select(d)
  PROVE  StreamInv'
<1>1. StreamTypes'
  <2>1. meta' \in [Board -> Seq(Words)]
    BY EmptySeq DEF StreamInv, StreamTypes, Select
  <2> QED BY <2>1 DEF StreamInv, StreamTypes, Select
<1>2. Enabled'
  <2>1. sending' = sending /\ stream' = stream /\ sizes' = sizes /\ sending[d] > 0
    BY DEF Select
  <2>2. \A e \in Board : e # d => reading'[e] = reading[e] /\ outcome'[e] = outcome[e]
    BY DEF StreamInv, StreamTypes, Select
  <2>3. sending[d] \in Nat /\ (sizes = {} => sending[d] = 0)
    BY DEF StreamInv, StreamTypes, Enabled
  <2>4. ASSUME NEW e \in Board, sending'[e] = 0 PROVE stream'[e] = <<>> /\ ~reading'[e]
    BY <2>1, <2>2, <2>3, <2>4 DEF StreamInv, Enabled
  <2>5. ASSUME NEW e \in Board, sizes' = {} PROVE FALSE
    BY <2>1, <2>3, <2>5
  <2>6. ASSUME NEW e \in Board, reading'[e] PROVE outcome'[e] # "frame"
    <3>1. CASE e = d
      BY <2>6, <3>1 DEF StreamInv, StreamTypes, Enabled, Select
    <3>2. CASE e # d
      BY <2>2, <2>6, <3>2 DEF StreamInv, Enabled
    <3> QED BY <3>1, <3>2
  <2> QED BY <2>4, <2>5, <2>6 DEF Enabled
<1>3. ASSUME NEW n \in Nat, OnBoundary(d, 1 + n) PROVE OnBoundary(d, 1 + n)'
  <2>1. sending' = sending /\ stream' = stream /\ meta'[d] = <<>> /\ outcome'[d] # "frame"
    BY DEF StreamInv, StreamTypes, Select
  <2>2. Taken(d) = 0 /\ Taken(d)' = 0
    BY <2>1 DEF Taken, Select
  <2>3. Len(meta'[d]) = 0
    BY <2>1
  <2>4. Len(meta'[d]) < 1 + n /\ \A i \in 1 .. Len(meta'[d]) : meta'[d][i] = Word(i - 1, 1 + n)
    BY <2>3
  <2> QED BY <1>3, <2>1, <2>2, <2>4 DEF OnBoundary
<1> QED BY <1>1, <1>2, <1>3, OtherStep DEF Select, StreamInv, StreamTypes

(* A failed read ends the connection.                                      *)
LEMMA RecvFailsStep ==
  ASSUME StreamInv, NEW d \in Board, RecvFails(d)
  PROVE  StreamInv'
<1>1. StreamTypes'
  <2>1. stream' \in [Board -> Seq(Words)]
    BY EmptySeq DEF StreamInv, StreamTypes, RecvFails
  <2> QED BY <2>1 DEF StreamInv, StreamTypes, RecvFails
<1>2. Enabled'
  BY DEF StreamInv, StreamTypes, Enabled, RecvFails
<1>3. ASSUME NEW n \in Nat, OnBoundary(d, 1 + n) PROVE OnBoundary(d, 1 + n)'
  <2>1. sending' = sending /\ stream'[d] = <<>> /\ ~reading'[d] /\ outcome'[d] = "failed"
    BY DEF StreamInv, StreamTypes, RecvFails
  <2>2. 0 % (1 + n) = 0
    BY Modulo
  <2> QED BY <1>3, <2>1, <2>2 DEF OnBoundary, Taken
<1> QED BY <1>1, <1>2, <1>3, OtherStep DEF RecvFails, StreamInv, StreamTypes

(* The device appends a whole frame.                                       *)
LEMMA SendStep ==
  ASSUME StreamInv, NEW d \in Board, SendFrame(d)
  PROVE  StreamInv'
<1> DEFINE F == Frame(sending[d])
           s == stream[d]
<1>1. sending[d] \in Nat \ {0} /\ s \in Seq(Words) /\ Len(s) \in Nat
  BY DEF StreamInv, StreamTypes, SendFrame
<1>2. F \in Seq(Words) /\ Len(F) = sending[d]
  BY <1>1, FrameWords
<1>3. stream'[d] = s \o F /\ \A e \in Board \ {d} : stream'[e] = stream[e]
  BY DEF StreamInv, StreamTypes, SendFrame
<1>4. /\ s \o F \in Seq(Words) /\ Len(s \o F) = Len(s) + sending[d]
      /\ \A i \in 1 .. Len(s) + sending[d] : (s \o F)[i] = IF i <= Len(s) THEN s[i] ELSE F[i - Len(s)]
  <2> HIDE DEF F, s
  <2> QED BY <1>1, <1>2, ConcatProperties
<1>5. StreamTypes'
  <2>1. stream' \in [Board -> Seq(Words)]
    BY <1>3, <1>4 DEF StreamInv, StreamTypes, SendFrame
  <2> QED BY <2>1 DEF StreamInv, StreamTypes, SendFrame
<1>6. Enabled'
  BY <1>1, <1>3 DEF StreamInv, Enabled, SendFrame
<1>7. ASSUME NEW n \in Nat, OnBoundary(d, 1 + n) PROVE OnBoundary(d, 1 + n)'
  <2> DEFINE t == Taken(d)
             len == 1 + n
  <2>1. sending[d] = len /\ len \in Nat \ {0}
    BY <1>1, <1>7 DEF OnBoundary
  <2>2. t \in Nat /\ Taken(d)' = t
    BY DEF Taken, SendFrame, StreamInv, StreamTypes
  <2>3. t + Len(s) \in Nat /\ (t + Len(s)) % len = 0 /\ Len(s) \in Nat
    <3>1. t + Len(s) \in Nat
      BY <1>1, <2>2
    <3> QED BY <1>1, <1>7, <3>1 DEF OnBoundary
  <2>4. ASSUME NEW i \in 1 .. Len(s \o F) PROVE (s \o F)[i] = Word(t + i - 1, len)
    <3>1. CASE i <= Len(s)
      <4>1. i \in 1 .. Len(s) /\ (s \o F)[i] = s[i]
        <5> HIDE DEF s, F
        <5> QED BY <1>1, <1>4, <2>4, <3>1
      <4>2. \A j \in 1 .. Len(stream[d]) : stream[d][j] = Word(Taken(d) + j - 1, 1 + n)
        BY <1>7 DEF OnBoundary
      <4> QED BY <4>1, <4>2
    <3>2. CASE i > Len(s)
      <4> DEFINE j == i - Len(s)
      <4>1. j \in 1 .. len /\ (s \o F)[i] = F[j]
        <5>1. i \in 1 .. Len(s) + sending[d] /\ j \in 1 .. sending[d] /\ ~(i <= Len(s))
          <6> HIDE DEF s, F
          <6> QED BY <1>1, <1>4, <2>4, <3>2
        <5> QED BY <1>4, <2>1, <5>1
      <4>2. F[j] = Word(j - 1, len)
        BY <2>1, <4>1, FrameWords
      <4>3. Word((t + Len(s)) + j - 1, len) = Word(j - 1, len)
        <5> HIDE DEF j, len, t
        <5> QED BY <2>1, <2>3, <4>1, NextFrame
      <4>4. (t + Len(s)) + j - 1 = t + i - 1
        <5> HIDE DEF s, F, t
        <5> QED BY <1>1, <1>4, <2>2, <2>4
      <4>5. (s \o F)[i] = F[j] /\ F[j] = Word(j - 1, len)
        BY <4>1, <4>2
      <4>6. (s \o F)[i] = Word((t + Len(s)) + j - 1, len)
        <5> HIDE DEF s, F, t, len, j
        <5> QED BY <4>3, <4>5
      <4> HIDE DEF s, F, t, len, j
      <4> QED BY <4>4, <4>6
    <3>3. i <= Len(s) \/ i > Len(s)
      <4> HIDE DEF s, F
      <4> QED BY <1>1, <1>4, <2>4
    <3> QED BY <3>1, <3>2, <3>3
  <2>5. (t + Len(s \o F)) % len = 0
    <3>1. t + Len(s \o F) = (t + Len(s)) + len
      <4> HIDE DEF s, F, t, len
      <4> QED BY <1>1, <1>4, <2>1, <2>2
    <3>2. ((t + Len(s)) + len) % len = (t + Len(s)) % len
      <4> HIDE DEF len, t
      <4> QED BY <2>1, <2>3, Modulo
    <3> QED BY <2>3, <3>1, <3>2
  <2>6. sending' = sending /\ reading' = reading /\ meta' = meta /\ outcome' = outcome
    BY DEF SendFrame
  <2> HIDE DEF F
  <2> QED BY <1>3, <1>7, <2>2, <2>4, <2>5, <2>6 DEF OnBoundary
<1> QED BY <1>3, <1>5, <1>6, <1>7, OtherStep DEF SendFrame

(* Closing changes nothing the reader sees before the end of the stream.   *)
LEMMA CloseStep ==
  ASSUME StreamInv, NEW d \in Board, CloseConnection(d)
  PROVE  StreamInv'
<1>1. StreamTypes' /\ Enabled'
  BY DEF CloseConnection, StreamInv, StreamTypes, Enabled
<1>2. ASSUME NEW n \in Nat, OnBoundary(d, 1 + n) PROVE OnBoundary(d, 1 + n)'
  BY <1>2, StaysOnBoundary DEF CloseConnection
<1> QED BY <1>1, <1>2, OtherStep DEF CloseConnection

(* A recv moves the border between what is read and what is to come; it    *)
(* never goes past the frame, and the read ends exactly there.             *)
LEMMA RecvStep ==
  ASSUME StreamInv, NEW d \in Board, Recv(d)
  PROVE  StreamInv'
<1> DEFINE s == stream[d]
           h == meta[d]
<1>1. s \in Seq(Words) /\ h \in Seq(Words) /\ Len(s) \in Nat /\ Len(h) \in Nat /\ reading[d]
  BY DEF StreamInv, StreamTypes, Recv
<1>2. PICK k \in 0 .. Len(s) :
        /\ k <= Wanted(d)
        /\ k > 0 \/ Wanted(d) = 0
        /\ meta' = [meta EXCEPT ![d] = h \o SubSeq(s, 1, k)]
        /\ stream' = [stream EXCEPT ![d] = SubSeq(s, k + 1, Len(s))]
        /\ IF WholeFrame(Len(h) + k)
             THEN /\ reading' = [reading EXCEPT ![d] = FALSE]
                  /\ outcome' = [outcome EXCEPT ![d] = "frame"]
             ELSE UNCHANGED <<reading, outcome>>
  BY DEF Recv
<1> DEFINE taken == SubSeq(s, 1, k)
           rest == SubSeq(s, k + 1, Len(s))
<1>3. /\ taken \in Seq(Words) /\ Len(taken) = k
      /\ \A i \in 1 .. k : taken[i] = s[i]
  <2>1. \A i \in 1 .. k : s[i] \in Words
    BY <1>1, <1>2
  <2> HIDE DEF s
  <2> QED BY <1>1, <1>2, <2>1, SubSeqProperties
<1>4. /\ rest \in Seq(Words) /\ Len(rest) = Len(s) - k
      /\ \A i \in 1 .. Len(s) - k : rest[i] = s[k + i]
  <2>1. \A i \in k + 1 .. Len(s) : s[i] \in Words
    BY <1>1, <1>2
  <2> HIDE DEF s
  <2>2. /\ rest \in Seq(Words) /\ Len(rest) = IF k + 1 <= Len(s) THEN Len(s) - (k + 1) + 1 ELSE 0
        /\ \A i \in 1 .. Len(s) - (k + 1) + 1 : rest[i] = s[(k + 1) + i - 1]
    BY <1>1, <1>2, <2>1, SubSeqProperties
  <2>3. \A i \in 1 .. Len(s) - k : i \in 1 .. Len(s) - (k + 1) + 1 /\ (k + 1) + i - 1 = k + i
    BY <1>1, <1>2
  <2> HIDE DEF rest
  <2> QED BY <1>1, <1>2, <2>2, <2>3
<1>5. /\ h \o taken \in Seq(Words) /\ Len(h \o taken) = Len(h) + k
      /\ \A i \in 1 .. Len(h) + k : (h \o taken)[i] = IF i <= Len(h) THEN h[i] ELSE taken[i - Len(h)]
  <2> HIDE DEF h, taken
  <2> QED BY <1>1, <1>3, ConcatProperties
<1>6. meta'[d] = h \o taken /\ stream'[d] = rest
  BY <1>2 DEF StreamInv, StreamTypes
<1>7. StreamTypes'
  <2>1. meta' \in [Board -> Seq(Words)] /\ stream' \in [Board -> Seq(Words)]
    <3> HIDE DEF h, s, taken, rest
    <3> QED BY <1>2, <1>4, <1>5 DEF StreamInv, StreamTypes, taken, rest
  <2>2. reading' \in [Board -> BOOLEAN]
    BY <1>2 DEF StreamInv, StreamTypes
  <2>3. outcome' \in [Board -> {"none", "timed_out", "frame", "failed"}]
    BY <1>2 DEF StreamInv, StreamTypes
  <2> QED BY <2>1, <2>2, <2>3 DEF StreamInv, StreamTypes, Recv
<1>8. \A e \in Board \ {d} : /\ sending'[e] = sending[e] /\ stream'[e] = stream[e]
                              /\ reading'[e] = reading[e] /\ meta'[e] = meta[e]
                              /\ outcome'[e] = outcome[e]
  <2>1. sending' = sending
    BY DEF Recv
  <2>2. ASSUME NEW e \in Board \ {d} PROVE stream'[e] = stream[e] /\ meta'[e] = meta[e]
    BY <1>2 DEF StreamInv, StreamTypes
  <2>3. ASSUME NEW e \in Board \ {d} PROVE reading'[e] = reading[e] /\ outcome'[e] = outcome[e]
    BY <1>2 DEF StreamInv, StreamTypes
  <2> QED BY <2>1, <2>2, <2>3
<1>9. Enabled'
  <2>1. sending[d] # 0 /\ sizes # {}
    BY <1>1 DEF StreamInv, Enabled
  <2>2. sending' = sending /\ sizes' = sizes
    BY DEF Recv
  <2>3. reading'[d] => outcome'[d] # "frame"
    BY <1>1, <1>2 DEF StreamInv, StreamTypes, Enabled
  <2> QED BY <1>8, <2>1, <2>2, <2>3 DEF StreamInv, Enabled
<1>10. ASSUME NEW n \in Nat, nbyte_per_frame = 1 + n, OnBoundary(d, 1 + n) PROVE OnBoundary(d, 1 + n)'
  <2> DEFINE len == 1 + n
  <2>1. /\ len \in Nat \ {0} /\ Len(h) < len /\ Taken(d) = Len(h)
        /\ \A i \in 1 .. Len(h) : h[i] = Word(i - 1, len)
        /\ \A i \in 1 .. Len(s) : s[i] = Word(Len(h) + i - 1, len)
        /\ (Len(h) + Len(s)) % len = 0
    <3>1. len \in Nat \ {0} /\ Taken(d) = Len(h)
      BY <1>1 DEF Taken
    <3>2. reading[d] /\ (Len(h) + Len(s)) % len = 0
      BY <1>1, <1>10, <3>1 DEF OnBoundary
    <3>3. /\ Len(h) < len
          /\ \A i \in 1 .. Len(h) : h[i] = Word(i - 1, len)
      BY <1>10, <3>2 DEF OnBoundary
    <3>4. \A i \in 1 .. Len(s) : s[i] = Word(Len(h) + i - 1, len)
      BY <1>10, <3>1 DEF OnBoundary
    <3> QED BY <3>1, <3>2, <3>3, <3>4
  <2>2. k <= len - Len(h)
    BY <1>1, <1>2, <1>10, <2>1 DEF Wanted
  <2>3. ASSUME NEW i \in 1 .. Len(h) + k PROVE (h \o taken)[i] = Word(i - 1, len)
    <3>1. CASE i <= Len(h)
      <4>1. i \in 1 .. Len(h)
        BY <1>1, <2>3, <3>1
      <4>2. (h \o taken)[i] = h[i]
        BY <1>5, <3>1
      <4> QED BY <2>1, <4>1, <4>2
    <3>2. CASE ~(i <= Len(h))
      <4> DEFINE j == i - Len(h)
      <4>1. j \in 1 .. k /\ j \in 1 .. Len(s) /\ Len(h) + j - 1 = i - 1
        BY <1>1, <1>2, <2>3, <3>2
      <4>2. (h \o taken)[i] = taken[j] /\ taken[j] = s[j]
        BY <1>3, <1>5, <3>2, <4>1
      <4>3. s[j] = Word(Len(h) + j - 1, len)
        BY <2>1, <4>1
      <4> QED BY <4>1, <4>2, <4>3
    <3> QED BY <3>1, <3>2
  <2>4. sending' = sending /\ sending[d] \in {0, len}
    BY <1>10 DEF Recv, OnBoundary
  <2>5. CASE Len(h) + k = len
    <3>1. ~reading'[d] /\ Taken(d)' = 0
      <4>1. ~reading'[d]
        BY <1>2, <1>10, <2>5 DEF StreamInv, StreamTypes, WholeFrame
      <4> QED BY <4>1 DEF Taken
    <3>2. h \o taken = Frame(len)
      <4>1. /\ Frame(len) \in Seq(Words) /\ Len(Frame(len)) = len
            /\ \A i \in 1 .. len : Frame(len)[i] = Word(i - 1, len)
        <5> HIDE DEF len
        <5> QED BY <2>1, FrameWords
      <4> DEFINE f == h \o taken
                 g == Frame(len)
      <4>2. f \in Seq(Words) /\ g \in Seq(Words) /\ Len(f) = Len(g) /\ \A i \in 1 .. Len(f) : f[i] = g[i]
        <5> HIDE DEF h, taken, len, g
        <5> QED BY <1>5, <2>3, <2>5, <4>1 DEF g
      <4> HIDE DEF f, g
      <4>3. f = g
        BY <4>2, SeqEqual
      <4> QED BY <4>3 DEF f, g
    <3>3. ASSUME NEW i \in 1 .. Len(rest) PROVE rest[i] = Word(0 + i - 1, len)
      <4>1. k + i \in 1 .. Len(s) /\ rest[i] = s[k + i] /\ i \in 1 .. Len(s) - k
        BY <1>1, <1>2, <1>4, <3>3
      <4>2. rest[i] = Word(Len(h) + (k + i) - 1, len)
        BY <2>1, <4>1
      <4>3. Len(h) + (k + i) - 1 = (i - 1) + len /\ i - 1 \in Nat
        <5>1. i \in Int /\ i >= 1
          BY <1>1, <1>2, <1>4, <3>3
        <5> HIDE DEF h, s, rest, len
        <5>2. k \in Int /\ Len(h) \in Int
          BY <1>1, <1>2
        <5> QED BY <2>5, <5>1, <5>2
      <4>4. ((i - 1) + len) % len = (i - 1) % len
        <5> HIDE DEF len
        <5> QED BY <2>1, <4>3, Modulo
      <4>5. 0 + i - 1 = i - 1
        BY <1>1, <1>2, <1>4, <3>3
      <4> QED BY <4>2, <4>3, <4>4, <4>5 DEF Word
    <3>4. (0 + Len(rest)) % len = 0
      <4>1. Len(h) + Len(s) = (0 + Len(rest)) + len /\ 0 + Len(rest) \in Nat
        <5>1. k \in Int /\ Len(h) \in Int /\ Len(s) \in Int /\ k <= Len(s) /\ Len(rest) = Len(s) - k
          BY <1>1, <1>2, <1>4
        <5> HIDE DEF h, s, rest, len
        <5> QED BY <2>5, <5>1
      <4>2. ((0 + Len(rest)) + len) % len = (0 + Len(rest)) % len
        <5> HIDE DEF len, rest
        <5> QED BY <2>1, <4>1, Modulo
      <4> QED BY <2>1, <4>1, <4>2
    <3> HIDE DEF h, s, taken, rest
    <3> QED BY <1>6, <2>4, <3>1, <3>2, <3>3, <3>4 DEF OnBoundary
  <2>6. CASE Len(h) + k # len
    <3>1. reading' = reading /\ outcome' = outcome /\ outcome[d] # "frame"
      BY <1>1, <1>2, <1>10, <2>6 DEF WholeFrame, StreamInv, Enabled
    <3>2. Len(h) + k < len /\ Taken(d)' = Len(h) + k
      <4>1. Len(h) + k < len
        <5> HIDE DEF h, s, len
        <5> QED BY <1>1, <1>2, <2>1, <2>2, <2>6
      <4> HIDE DEF h, taken
      <4> QED BY <1>1, <1>5, <1>6, <3>1, <4>1 DEF Taken
    <3>3. ASSUME NEW i \in 1 .. Len(rest) PROVE rest[i] = Word((Len(h) + k) + i - 1, len)
      <4>1. k + i \in 1 .. Len(s) /\ rest[i] = s[k + i] /\ Len(h) + (k + i) - 1 = (Len(h) + k) + i - 1
        <5> HIDE DEF h, s, rest, len
        <5> QED BY <1>1, <1>2, <1>4, <3>3
      <4> HIDE DEF h, s, rest, len
      <4> QED BY <2>1, <4>1
    <3>4. ((Len(h) + k) + Len(rest)) % len = 0
      <4>1. Len(h) + Len(s) = (Len(h) + k) + Len(rest)
        <5>1. k \in Int /\ Len(h) \in Int /\ Len(s) \in Int /\ Len(rest) = Len(s) - k
          BY <1>1, <1>2, <1>4
        <5> HIDE DEF h, s, rest, len
        <5> QED BY <5>1
      <4> QED BY <2>1, <4>1
    <3> HIDE DEF h, s, taken, rest
    <3> QED BY <1>5, <1>6, <2>3, <2>4, <3>1, <3>2, <3>3, <3>4 DEF OnBoundary
  <2> QED BY <2>5, <2>6
<1> QED BY <1>7, <1>8, <1>9, <1>10, OtherStep DEF Recv

-----------------------------------------------------------------------------
(* The theorem.                                                            *)

(* The strengthened invariant implies the property.                        *)
LEMMA FramesImplied == StreamInv => ReadsOneFrame
<1> SUFFICES ASSUME StreamInv, OneSize, NEW d \in Board, outcome[d] = "frame"
             PROVE  meta[d] = Frame(nbyte_per_frame)
  BY DEF ReadsOneFrame
<1>1. sizes # {} /\ sizes \subseteq Nat /\ IsFiniteSet(sizes)
  BY DEF StreamInv, StreamTypes, Enabled
<1>2. PICK n \in Nat : sizes = {n}
  <2>1. PICK n \in sizes : TRUE
    BY <1>1
  <2>2. Cardinality(sizes \ {n}) = Cardinality(sizes) - 1 /\ IsFiniteSet(sizes \ {n})
    BY <1>1, FS_RemoveElement
  <2>3. Cardinality(sizes) \in Nat /\ Cardinality(sizes \ {n}) \in Nat
    BY <1>1, <2>2, FS_CardinalityType
  <2>4. Cardinality(sizes \ {n}) = 0
    BY <2>2, <2>3 DEF OneSize
  <2>5. sizes \ {n} = {}
    BY <2>2, <2>4, FS_EmptySet
  <2> QED BY <1>1, <2>5
<1>3. OnBoundary(d, 1 + n) /\ nbyte_per_frame = 1 + n
  BY <1>2 DEF StreamInv, Uniform
<1> QED BY <1>3 DEF OnBoundary

(* Every step keeps the strengthened invariant.                            *)
LEMMA FramesStep == Sizes \subseteq Nat /\ StreamInv /\ [StreamNext]_streamVars => StreamInv'
<1> SUFFICES ASSUME Sizes \subseteq Nat, StreamInv, [StreamNext]_streamVars PROVE StreamInv'
  OBVIOUS
<1>1. CASE UNCHANGED streamVars
  <2>1. StreamTypes' /\ Enabled'
    BY <1>1 DEF streamVars, StreamInv, StreamTypes, Enabled
  <2>2. ASSUME NEW n \in Nat, sizes' = {n} PROVE nbyte_per_frame' = 1 + n /\ \A d \in Board : OnBoundary(d, 1 + n)'
    <3>1. nbyte_per_frame' = 1 + n /\ \A d \in Board : OnBoundary(d, 1 + n)
      BY <1>1, <2>2 DEF streamVars, StreamInv, Uniform
    <3> QED BY <1>1, <3>1, StaysOnBoundary DEF streamVars
  <2> QED BY <2>1, <2>2 DEF StreamInv, Uniform
<1>2. CASE StreamNext
  <2>1. ASSUME NEW d \in Board, NEW n \in Sizes, Enable(d, n) PROVE StreamInv'
    BY <2>1, EnableStep
  <2>2. ASSUME NEW d \in Board, Disable(d) PROVE StreamInv'
    BY <2>2, DisableStep
  <2>3. ASSUME NEW d \in Board, Select(d) PROVE StreamInv'
    BY <2>3, SelectStep
  <2>4. ASSUME NEW d \in Board, Recv(d) PROVE StreamInv'
    BY <2>4, RecvStep
  <2>5. ASSUME NEW d \in Board, RecvFails(d) PROVE StreamInv'
    BY <2>5, RecvFailsStep
  <2>6. ASSUME NEW d \in Board, SendFrame(d) PROVE StreamInv'
    BY <2>6, SendStep
  <2>7. ASSUME NEW d \in Board, CloseConnection(d) PROVE StreamInv'
    BY <2>7, CloseStep
  <2> QED BY <1>2, <2>1, <2>2, <2>3, <2>4, <2>5, <2>6, <2>7 DEF StreamNext
<1> QED BY <1>1, <1>2

(* A read that succeeds returns one frame from its header on, whatever     *)
(* pieces the connection delivers, for any number of devices and any       *)
(* length, as long as the program has used only one.                       *)
THEOREM StreamReadsOneFrame == ASSUME Sizes \subseteq Nat PROVE StreamSpec => []ReadsOneFrame
<1>1. StreamInit => StreamInv
  BY FramesStart
<1>2. StreamInv /\ [StreamNext]_streamVars => StreamInv'
  BY FramesStep
<1>3. StreamInv => ReadsOneFrame
  BY FramesImplied
<1> QED BY <1>1, <1>2, <1>3, PTL DEF StreamSpec

-----------------------------------------------------------------------------
(* EthCommand: what the time-outs leave behind, and what a get reads.      *)

Asks     == [do : {"get"}, reg : Reg] \cup [do : {"hello"}]
Datagram == Asks \cup [do : {"set"}, reg : Reg, val : Value]

(* The questions of a queue.                                               *)
AsksIn(q) == {i \in DOMAIN q : q[i].do # "set"}

CmdTypes ==
  /\ phase \in {"idle", "ask", "wait"}
  /\ call \in Datagram
  /\ phase # "idle" => call \in Asks
  /\ datagrams \in Seq(Datagram)
  /\ answers \in Seq(Value \cup {Hello})
  /\ regs \in [Reg -> Value]
  /\ wrote \in [Reg -> Value]
  /\ timeouts \in Nat

(* A queue holds a number of questions.                                    *)
LEMMA AsksCounted ==
  ASSUME NEW q \in Seq(Datagram)
  PROVE  /\ AsksIn(q) \subseteq 1 .. Len(q) /\ Len(q) \in Nat
         /\ IsFiniteSet(AsksIn(q)) /\ Cardinality(AsksIn(q)) \in Nat
<1>1. AsksIn(q) \subseteq 1 .. Len(q) /\ Len(q) \in Nat
  BY LenProperties DEF AsksIn
<1>2. IsFiniteSet(1 .. Len(q))
  BY <1>1, FS_Interval
<1> QED BY <1>1, <1>2, FS_Subset, FS_CardinalityType

(* A question sent is one more.                                            *)
LEMMA AsksAppended ==
  ASSUME NEW q \in Seq(Datagram), NEW m \in Datagram
  PROVE  /\ AsksIn(Append(q, m)) = AsksIn(q) \cup (IF m.do = "set" THEN {} ELSE {Len(q) + 1})
         /\ Cardinality(AsksIn(Append(q, m))) = Cardinality(AsksIn(q)) + (IF m.do = "set" THEN 0 ELSE 1)
<1>1. AsksIn(q) \subseteq 1 .. Len(q) /\ Len(q) \in Nat /\ IsFiniteSet(AsksIn(q))
      /\ Cardinality(AsksIn(q)) \in Nat
  BY AsksCounted
<1>2. /\ DOMAIN q = 1 .. Len(q) /\ DOMAIN Append(q, m) = 1 .. Len(q) + 1
      /\ \A i \in 1 .. Len(q) : Append(q, m)[i] = q[i]
      /\ Append(q, m)[Len(q) + 1] = m
  <2>1. Append(q, m) \in Seq(Datagram) /\ Len(Append(q, m)) = Len(q) + 1
    BY AppendProperties
  <2> QED BY <2>1, AppendProperties, LenProperties
<1>3. 1 .. Len(q) + 1 = (1 .. Len(q)) \cup {Len(q) + 1}
  BY <1>1
<1>4. AsksIn(Append(q, m)) = AsksIn(q) \cup (IF m.do = "set" THEN {} ELSE {Len(q) + 1})
  BY <1>2, <1>3 DEF AsksIn
<1>5. Len(q) + 1 \notin AsksIn(q)
  BY <1>1
<1>6. Cardinality(AsksIn(q) \cup {Len(q) + 1}) = Cardinality(AsksIn(q)) + 1
  BY <1>1, <1>5, FS_AddElement
<1>7. CASE m.do = "set"
  BY <1>1, <1>4, <1>7
<1>8. CASE m.do # "set"
  BY <1>4, <1>6, <1>8
<1> QED BY <1>7, <1>8

(* A question taken is one less; the others move up.                       *)
LEMMA AsksTaken ==
  ASSUME NEW q \in Seq(Datagram), q # <<>>
  PROVE  /\ \A i : i \in AsksIn(Tail(q)) <=> i \in 1 .. Len(q) - 1 /\ i + 1 \in AsksIn(q)
         /\ 1 \in AsksIn(q) <=> Head(q).do # "set"
         /\ Cardinality(AsksIn(Tail(q))) = Cardinality(AsksIn(q)) - (IF Head(q).do = "set" THEN 0 ELSE 1)
<1>1. /\ AsksIn(q) \subseteq 1 .. Len(q) /\ Len(q) \in Nat /\ IsFiniteSet(AsksIn(q))
      /\ Cardinality(AsksIn(q)) \in Nat
  BY AsksCounted
<1>2. /\ Tail(q) \in Seq(Datagram) /\ DOMAIN q = 1 .. Len(q) /\ DOMAIN Tail(q) = 1 .. Len(q) - 1
      /\ \A i \in 1 .. Len(q) - 1 : Tail(q)[i] = q[i + 1]
      /\ Len(q) > 0 /\ Head(q) = q[1]
  <2>1. Tail(q) \in Seq(Datagram) /\ Len(Tail(q)) = Len(q) - 1
    BY HeadTailProperties
  <2>2. Len(q) > 0 /\ Head(q) = q[1]
    BY EmptySeq, <1>1
  <2> QED BY <2>1, <2>2, HeadTailProperties, LenProperties
<1>3. /\ \A i : i \in AsksIn(Tail(q)) <=> i \in 1 .. Len(q) - 1 /\ i + 1 \in AsksIn(q)
      /\ 1 \in AsksIn(q) <=> Head(q).do # "set"
  BY <1>1, <1>2 DEF AsksIn
<1>4. Cardinality(AsksIn(Tail(q))) = Cardinality(AsksIn(q) \ {1})
  <2> DEFINE S == AsksIn(q) \ {1}
             T == AsksIn(Tail(q))
             f == [i \in S |-> i - 1]
  <2>1. f \in Bijection(S, T)
    <3>1. f \in [S -> T]
      BY <1>1, <1>3
    <3>2. \A i, j \in S : f[i] = f[j] => i = j
      BY <1>1
    <3>3. \A j \in T : \E i \in S : f[i] = j
      <4> SUFFICES ASSUME NEW j \in T PROVE j + 1 \in S /\ f[j + 1] = j
        OBVIOUS
      <4> QED BY <1>1, <1>3
    <3> QED BY <3>1, <3>2, <3>3 DEF Bijection, Injection, Surjection, IsInjective
  <2>2. IsFiniteSet(S)
    BY <1>1, FS_Subset
  <2> QED BY <2>1, <2>2, FS_Bijection DEF ExistsBijection
<1>5. CASE 1 \in AsksIn(q)
  <2>1. Cardinality(AsksIn(q) \ {1}) = Cardinality(AsksIn(q)) - 1
    BY <1>1, <1>5, FS_RemoveElement
  <2> QED BY <1>3, <1>4, <1>5, <2>1
<1>6. CASE 1 \notin AsksIn(q)
  <2>1. AsksIn(q) \ {1} = AsksIn(q)
    BY <1>6
  <2>2. Cardinality(AsksIn(Tail(q))) = Cardinality(AsksIn(q)) /\ Head(q).do = "set"
    BY <1>3, <1>4, <1>6, <2>1
  <2>3. Cardinality(AsksIn(Tail(q))) = Cardinality(AsksIn(q)) - 0
    BY <1>1, <2>2
  <2> QED BY <1>3, <2>2, <2>3
<1> QED BY <1>5, <1>6

(* An opened device has had no time-out and nothing is under way.          *)
LEMMA CmdInitInv == CmdInit => CmdTypes /\ StaleAnswers
<1> SUFFICES ASSUME CmdInit PROVE CmdTypes /\ StaleAnswers
  OBVIOUS
<1>1. CmdTypes
  BY EmptySeq DEF CmdInit, CmdTypes, SayHello, Asks, Datagram
<1>2. Questions = {}
  BY EmptySeq DEF CmdInit, Questions
<1> QED BY <1>1, <1>2, FS_EmptySet, EmptySeq DEF StaleAnswers, CmdInit

(* A datagram is what it does.                                             *)
LEMMA DatagramIs ==
  ASSUME NEW m \in Datagram
  PROVE  /\ m.do \in {"get", "hello", "set"}
         /\ m.do = "set" => m.reg \in Reg /\ m.val \in Value
         /\ m.do = "get" => m.reg \in Reg
         /\ m \in Asks <=> m.do # "set"
BY DEF Datagram, Asks

(* Every step of a call, of the device and of the network keeps the types. *)
LEMMA CmdTypesStep == CmdTypes /\ [CmdNext]_cmdVars => CmdTypes'
<1> SUFFICES ASSUME CmdTypes, [CmdNext]_cmdVars PROVE CmdTypes'
  OBVIOUS
<1> USE DEF CmdTypes
<1>1. ASSUME NEW r \in Reg, NEW v \in Value, SetReg(r, v) PROVE CmdTypes'
  <2>1. Set(r, v) \in Datagram
    BY DEF Set, Datagram
  <2>2. Append(datagrams, Set(r, v)) \in Seq(Datagram) /\ [wrote EXCEPT ![r] = v] \in [Reg -> Value]
    BY <2>1, AppendProperties
  <2> HIDE DEF CmdTypes
  <2>3. /\ datagrams' \in {datagrams, Append(datagrams, Set(r, v))}
        /\ wrote' \in {wrote, [wrote EXCEPT ![r] = v]} /\ call' = Set(r, v)
        /\ phase = "idle" /\ UNCHANGED <<phase, answers, regs, timeouts>>
    BY <1>1 DEF SetReg
  <2> QED BY <2>1, <2>2, <2>3 DEF CmdTypes
<1>2. ASSUME NEW q \in Asks, NEW n, Question(q, n) PROVE CmdTypes'
  BY <1>2 DEF Question, Datagram
<1>3. CASE Sendto
  <2>1. Append(datagrams, call) \in Seq(Datagram)
    BY AppendProperties
  <2>2. /\ datagrams' \in {datagrams, Append(datagrams, call)} /\ phase' \in {"wait", "idle"}
        /\ call \in Asks /\ UNCHANGED <<call, answers, regs, wrote, timeouts>>
    BY <1>3 DEF Sendto, End
  <2> QED BY <2>1, <2>2
<1>4. CASE Recvfrom
  BY <1>4, HeadTailProperties DEF Recvfrom, End
<1>5. CASE AnswerTimesOut
  BY <1>5 DEF AnswerTimesOut, GiveUp, End
<1>6. CASE Serve
  <2>1. Head(datagrams) \in Datagram /\ Tail(datagrams) \in Seq(Datagram)
    BY <1>6, HeadTailProperties DEF Serve
  <2>2. answers' \in Seq(Value \cup {Hello}) /\ regs' \in [Reg -> Value]
    BY <1>6, <2>1, DatagramIs, AppendProperties DEF Serve
  <2> QED BY <1>6, <2>1, <2>2 DEF Serve
<1>7. CASE LoseDatagram
  BY <1>7, HeadTailProperties DEF LoseDatagram
<1>8. CASE UNCHANGED cmdVars
  BY <1>8 DEF cmdVars
<1>9. \A r \in Reg : Get(r) \in Asks /\ SayHello \in Asks
  BY DEF Get, SayHello, Asks
<1>10. SayHello \in Asks
  BY DEF SayHello, Asks
<1> QED BY <1>1, <1>2, <1>3, <1>4, <1>5, <1>6, <1>7, <1>8, <1>9, <1>10 DEF CmdNext, Caller, GetReg

(* Each time-out leaves at most one answer behind, and nothing else does.  *)
LEMMA StaleStep == CmdTypes /\ StaleAnswers /\ [CmdNext]_cmdVars => StaleAnswers'
<1> SUFFICES ASSUME CmdTypes, StaleAnswers, [CmdNext]_cmdVars PROVE StaleAnswers'
  OBVIOUS
<1> DEFINE Left(q, a, n, p) == Cardinality(AsksIn(q)) + Len(a) <= n + (IF p = "wait" THEN 1 ELSE 0)
<1>0. /\ StaleAnswers <=> Left(datagrams, answers, timeouts, phase)
      /\ StaleAnswers' <=> Left(datagrams', answers', timeouts', phase')
  BY DEF StaleAnswers, Questions, AsksIn
<1>1. /\ datagrams \in Seq(Datagram) /\ call \in Datagram
      /\ Cardinality(AsksIn(datagrams)) \in Nat /\ Len(answers) \in Nat /\ timeouts \in Nat
  BY AsksCounted, LenProperties DEF CmdTypes
<1>2. ASSUME UNCHANGED <<datagrams, answers, timeouts, phase>> PROVE StaleAnswers'
  BY <1>0, <1>2
<1>3. ASSUME NEW r \in Reg, NEW v \in Value, SetReg(r, v) PROVE StaleAnswers'
  <2>1. Set(r, v) \in Datagram /\ Set(r, v).do = "set"
    BY DEF Set, Datagram
  <2>2. PICK q : q = Append(datagrams, Set(r, v))
    OBVIOUS
  <2>3. Cardinality(AsksIn(q)) = Cardinality(AsksIn(datagrams)) + 0
    BY <1>1, <2>1, <2>2, AsksAppended
  <2>4. datagrams' = datagrams \/ datagrams' = q
    BY <1>3, <2>2 DEF SetReg
  <2>5. Cardinality(AsksIn(datagrams')) = Cardinality(AsksIn(datagrams))
    BY <1>1, <2>3, <2>4
  <2> QED BY <1>0, <1>3, <2>5 DEF SetReg
<1>4. ASSUME NEW q, NEW n, Question(q, n) PROVE StaleAnswers'
  BY <1>0, <1>4 DEF Question
<1>5. CASE Sendto
  <2>1. PICK q : q = Append(datagrams, call)
    OBVIOUS
  <2>2. Cardinality(AsksIn(q)) = Cardinality(AsksIn(datagrams)) + 1
    BY <1>1, <1>5, <2>1, AsksAppended, DatagramIs DEF CmdTypes, Sendto
  <2>3. /\ \/ datagrams' = q /\ phase' = "wait"
           \/ datagrams' = datagrams /\ phase' = "idle"
        /\ phase = "ask" /\ UNCHANGED <<answers, timeouts>>
    BY <1>5, <2>1 DEF Sendto, End
  <2> QED BY <1>0, <1>1, <2>2, <2>3
<1>6. CASE Recvfrom
  <2>1. Len(Tail(answers)) = Len(answers) - 1
    BY <1>6, HeadTailProperties DEF CmdTypes, Recvfrom
  <2> QED BY <1>0, <1>1, <1>6, <2>1 DEF Recvfrom, End
<1>7. CASE AnswerTimesOut
  BY <1>0, <1>1, <1>7 DEF AnswerTimesOut, GiveUp, End
<1>8. CASE Serve
  <2> DEFINE m == Head(datagrams)
  <2>1. m \in Datagram
    BY <1>1, <1>8, HeadTailProperties DEF Serve
  <2>2. Cardinality(AsksIn(Tail(datagrams))) =
          Cardinality(AsksIn(datagrams)) - (IF m.do = "set" THEN 0 ELSE 1)
    BY <1>1, <1>8, AsksTaken DEF Serve
  <2>3. Len(answers') = Len(answers) + (IF m.do = "set" THEN 0 ELSE 1)
    <3>1. CASE m.do = "set"
      BY <1>1, <1>8, <3>1 DEF Serve
    <3>2. CASE m.do # "set"
      <4>1. PICK a \in Value \cup {Hello} : answers' = Append(answers, a)
        BY <1>8, <2>1, <3>2, DatagramIs DEF Serve, CmdTypes
      <4> QED BY <3>2, <4>1, AppendProperties DEF CmdTypes
    <3> QED BY <3>1, <3>2
  <2> HIDE DEF m
  <2>4. datagrams' = Tail(datagrams) /\ timeouts' = timeouts /\ phase' = phase
    BY <1>8 DEF Serve
  <2> QED BY <1>0, <1>1, <2>2, <2>3, <2>4
<1>9. CASE LoseDatagram
  <2>1. CASE datagrams # <<>> /\ datagrams' = Tail(datagrams) /\ answers' = answers
    <3>1. Cardinality(AsksIn(Tail(datagrams))) \in Int
          /\ Cardinality(AsksIn(Tail(datagrams))) <= Cardinality(AsksIn(datagrams))
      BY <1>1, <2>1, AsksTaken
    <3> QED BY <1>0, <1>1, <1>9, <2>1, <3>1 DEF LoseDatagram
  <2>2. CASE answers # <<>> /\ answers' = Tail(answers) /\ datagrams' = datagrams
    <3>1. Len(Tail(answers)) = Len(answers) - 1
      BY <2>2, HeadTailProperties DEF CmdTypes
    <3>2. Len(answers') <= Len(answers) /\ Len(answers') \in Int
      BY <1>1, <2>2, <3>1
    <3>3. timeouts' = timeouts /\ phase' = phase
      BY <1>9 DEF LoseDatagram
    <3> QED BY <1>0, <1>1, <2>2, <3>2, <3>3
  <2> QED BY <1>9, <2>1, <2>2 DEF LoseDatagram
<1>10. CASE UNCHANGED cmdVars
  BY <1>2, <1>10 DEF cmdVars
<1> QED BY <1>3, <1>4, <1>5, <1>6, <1>7, <1>8, <1>9, <1>10 DEF CmdNext, Caller, GetReg

(* Answers that no call waits for exist only after time-outs, at most one  *)
(* for each, for any registers, numbers of tries and lengths of queues.    *)
THEOREM CmdStaleAnswers == CmdSpec => []StaleAnswers
<1>1. CmdTypes /\ StaleAnswers /\ [CmdNext]_cmdVars => (CmdTypes /\ StaleAnswers)'
  BY CmdTypesStep, StaleStep
<1> QED BY <1>1, CmdInitInv, PTL DEF CmdSpec

(* The sets of register r in a queue, and what r reads once it is served.  *)
SetsOf(q, r) == {i \in DOMAIN q : q[i].do = "set" /\ q[i].reg = r}
Settles(q, x, r, w) ==
  \/ SetsOf(q, r) = {} /\ x = w
  \/ \E i \in SetsOf(q, r) : (\A j \in SetsOf(q, r) : j <= i) /\ q[i].val = w

(* While nothing times out the program's own question is the last thing it *)
(* has sent, so that the device has taken every set before it.             *)
OwnQuestion ==
  /\ phase # "wait" => AsksIn(datagrams) = {} /\ answers = <<>>
  /\ AsksIn(datagrams) # {} =>
       /\ AsksIn(datagrams) = {Len(datagrams)} /\ datagrams[Len(datagrams)] = call
       /\ answers = <<>>
  /\ answers # <<>> =>
       Len(answers) = 1 /\ (call.do = "get" => Head(answers) = wrote[call.reg])

OwnWrites ==
  timeouts = 0 /\ ~setLost =>
    /\ \A r \in Reg : Settles(datagrams, regs[r], r, wrote[r])
    /\ OwnQuestion
    /\ ReadsOwnWrites

(* What a queue sets is known from the datagram sent last.                 *)
LEMMA SettlesAppended ==
  ASSUME NEW q \in Seq(Datagram), NEW m \in Datagram, NEW r, NEW x, NEW w
  PROVE  /\ ~(m.do = "set" /\ m.reg = r) /\ Settles(q, x, r, w) => Settles(Append(q, m), x, r, w)
         /\ m.do = "set" /\ m.reg = r => Settles(Append(q, m), x, r, m.val)
<1>1. PICK p : p = Append(q, m)
  OBVIOUS
<1>2. /\ Len(q) \in Nat /\ DOMAIN q = 1 .. Len(q) /\ DOMAIN p = 1 .. Len(q) + 1
      /\ \A i \in 1 .. Len(q) : p[i] = q[i]
      /\ p[Len(q) + 1] = m
  <2>1. p \in Seq(Datagram) /\ Len(p) = Len(q) + 1
    BY <1>1, AppendProperties
  <2> QED BY <1>1, <2>1, AppendProperties, LenProperties
<1>3. 1 .. Len(q) + 1 = (1 .. Len(q)) \cup {Len(q) + 1}
  BY <1>2
<1>4. SetsOf(q, r) \subseteq 1 .. Len(q)
  BY <1>2 DEF SetsOf
<1>5. CASE ~(m.do = "set" /\ m.reg = r)
  <2>1. SetsOf(p, r) = SetsOf(q, r)
    BY <1>2, <1>3, <1>5 DEF SetsOf
  <2>2. \A i \in SetsOf(q, r) : p[i] = q[i]
    BY <1>2, <1>4
  <2>3. Settles(q, x, r, w) => Settles(p, x, r, w)
    BY <2>1, <2>2 DEF Settles
  <2> QED BY <1>1, <1>5, <2>3
<1>6. CASE m.do = "set" /\ m.reg = r
  <2>1. SetsOf(p, r) = SetsOf(q, r) \cup {Len(q) + 1}
    BY <1>2, <1>3, <1>6 DEF SetsOf
  <2>2. \A j \in SetsOf(p, r) : j <= Len(q) + 1
    BY <1>2, <1>4, <2>1
  <2>3. Settles(p, x, r, m.val)
    BY <1>2, <2>1, <2>2 DEF Settles
  <2> QED BY <1>1, <1>6, <2>3
<1> QED BY <1>5, <1>6

(* Serving the first datagram leaves what the queue sets as it was.        *)
LEMMA SettlesTaken ==
  ASSUME NEW q \in Seq(Datagram), q # <<>>, NEW r, NEW x, NEW w, Settles(q, x, r, w)
  PROVE  Settles(Tail(q), IF Head(q).do = "set" /\ Head(q).reg = r THEN Head(q).val ELSE x, r, w)
<1>1. PICK p, m : p = Tail(q) /\ m = Head(q)
  OBVIOUS
<1>2. /\ Len(q) \in Nat \ {0} /\ DOMAIN q = 1 .. Len(q) /\ DOMAIN p = 1 .. Len(q) - 1
      /\ \A i \in 1 .. Len(q) - 1 : p[i] = q[i + 1]
      /\ m = q[1]
  <2>1. p \in Seq(Datagram) /\ Len(p) = Len(q) - 1
    BY <1>1, HeadTailProperties
  <2>2. Len(q) \in Nat \ {0} /\ Head(q) = q[1]
    BY EmptySeq
  <2> QED BY <1>1, <2>1, <2>2, HeadTailProperties, LenProperties
<1>3. /\ \A i : i \in SetsOf(p, r) <=> i \in 1 .. Len(q) - 1 /\ i + 1 \in SetsOf(q, r)
      /\ 1 \in SetsOf(q, r) <=> m.do = "set" /\ m.reg = r
      /\ SetsOf(q, r) \subseteq 1 .. Len(q)
  BY <1>2 DEF SetsOf
<1> DEFINE y == IF m.do = "set" /\ m.reg = r THEN m.val ELSE x
<1>4. CASE SetsOf(q, r) = {} /\ x = w
  <2>1. SetsOf(p, r) = {} /\ y = x
    BY <1>3, <1>4
  <2> QED BY <1>1, <1>4, <2>1 DEF Settles
<1>5. ASSUME NEW i \in SetsOf(q, r), \A j \in SetsOf(q, r) : j <= i, q[i].val = w
      PROVE  Settles(p, y, r, w)
  <2>0. i \in 1 .. Len(q)
    BY <1>3
  <2>1. CASE i = 1
    <3>1. SetsOf(p, r) = {}
      <4>1. ASSUME NEW j \in SetsOf(p, r) PROVE FALSE
        <5>1. j \in 1 .. Len(q) - 1 /\ j + 1 <= i
          BY <1>3, <1>5
        <5> QED BY <1>2, <2>1, <5>1
      <4> QED BY <4>1
    <3>2. y = w
      BY <1>2, <1>3, <1>5, <2>1
    <3> QED BY <3>1, <3>2 DEF Settles
  <2>2. CASE i # 1
    <3>1. i - 1 \in 1 .. Len(q) - 1 /\ (i - 1) + 1 = i
      BY <1>2, <2>0, <2>2
    <3>2. i - 1 \in SetsOf(p, r) /\ p[i - 1].val = w
      BY <1>2, <1>3, <1>5, <3>1
    <3>3. ASSUME NEW j \in SetsOf(p, r) PROVE j <= i - 1
      <4>1. j \in 1 .. Len(q) - 1 /\ j + 1 <= i
        BY <1>3, <1>5
      <4> QED BY <1>2, <2>0, <4>1
    <3> HIDE DEF y
    <3> QED BY <3>2, <3>3 DEF Settles
  <2> QED BY <2>1, <2>2
<1> QED BY <1>1, <1>4, <1>5 DEF Settles

(* On a channel on which nothing times out every step keeps the program's  *)
(* question last and its answer true.                                      *)
LEMMA OwnWritesStep == CmdTypes /\ OwnWrites /\ [CmdNext]_cmdVars => OwnWrites'
<1> SUFFICES ASSUME CmdTypes, OwnWrites, [CmdNext]_cmdVars, timeouts' = 0, ~setLost'
             PROVE  /\ \A r \in Reg : Settles(datagrams, regs[r], r, wrote[r])'
                    /\ OwnQuestion' /\ ReadsOwnWrites'
  BY DEF OwnWrites
<1> DEFINE Kept == /\ \A r \in Reg : Settles(datagrams, regs[r], r, wrote[r])
                   /\ OwnQuestion /\ ReadsOwnWrites
<1>0. timeouts \in Nat /\ datagrams \in Seq(Datagram) /\ call \in Datagram
  BY DEF CmdTypes
<1>1. timeouts = 0 /\ ~setLost => Kept
  BY DEF OwnWrites
<1> HIDE DEF Kept
<1>2. ASSUME NEW r \in Reg, NEW v \in Value, SetReg(r, v) PROVE Kept'
  <2>1. /\ phase = "idle" /\ call' = Set(r, v) /\ UNCHANGED <<phase, answers, regs, timeouts, setLost>>
        /\ \/ datagrams' = Append(datagrams, Set(r, v)) /\ wrote' = [wrote EXCEPT ![r] = v]
           \/ datagrams' = datagrams /\ wrote' = wrote
    BY <1>2 DEF SetReg
  <2>2. Kept /\ AsksIn(datagrams) = {} /\ answers = <<>>
    BY <1>1, <2>1 DEF Kept, OwnQuestion
  <2>3. PICK m : m = Set(r, v)
    OBVIOUS
  <2>4. m \in Datagram /\ m.do = "set" /\ m.reg = r /\ m.val = v
    BY <2>3 DEF Set, Datagram
  <2>5. PICK q : q = Append(datagrams, m)
    OBVIOUS
  <2>6. AsksIn(q) = {}
    BY <1>0, <2>2, <2>4, <2>5, AsksAppended
  <2>7. ASSUME NEW s \in Reg PROVE Settles(q, regs[s], s, [wrote EXCEPT ![r] = v][s])
    <3>1. Settles(datagrams, regs[s], s, wrote[s])
      BY <2>2 DEF Kept
    <3>2. CASE s = r
      <4>1. Settles(q, regs[s], s, v)
        BY <1>0, <2>4, <2>5, <3>2, SettlesAppended
      <4> QED BY <3>2, <4>1 DEF CmdTypes
    <3>3. CASE s # r
      <4>1. Settles(q, regs[s], s, wrote[s])
        BY <1>0, <2>4, <2>5, <3>1, <3>3, SettlesAppended
      <4> QED BY <3>3, <4>1 DEF CmdTypes
    <3> QED BY <3>2, <3>3
  <2>8. CASE datagrams' = q /\ wrote' = [wrote EXCEPT ![r] = v]
    <3>1. \A s \in Reg : Settles(datagrams', regs'[s], s, wrote'[s])
      BY <2>1, <2>7, <2>8
    <3>2. OwnQuestion'
      BY <2>1, <2>2, <2>6, <2>8 DEF OwnQuestion
    <3> QED BY <2>1, <2>3, <2>4, <3>1, <3>2 DEF Kept, ReadsOwnWrites
  <2>9. CASE datagrams' = datagrams /\ wrote' = wrote
    <3>1. OwnQuestion'
      BY <2>1, <2>2, <2>9 DEF OwnQuestion
    <3> QED BY <2>1, <2>2, <2>3, <2>4, <2>9, <3>1 DEF Kept, ReadsOwnWrites
  <2> QED BY <2>1, <2>3, <2>5, <2>8, <2>9
<1>3. ASSUME NEW q, NEW n, Question(q, n) PROVE Kept'
  <2>1. /\ phase = "idle" /\ phase' = "ask" /\ returned' = "none"
        /\ UNCHANGED <<datagrams, answers, regs, wrote, timeouts, setLost>>
    BY <1>3 DEF Question
  <2>2. Kept /\ AsksIn(datagrams) = {} /\ answers = <<>>
    BY <1>1, <2>1 DEF Kept, OwnQuestion
  <2> QED BY <2>1, <2>2 DEF Kept, OwnQuestion, ReadsOwnWrites
<1>4. CASE Sendto
  <2>1. PICK q : q = Append(datagrams, call)
    OBVIOUS
  <2>2. /\ phase = "ask" /\ UNCHANGED <<call, got, answers, regs, wrote, timeouts, setLost>>
        /\ \/ datagrams' = q /\ phase' = "wait" /\ returned' = returned
           \/ datagrams' = datagrams /\ phase' = "idle" /\ returned' = "failed"
    BY <1>4, <2>1 DEF Sendto, End
  <2>3. Kept /\ AsksIn(datagrams) = {} /\ answers = <<>> /\ call.do # "set"
    BY <1>1, <2>2, DatagramIs DEF Kept, OwnQuestion, CmdTypes
  <2>4. CASE datagrams' = q /\ phase' = "wait" /\ returned' = returned
    <3>1. q \in Seq(Datagram) /\ Len(q) = Len(datagrams) + 1 /\ q[Len(q)] = call
      BY <1>0, <2>1, AppendProperties
    <3>2. AsksIn(q) = {Len(q)}
      BY <1>0, <2>1, <2>3, <3>1, AsksAppended
    <3>3. \A r \in Reg : Settles(q, regs[r], r, wrote[r])
      BY <1>0, <2>1, <2>3, SettlesAppended DEF Kept
    <3>4. OwnQuestion'
      BY <2>2, <2>3, <2>4, <3>1, <3>2 DEF OwnQuestion
    <3> QED BY <2>2, <2>3, <2>4, <3>3, <3>4 DEF Kept, ReadsOwnWrites
  <2>5. CASE datagrams' = datagrams /\ phase' = "idle" /\ returned' = "failed"
    BY <2>2, <2>3, <2>5 DEF Kept, OwnQuestion, ReadsOwnWrites
  <2> QED BY <2>2, <2>4, <2>5
<1>5. CASE Recvfrom
  <2>1. /\ phase = "wait" /\ answers # <<>> /\ answers' = Tail(answers) /\ phase' = "idle"
        /\ UNCHANGED <<call, datagrams, regs, wrote, timeouts, setLost>>
        /\ got' = Head(answers) \/ returned' = "failed"
    BY <1>5 DEF Recvfrom, End
  <2>2. Kept /\ AsksIn(datagrams) = {} /\ Len(answers) = 1
        /\ (call.do = "get" => Head(answers) = wrote[call.reg])
    BY <1>1, <2>1 DEF Kept, OwnQuestion
  <2>3. answers' = <<>>
    BY <2>1, <2>2 DEF CmdTypes
  <2>4. OwnQuestion'
    BY <2>1, <2>2, <2>3 DEF OwnQuestion
  <2>5. ReadsOwnWrites'
    BY <2>1, <2>2 DEF ReadsOwnWrites
  <2> QED BY <2>1, <2>2, <2>4, <2>5 DEF Kept
<1>6. CASE AnswerTimesOut
  BY <1>0, <1>6 DEF AnswerTimesOut
<1>7. CASE Serve
  <2>1. PICK m, q : m = Head(datagrams) /\ q = Tail(datagrams)
    OBVIOUS
  <2>2. /\ datagrams # <<>> /\ datagrams' = q
        /\ regs' = (IF m.do = "set" THEN [regs EXCEPT ![m.reg] = m.val] ELSE regs)
        /\ UNCHANGED <<phase, call, returned, got, wrote, timeouts, setLost>>
    BY <1>7, <2>1 DEF Serve
  <2>3. Kept /\ m \in Datagram
    BY <1>0, <1>1, <2>1, <2>2, HeadTailProperties
  <2>4. \A r \in Reg : Settles(q, regs'[r], r, wrote[r])
    <3> SUFFICES ASSUME NEW r \in Reg PROVE Settles(q, regs'[r], r, wrote[r])
      OBVIOUS
    <3>1. Settles(q, IF m.do = "set" /\ m.reg = r THEN m.val ELSE regs[r], r, wrote[r])
      BY <1>0, <2>1, <2>2, <2>3, SettlesTaken DEF Kept
    <3>2. regs'[r] = IF m.do = "set" /\ m.reg = r THEN m.val ELSE regs[r]
      BY <2>2 DEF CmdTypes
    <3> QED BY <3>1, <3>2
  <2>5. /\ \A i : i \in AsksIn(q) <=> i \in 1 .. Len(datagrams) - 1 /\ i + 1 \in AsksIn(datagrams)
        /\ 1 \in AsksIn(datagrams) <=> m.do # "set"
        /\ q \in Seq(Datagram) /\ Len(q) = Len(datagrams) - 1
        /\ \A i \in 1 .. Len(q) : q[i] = datagrams[i + 1]
        /\ Len(datagrams) \in Nat \ {0} /\ m = datagrams[1]
    <3>1. Len(datagrams) \in Nat \ {0} /\ m = datagrams[1]
      BY <1>0, <2>1, <2>2, EmptySeq
    <3> QED BY <1>0, <2>1, <2>2, <3>1, AsksTaken, HeadTailProperties
  <2>6. CASE m.do = "set"
    <3>1. answers' = answers
      BY <1>7, <2>1, <2>6 DEF Serve
    <3>2. AsksIn(datagrams) # {} => AsksIn(q) = {Len(q)} /\ q[Len(q)] = call /\ answers = <<>>
      <4> SUFFICES ASSUME AsksIn(datagrams) # {}
                   PROVE  AsksIn(q) = {Len(q)} /\ q[Len(q)] = call /\ answers = <<>>
        OBVIOUS
      <4>1. AsksIn(datagrams) = {Len(datagrams)} /\ datagrams[Len(datagrams)] = call /\ answers = <<>>
        BY <2>3 DEF Kept, OwnQuestion
      <4>2. Len(datagrams) # 1
        BY <2>5, <2>6, <4>1
      <4>3. Len(q) \in 1 .. Len(datagrams) - 1 /\ Len(q) + 1 = Len(datagrams)
        BY <2>5, <4>2
      <4>4. \A i \in 1 .. Len(datagrams) - 1 : i + 1 = Len(datagrams) <=> i = Len(q)
        BY <2>5
      <4>5. AsksIn(q) = {Len(q)}
        BY <2>5, <4>1, <4>3, <4>4
      <4> QED BY <2>5, <4>1, <4>3, <4>5
    <3>3. AsksIn(datagrams) = {} => AsksIn(q) = {}
      BY <2>5
    <3>4. OwnQuestion'
      BY <2>2, <2>3, <3>1, <3>2, <3>3 DEF Kept, OwnQuestion
    <3> QED BY <2>2, <2>3, <2>4, <3>4 DEF Kept, ReadsOwnWrites
  <2>7. CASE m.do # "set"
    <3>1. AsksIn(datagrams) = {Len(datagrams)} /\ datagrams[Len(datagrams)] = call
          /\ answers = <<>> /\ phase = "wait"
      BY <2>3, <2>5, <2>7 DEF Kept, OwnQuestion
    <3>2. Len(datagrams) = 1 /\ m = call
      BY <2>5, <2>7, <3>1
    <3>3. AsksIn(q) = {}
      BY <2>5, <3>2
    <3>4. ASSUME call.do = "get" PROVE regs[call.reg] = wrote[call.reg]
      <4>1. call.reg \in Reg
        BY <1>0, <3>4, DatagramIs
      <4>2. SetsOf(datagrams, call.reg) = {}
        <5>1. DOMAIN datagrams = 1 .. 1
          BY <1>0, <3>2, LenProperties
        <5> QED BY <2>5, <2>7, <5>1 DEF SetsOf
      <4> QED BY <2>3, <4>1, <4>2 DEF Kept, Settles
    <3>5. \E a : answers' = <<a>> /\ (call.do = "get" => a = wrote[call.reg])
      <4>1. m.do = "get" => answers' = Append(answers, regs[m.reg])
        BY <1>7, <2>1 DEF Serve
      <4>2. m.do = "hello" => answers' = Append(answers, Hello)
        BY <1>7, <2>1 DEF Serve
      <4> QED BY <2>3, <2>7, <3>1, <3>2, <3>4, <4>1, <4>2, DatagramIs
    <3>6. OwnQuestion'
      BY <2>2, <3>1, <3>3, <3>5 DEF OwnQuestion
    <3> QED BY <2>2, <2>3, <2>4, <3>6 DEF Kept, ReadsOwnWrites
  <2> QED BY <2>6, <2>7
<1>8. CASE LoseDatagram
  <2>0. \/ setLost' = (setLost \/ Head(datagrams).do = "set")
        \/ setLost' = setLost
    BY <1>8, Zenon DEF LoseDatagram
  <2>1. UNCHANGED <<phase, call, returned, got, regs, wrote, timeouts>>
    BY <1>8 DEF LoseDatagram
  <2>2. Kept /\ ~setLost
    <3>1. ~setLost
      BY <2>0, Zenon
    <3> QED BY <1>1, <2>1, <3>1
  <2>3. CASE datagrams # <<>> /\ datagrams' = Tail(datagrams) /\ answers' = answers
             /\ Head(datagrams).do # "set"
    <3>1. PICK m, q : m = Head(datagrams) /\ q = Tail(datagrams)
      OBVIOUS
    <3>2. /\ \A i : i \in AsksIn(q) <=> i \in 1 .. Len(datagrams) - 1 /\ i + 1 \in AsksIn(datagrams)
          /\ 1 \in AsksIn(datagrams)
      BY <1>0, <2>3, <3>1, AsksTaken
    <3>3. AsksIn(datagrams) = {Len(datagrams)} /\ answers = <<>> /\ phase = "wait"
      BY <2>2, <3>2 DEF Kept, OwnQuestion
    <3>4. AsksIn(q) = {}
      BY <3>2, <3>3
    <3>5. \A r \in Reg : Settles(q, regs[r], r, wrote[r])
      BY <1>0, <2>2, <2>3, <3>1, SettlesTaken DEF Kept
    <3>6. OwnQuestion'
      BY <2>1, <2>3, <3>1, <3>3, <3>4 DEF OwnQuestion
    <3> QED BY <2>1, <2>2, <2>3, <3>1, <3>5, <3>6 DEF Kept, ReadsOwnWrites
  <2>4. CASE answers # <<>> /\ answers' = Tail(answers) /\ datagrams' = datagrams
    <3>1. AsksIn(datagrams) = {} /\ Len(answers) = 1
      BY <2>2, <2>4 DEF Kept, OwnQuestion
    <3>2. answers' = <<>>
      BY <2>4, <3>1 DEF CmdTypes
    <3>3. OwnQuestion'
      BY <2>4, <3>1, <3>2 DEF OwnQuestion
    <3> QED BY <2>1, <2>2, <2>4, <3>3 DEF Kept, ReadsOwnWrites
  <2>5. \/ /\ datagrams # <<>> /\ datagrams' = Tail(datagrams) /\ answers' = answers
           /\ ~(Head(datagrams).do = "set")
        \/ answers # <<>> /\ answers' = Tail(answers) /\ datagrams' = datagrams
    BY <1>8, Zenon DEF LoseDatagram
  <2> QED BY <2>3, <2>4, <2>5
<1>9. CASE UNCHANGED cmdVars
  <2>1. UNCHANGED <<phase, call, returned, got, datagrams, answers, regs, wrote, timeouts, setLost>>
    BY <1>9 DEF cmdVars
  <2> QED BY <1>1, <2>1 DEF Kept, OwnQuestion, ReadsOwnWrites
<1> QED BY <1>2, <1>3, <1>4, <1>5, <1>6, <1>7, <1>8, <1>9 DEF CmdNext, Caller, GetReg, Kept

(* A get reads what the program wrote last to the register, although no    *)
(* write is acknowledged, as long as no set was lost and nothing timed out.*)
THEOREM CmdReadsOwnWrites == CmdSpec => []ReadsOwnWrites
<1>1. CmdInit => CmdTypes /\ OwnWrites
  <2> SUFFICES ASSUME CmdInit PROVE CmdTypes /\ OwnWrites
    OBVIOUS
  <2>1. AsksIn(datagrams) = {} /\ \A r \in Reg : SetsOf(datagrams, r) = {}
    BY EmptySeq DEF CmdInit, AsksIn, SetsOf
  <2>2. \A r \in Reg : Settles(datagrams, regs[r], r, wrote[r])
    BY <2>1 DEF CmdInit, Settles
  <2>3. OwnQuestion /\ ReadsOwnWrites
    BY <2>1 DEF CmdInit, OwnQuestion, ReadsOwnWrites
  <2> QED BY <2>2, <2>3, CmdInitInv DEF OwnWrites
<1>2. CmdTypes /\ OwnWrites /\ [CmdNext]_cmdVars => (CmdTypes /\ OwnWrites)'
  BY CmdTypesStep, OwnWritesStep
<1>3. OwnWrites => ReadsOwnWrites
  BY DEF OwnWrites, ReadsOwnWrites
<1> QED BY <1>1, <1>2, <1>3, PTL DEF CmdSpec
=============================================================================
