------------------------------ MODULE TickTime ------------------------------
(***************************************************************************)
(* Time stamps: yunsdr_ticksToTimeNs and yunsdr_timeNsToTicks, the same in *)
(* both libraries. A rate, a double in the code, is a fraction num / den,  *)
(* and what the code computes in doubles is computed exactly.  The program *)
(* around them receives frames with time stamps and answers after a delay. *)
(***************************************************************************)
EXTENDS Integers

CONSTANTS
  Second,  \* nanoseconds of a second, 1000000000
  Rate,    \* sampling rates, of one hertz or more
  Stamp,   \* time stamps of received frames, in ticks
  Delay    \* delays of the answers, in nanoseconds

ASSUME TickTimeAssumption ==
  /\ Second \in Nat \ {0}
  /\ Stamp \subseteq Nat /\ Delay \subseteq Nat
  /\ Rate \subseteq {r \in [num : Nat \ {0}, den : Nat \ {0}] : r.num >= r.den}

VARIABLES
  rate,     \* the sampling rate of the device
  stamp,    \* the time stamp of the last frame
  nano,     \* its time
  delay,    \* the delay of the last answer
  answer    \* the time stamp it is sent at

timeVars == <<rate, stamp, nano, delay, answer>>

(* llround(a / b): to the nearest, halves away from zero.                  *)
llround(a, b) ==
  IF a >= 0 THEN (2 * a + b) \div (2 * b) ELSE -((-2 * a + b) \div (2 * b))

Whole(r) == r.num \div r.den            \* ratell
Rest(r)  == r.num - Whole(r) * r.den    \* (rate - ratell), times den

ticksToTimeNs(ticks, r) ==
  LET full == ticks \div Whole(r)
      err  == ticks - full * Whole(r)
      part == full * Rest(r)            \* times den
  IN  full * Second + llround((err * r.den - part) * Second, r.num)

(* Mutant: the correction of the whole ticks is forgotten.                 *)
TicksUncorrected(timeNs, r) ==
  LET full == timeNs \div Second
      err  == timeNs - full * Second
  IN  full * Whole(r) + llround(err * r.num, Second * r.den)

timeNsToTicks(timeNs, r) ==
  LET full == timeNs \div Second
      err  == timeNs - full * Second
      part == full * Rest(r)            \* times den
  IN  full * Whole(r) + llround(part * Second + err * r.num, Second * r.den)

-----------------------------------------------------------------------------
TimeInit ==
  /\ rate \in Rate
  /\ stamp = 0 /\ nano = 0 /\ delay = 0 /\ answer = 0

(* A program reads a frame with a later time stamp than the last.          *)
(* yunsdr_read_samples hands the stamp over as it is; converting it, and   *)
(* the time back, are the program's calls.                                 *)
ReadFrame(k) ==
  /\ k > stamp
  /\ stamp' = k
  /\ nano' = ticksToTimeNs(k, rate)
  /\ delay' = 0 /\ answer' = timeNsToTicks(nano', rate)
  /\ UNCHANGED rate

(* It writes a frame for a time after that of the last it read, converted  *)
(* by itself too; yunsdr_write_samples stores the stamp as it is.          *)
WriteFrame(t) ==
  /\ delay' = t
  /\ answer' = timeNsToTicks(nano + t, rate)
  /\ UNCHANGED <<rate, stamp, nano>>

TimeNext ==
  \/ \E k \in Stamp : ReadFrame(k)
  \/ \E t \in Delay : WriteFrame(t)

TimeSpec == TimeInit /\ [][TimeNext]_timeVars

-----------------------------------------------------------------------------
(* a / b, with b > 0, is at most one half away from x.                     *)
Nearest(x, a, b) == 2 * (x * b - a) <= b /\ -b <= 2 * (x * b - a)

(* A time stamp becomes the nearest nanosecond and a time the nearest      *)
(* tick, although whole seconds are counted with the rate cut to an        *)
(* integer and corrected afterwards, by more than a second for late stamps.*)
TimesAreNearest ==
  /\ Nearest(nano, stamp * Second * rate.den, rate.num)
  /\ Nearest(answer, (nano + delay) * rate.num, Second * rate.den)

(* Up to a tick per nanosecond no stamp is changed by the way to a time    *)
(* and back: an answer without delay is for the time of its frame.         *)
RoundTrip ==
  delay = 0 /\ rate.num <= Second * rate.den => answer = stamp
=============================================================================
