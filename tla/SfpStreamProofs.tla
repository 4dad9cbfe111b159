-------------------------- MODULE SfpStreamProofs --------------------------
(***************************************************************************)
(* Proofs about SfpStream: for any threads, lengths of frames and          *)
(* datagrams and any choice of faulty channels, reads keep within their    *)
(* buffers, a read of sound channels returns its own frames whole, and     *)
(* leaves nothing for the next one to find.                                *)
(*                                                                         *)
(* The invariant says how far a read of sound channels is (Progress): its  *)
(* request is not sent, waits or was lost, or was answered on all of its   *)
(* channels, and then what waits in a socket and what is on its way make   *)
(* up the rest of the frame (Coming, Partly).  Reads of faulty channels    *)
(* are kept apart from it by their channels and buffers (Buffers).         *)
(***************************************************************************)
EXTENDS SfpStream, SequenceTheorems, TLAPS

(* A frame of the current call is in the buffer, or part of one.           *)
Reading(t) == pc[t] \in {"recv", "copy"}

(* What a call asks for belongs to its thread.                             *)
CallOf(t) ==
  /\ call[t].chans \subseteq Streams[t] /\ left[t] \subseteq call[t].chans
  /\ pc[t] # "idle" => call[t].op \in Modes[t]
  /\ pc[t] \notin {"idle", "send"} => left[t] # {}
  /\ pc[t] = "send" => left[t] = call[t].chans

(* Outside the reading of a frame nothing has been received, and a buffer  *)
(* holds datagrams only for the thread that reads into it.                 *)
Buffers ==
  /\ \A t \in Thread : ~Reading(t) => nrecv[t] = 0
  /\ \A b \in Channel \cup Thread :
       buf[b] # <<>> => \E t \in Thread : Reading(t) /\ b = BufferOf(t)

(* Nothing is on its way to channel c, or waits there.                     *)
Empty(c) == air[c] = <<>> /\ sock[c] = <<>>

(* No request in q is for a channel of set S, or one is, namely r.         *)
Clear(q, S) == \A i \in 1 .. Len(q) : q[i].chans \cap S = {}
Once(q, S, r) ==
  \E i \in 1 .. Len(q) :
    q[i] = r /\ \A j \in 1 .. Len(q) : j # i => q[j].chans \cap S = {}

NotAsked(t) == Clear(toDev, Streams[t])
AskedOnce(t) == Once(toDev, Streams[t], call[t])

(* The frame t's call asked for on channel c.                              *)
Wanted(t, c) == Pieces([ch |-> c, count |-> call[t].count, time |-> call[t].time])

(* s and then a are all of p but the first k datagrams.                    *)
Follows(p, k, s, a) ==
  /\ k + Len(s) + Len(a) = Len(p)
  /\ \A i \in 1 .. Len(s) : s[i] = p[k + i]
  /\ \A i \in 1 .. Len(a) : a[i] = p[k + Len(s) + i]

(* That much of p waits on channel c or is on its way.                     *)
Coming(c, p, k) == Follows(p, k, sock[c], air[c])

(* The buffer holds the first datagrams of the frame that is being read.   *)
Partly(t) ==
  LET b == buf[BufferOf(t)]
      p == Wanted(t, Current(t))
  IN  /\ Coming(Current(t), p, Len(b))
      /\ \A i \in 1 .. Len(b) : b[i] = p[i]
      /\ nrecv[t] = Shorter(Len(b) * Mtu, Total(call[t].count))
      /\ pc[t] = "copy" <=> Len(b) = Len(p)

(* How far a read of sound channels is: not yet asked for, asked for or    *)
(* lost, or answered on every channel.                                     *)
Resting(t) ==
  /\ pc[t] \in {"idle", "send"} /\ NotAsked(t)
  /\ \A c \in Streams[t] : Empty(c)
Waiting(t) ==
  /\ pc[t] = "select" /\ left[t] = call[t].chans /\ (NotAsked(t) \/ AskedOnce(t))
  /\ \A c \in Streams[t] : Empty(c)
Answered(t) ==
  /\ (pc[t] = "select" \/ Reading(t)) /\ NotAsked(t)
  /\ \A c \in Streams[t] \ left[t] : Empty(c)
  /\ \A c \in left[t] : (Reading(t) /\ c = Current(t)) \/ Coming(c, Wanted(t, c), 0)
  /\ Reading(t) => Partly(t)

(* What a call has read is what it asked for.                              *)
Correct(t) ==
  /\ pc[t] # "idle" => result[t] = "none"
  /\ pc[t] = "idle" /\ result[t] = "ok" => left[t] = {}
  /\ pc[t] # "idle" \/ result[t] = "ok" =>
       \A c \in call[t].chans \ left[t] : got[t][c] = Wanted(t, c)

Progress(t) == (Resting(t) \/ Waiting(t) \/ Answered(t)) /\ Correct(t)

(* Nothing ever happens on a channel no thread reads.                      *)
Strays ==
  \A c \in Channel :
    (\A t \in Thread : c \notin Streams[t]) => Clear(toDev, {c}) /\ Empty(c)

IInv ==
  /\ TypeOK /\ Buffers /\ Strays
  /\ \A t \in Thread : CallOf(t) /\ (Sound(t) => Progress(t))

-----------------------------------------------------------------------------
(* Frames and their datagrams.                                             *)

(* Multiplication keeps order.                                             *)
LEMMA TimesMonotone ==
  ASSUME NEW a \in Nat, NEW b \in Nat, NEW m \in Nat, a <= b
  PROVE  a * m \in Nat /\ a * m <= b * m /\ (a + 1) * m = a * m + m
<1>1. PICK e \in Nat : b = a + e
  <2>1. b - a \in Nat /\ b = a + (b - a)
    OBVIOUS
  <2> QED BY <2>1
<1>2. e * m \in Nat /\ a * m \in Nat
  OBVIOUS
<1>3. (a + e) * m = a * m + e * m
  OBVIOUS
<1>4. (a + 1) * m = a * m + m
  OBVIOUS
<1> QED BY <1>1, <1>2, <1>3, <1>4

(* How many pieces of length m something of length n makes.                *)
LEMMA Ceiling ==
  ASSUME NEW n \in Nat \ {0}, NEW m \in Nat \ {0}
  PROVE  /\ (n + m - 1) \div m \in Nat \ {0}
         /\ (((n + m - 1) \div m) - 1) * m < n /\ n <= ((n + m - 1) \div m) * m
<1>1. PICK q : q = (n + m - 1) \div m
  OBVIOUS
<1>2. q \in Int /\ m * q <= n + m - 1 /\ n + m - 1 < m * q + m
  BY <1>1
<1>3. n <= m * q
  BY <1>2
<1>4. q > 0
  <2> SUFFICES ASSUME q <= 0 PROVE FALSE
    BY <1>2
  <2>1. m * q <= 0 /\ m * q \in Int
    BY <1>2
  <2> QED BY <1>3, <2>1
<1>5. q * m = m * q /\ (q - 1) * m = m * q - m
  BY <1>2
<1> QED BY <1>1, <1>2, <1>3, <1>4, <1>5

(* The datagrams of a frame follow each other without a gap, and none but  *)
(* the last one reaches its end.                                           *)
LEMMA PiecesOf ==
  ASSUME NEW f, f.count \in Nat
  PROVE  /\ Len(Pieces(f)) \in Nat \ {0} /\ DOMAIN Pieces(f) = 1 .. Len(Pieces(f))
         /\ Total(f.count) \in Nat \ {0} /\ Total(f.count) <= Len(Pieces(f)) * Mtu
         /\ \A i \in 1 .. Len(Pieces(f)) :
              /\ (i - 1) * Mtu \in Nat /\ (i - 1) * Mtu < Total(f.count)
              /\ Pieces(f)[i] = [frame |-> f, off |-> (i - 1) * Mtu,
                                 len |-> Shorter(Mtu, Total(f.count) - (i - 1) * Mtu)]
         /\ f \in Frame => Pieces(f) \in Seq(Datagram)
<1>1. PICK total : total = Total(f.count)
  OBVIOUS
<1>2. total \in Nat \ {0} /\ Mtu \in Nat \ {0}
  BY <1>1, StreamAssumption DEF Total
<1>3. PICK k : k = (total + Mtu - 1) \div Mtu
  OBVIOUS
<1>4. k \in Nat \ {0} /\ (k - 1) * Mtu < total /\ total <= k * Mtu
  BY <1>2, <1>3, Ceiling
<1>5. PICK p : p = Pieces(f)
  OBVIOUS
<1>6. p = [i \in 1 .. k |-> [frame |-> f, off |-> (i - 1) * Mtu,
                             len |-> Shorter(Mtu, total - (i - 1) * Mtu)]]
  BY <1>1, <1>3, <1>5 DEF Pieces
<1>7. DOMAIN p = 1 .. k /\ Len(p) = k
  BY <1>4, <1>6
<1>8. ASSUME NEW i \in 1 .. k PROVE (i - 1) * Mtu \in Nat /\ (i - 1) * Mtu < total
  <2>1. i - 1 \in Nat /\ k - 1 \in Nat /\ i - 1 <= k - 1 /\ Mtu \in Nat
    BY <1>2, <1>4
  <2>2. (i - 1) * Mtu \in Nat /\ (i - 1) * Mtu <= (k - 1) * Mtu
    BY <2>1, TimesMonotone
  <2>3. (k - 1) * Mtu \in Nat
    BY <2>1
  <2> QED BY <1>2, <1>4, <2>2, <2>3
<1>9. ASSUME f \in Frame PROVE p \in Seq(Datagram)
  <2>1. ASSUME NEW i \in 1 .. k
        PROVE  [frame |-> f, off |-> (i - 1) * Mtu, len |-> Shorter(Mtu, total - (i - 1) * Mtu)]
                 \in Datagram
    <3>1. PICK o \in Nat : o = (i - 1) * Mtu /\ o < total
      BY <1>8
    <3>2. Shorter(Mtu, total - o) \in Nat
      BY <1>2, <3>1 DEF Shorter
    <3> QED BY <1>9, <3>1, <3>2 DEF Datagram
  <2> QED BY <1>4, <1>6, <2>1
<1> QED BY <1>1, <1>2, <1>4, <1>5, <1>6, <1>7, <1>8, <1>9

(* A datagram that follows k others fits into what is left of the buffer,  *)
(* and the frame is complete with the last one.                            *)
LEMMA PieceFits ==
  ASSUME NEW f, f.count \in Nat, NEW k \in Nat, k < Len(Pieces(f)), NEW r,
         r = Shorter(k * Mtu, Total(f.count))
  PROVE  /\ Shorter(Pieces(f)[k + 1].len, Total(f.count) - r) = Pieces(f)[k + 1].len
         /\ r + Pieces(f)[k + 1].len = Shorter((k + 1) * Mtu, Total(f.count))
         /\ r + Pieces(f)[k + 1].len = Total(f.count) <=> k + 1 = Len(Pieces(f))
<1>1. PICK total, n, d : total = Total(f.count) /\ n = Len(Pieces(f)) /\ d = Pieces(f)[k + 1]
  OBVIOUS
<1>2. /\ total \in Nat \ {0} /\ Mtu \in Nat \ {0} /\ n \in Nat \ {0} /\ k + 1 \in 1 .. n
      /\ (k + 1) - 1 = k
  BY <1>1, PiecesOf, StreamAssumption
<1>3. k * Mtu \in Nat /\ k * Mtu < total /\ d.len = Shorter(Mtu, total - k * Mtu)
      /\ total <= n * Mtu
  <2>1. PICK i \in 1 .. n : i = k + 1 /\ i - 1 = k
    BY <1>2
  <2>2. /\ (i - 1) * Mtu \in Nat /\ (i - 1) * Mtu < total
        /\ Pieces(f)[i] = [frame |-> f, off |-> (i - 1) * Mtu,
                           len |-> Shorter(Mtu, total - (i - 1) * Mtu)]
    BY <1>1, <2>1, PiecesOf
  <2>3. Pieces(f)[i].len = Shorter(Mtu, total - (i - 1) * Mtu)
    BY <2>2
  <2>4. total <= n * Mtu
    BY <1>1, PiecesOf
  <2> QED BY <1>1, <2>1, <2>2, <2>3, <2>4
<1>4. PICK o \in Nat : o = k * Mtu
  BY <1>3
<1>5. (k + 1) * Mtu = o + Mtu
  BY <1>2, <1>4, TimesMonotone
<1>6. r = o
  BY <1>1, <1>2, <1>3, <1>4 DEF Shorter
<1>7. d.len \in Nat /\ d.len <= total - o /\ o + d.len = Shorter(o + Mtu, total)
  BY <1>2, <1>3, <1>4 DEF Shorter
<1>8. Shorter(d.len, total - o) = d.len
  BY <1>2, <1>4, <1>7 DEF Shorter
<1>9. k + 1 # n => o + Mtu < total
  <2> SUFFICES ASSUME k + 1 # n PROVE o + Mtu < total
    OBVIOUS
  <2>1. (k + 1) + 1 \in 1 .. n /\ ((k + 1) + 1) - 1 = k + 1
    BY <1>2
  <2>2. (((k + 1) + 1) - 1) * Mtu < total
    BY <1>1, <2>1, PiecesOf
  <2> QED BY <1>5, <2>1, <2>2
<1>10. k + 1 = n => total <= o + Mtu
  BY <1>3, <1>5
<1>11. o + d.len = total <=> k + 1 = n
  BY <1>2, <1>4, <1>7, <1>9, <1>10 DEF Shorter
<1> QED BY <1>1, <1>4, <1>5, <1>6, <1>7, <1>8, <1>11

-----------------------------------------------------------------------------
(* Channels and buffers.                                                   *)

(* A channel that is left to read is read next.                            *)
LEMMA CurrentIn ==
  ASSUME NEW t \in Thread, left[t] \subseteq Channel, left[t] # {}
  PROVE  Current(t) \in left[t] /\ Current(t) \in Channel
<1>1. \E c \in left[t] : \A d \in left[t] : c <= d
  <2>1. \A c \in left[t] : c \in 1 .. 4
    BY DEF Channel
  <2>2. CASE 1 \in left[t]
    BY <2>1, <2>2
  <2>3. CASE 1 \notin left[t] /\ 2 \in left[t]
    BY <2>1, <2>3
  <2>4. CASE 1 \notin left[t] /\ 2 \notin left[t] /\ 3 \in left[t]
    BY <2>1, <2>4
  <2>5. CASE 1 \notin left[t] /\ 2 \notin left[t] /\ 3 \notin left[t]
    <3>1. \A c \in left[t] : c = 4
      BY <2>1, <2>5
    <3> QED BY <3>1
  <2> QED BY <2>2, <2>3, <2>4, <2>5
<1> QED BY <1>1 DEF Current

(* A read in progress has its buffer.                                      *)
LEMMA BufferIn ==
  ASSUME TypeOK, NEW t \in Thread, CallOf(t), pc[t] \notin {"idle", "send"}
  PROVE  BufferOf(t) \in Channel \cup Thread
<1>1. Current(t) \in Channel
  BY CurrentIn DEF TypeOK, CallOf
<1>2. 1 \in Channel
  BY DEF Channel
<1> QED BY <1>1, <1>2 DEF BufferOf

(* Two threads never read into one buffer.                                 *)
LEMMA BuffersApart ==
  ASSUME TypeOK, NEW t \in Thread, NEW u \in Thread, t # u, CallOf(t), CallOf(u),
         {pc[t], pc[u]} \cap {"idle", "send"} = {}
  PROVE  BufferOf(t) # BufferOf(u)
<1>1. /\ Current(t) \in Streams[t] /\ Current(u) \in Streams[u]
      /\ Current(t) \in Channel /\ Current(u) \in Channel
  BY CurrentIn DEF TypeOK, CallOf
<1>2. 1 \in Channel /\ \A c \in Channel : c # t /\ c # u
  BY StreamAssumption DEF Channel
<1>3. Streams[t] \cap Streams[u] = {}
  BY StreamAssumption
<1>4. /\ call[t].op = "recv3" => call[u].op # "recv3" /\ 1 \notin Streams[u]
      /\ call[u].op = "recv3" => call[t].op # "recv3" /\ 1 \notin Streams[t]
  <2>1. call[t].op \in Modes[t] /\ call[u].op \in Modes[u]
    BY DEF CallOf
  <2> QED BY <2>1, StreamAssumption
<1> QED BY <1>1, <1>2, <1>3, <1>4 DEF BufferOf

-----------------------------------------------------------------------------
(* Types, and what a call, its channels and its buffer are.                *)

(* The part of the invariant that holds of every read, of faulty channels  *)
(* as well.                                                                *)
Shape == TypeOK /\ Buffers /\ \A t \in Thread : CallOf(t)

(* The first state is of this shape.                                       *)
LEMMA ShapeInit == Init => Shape
<1> SUFFICES ASSUME Init PROVE Shape
  OBVIOUS
<1>1. PICK n \in Counts, v \in Time :
        call = [t \in Thread |-> [op |-> "recv", chans |-> {}, count |-> n, time |-> v]]
  BY DEF Init
<1>2. call \in [Thread -> Request]
  BY <1>1 DEF Request, Ops
<1>3. <<>> \in Seq(Datagram) /\ <<>> \in Seq(Request)
  OBVIOUS
<1>4. TypeOK
  BY <1>2, <1>3 DEF Init, TypeOK
<1>5. Buffers
  BY DEF Init, Buffers
<1>6. \A t \in Thread : CallOf(t)
  BY <1>1 DEF Init, CallOf
<1> QED BY <1>4, <1>5, <1>6 DEF Shape

(* A step of one thread leaves the calls of the others alone.              *)
LEMMA CallOfOther ==
  ASSUME Shape, NEW t \in Thread, CallOf(t)',
         \A u \in Thread : u # t => pc'[u] = pc[u] /\ call'[u] = call[u] /\ left'[u] = left[u]
  PROVE  \A u \in Thread : CallOf(u)'
BY DEF Shape, CallOf

(* Outside the reading of a frame the buffers stay as they are.            *)
LEMMA BuffersSame ==
  ASSUME Shape, NEW t \in Thread, ~Reading(t), nrecv'[t] = 0, UNCHANGED buf,
         \A u \in Thread : u # t =>
           pc'[u] = pc[u] /\ call'[u] = call[u] /\ left'[u] = left[u] /\ nrecv'[u] = nrecv[u]
  PROVE  Buffers'
<1>1. \A u \in Thread : u # t => (Reading(u)' <=> Reading(u)) /\ BufferOf(u)' = BufferOf(u)
  <2>1. \A u \in Thread : u # t => Current(u)' = Current(u)
    BY DEF Current
  <2> QED BY <2>1 DEF Reading, BufferOf
<1>2. \A u \in Thread : ~Reading(u)' => nrecv'[u] = 0
  BY <1>1 DEF Shape, Buffers
<1>3. ASSUME NEW b \in Channel \cup Thread, buf'[b] # <<>>
      PROVE  \E u \in Thread : Reading(u)' /\ b = BufferOf(u)'
  <2>1. PICK u \in Thread : Reading(u) /\ b = BufferOf(u)
    BY <1>3 DEF Shape, Buffers
  <2> QED BY <1>1, <2>1
<1> QED BY <1>2, <1>3 DEF Buffers

(* A call starts with channels, mode and buffer of its own thread.         *)
LEMMA CallShape ==
  ASSUME Shape, NEW t \in Thread, NEW op, NEW chans \in SUBSET Streams[t], NEW n \in Counts,
         NEW v \in Time, Call(t, op, chans, n, v)
  PROVE  Shape'
<1> USE DEF Shape
<1>1. [op |-> op, chans |-> chans, count |-> n, time |-> v] \in Request /\ chans \subseteq Channel
  BY StreamAssumption DEF Call, Request
<1>2. /\ pc' = [pc EXCEPT ![t] = "send"] /\ left' = [left EXCEPT ![t] = chans] /\ pc[t] = "idle"
      /\ call' = [call EXCEPT ![t] = [op |-> op, chans |-> chans, count |-> n, time |-> v]]
      /\ got' = [got EXCEPT ![t] = [c \in Channel |-> Null]] /\ op \in Modes[t]
      /\ result' = [result EXCEPT ![t] = "none"] /\ UNCHANGED <<nrecv, buf, toDev, air, sock>>
  BY DEF Call, net
<1>3. TypeOK'
  <2>1. call' \in [Thread -> Request] /\ left' \in [Thread -> SUBSET Channel]
    BY <1>1, <1>2 DEF TypeOK
  <2>2. got' \in [Thread -> [Channel -> Seq(Datagram) \cup {Null}]]
    BY <1>2 DEF TypeOK
  <2>3. /\ pc' \in [Thread -> {"idle", "send", "select", "recv", "copy"}]
        /\ result' \in [Thread -> {"none", "ok", "failed"}]
    BY <1>2 DEF TypeOK
  <2>4. \A u \in Thread : pc'[u] \in {"recv", "copy"} => nrecv'[u] <= Total(call'[u].count)
    BY <1>2 DEF TypeOK
  <2> QED BY <1>2, <2>1, <2>2, <2>3, <2>4 DEF TypeOK
<1>4. CallOf(t)'
  BY <1>1, <1>2 DEF CallOf, TypeOK
<1>5. ~Reading(t) /\ \A u \in Thread : u # t =>
        pc'[u] = pc[u] /\ call'[u] = call[u] /\ left'[u] = left[u] /\ nrecv'[u] = nrecv[u]
  BY <1>2 DEF TypeOK, Reading
<1>6. nrecv'[t] = 0
  BY <1>2, <1>5 DEF Buffers
<1> QED BY <1>2, <1>3, <1>4, <1>5, <1>6, CallOfOther, BuffersSame

(* sendto keeps the shape, whether it succeeds or not.                     *)
LEMMA SendtoShape ==
  ASSUME Shape, NEW t \in Thread, Sendto(t)
  PROVE  Shape'
<1> USE DEF Shape
<1>1. /\ pc[t] = "send" /\ UNCHANGED <<call, left, nrecv, buf, got, air, sock>>
      /\ \/ /\ toDev' = Append(toDev, call[t]) /\ pc' = [pc EXCEPT ![t] = "select"]
            /\ UNCHANGED result /\ left[t] # {}
         \/ /\ pc' = [pc EXCEPT ![t] = "idle"] /\ result' = [result EXCEPT ![t] = "ok"]
            /\ toDev' = Append(toDev, call[t]) /\ left[t] = {}
         \/ /\ pc' = [pc EXCEPT ![t] = "idle"] /\ result' = [result EXCEPT ![t] = "failed"]
            /\ UNCHANGED toDev
  BY DEF Sendto, Goto, Return
<1>2. TypeOK'
  <2>1. toDev' \in Seq(Request)
    <3>1. call[t] \in Request /\ toDev \in Seq(Request)
      BY DEF TypeOK
    <3>2. Append(toDev, call[t]) \in Seq(Request)
      BY <3>1, AppendProperties
    <3> QED BY <1>1, <3>1, <3>2
  <2>2. pc' \in [Thread -> {"idle", "send", "select", "recv", "copy"}]
    BY <1>1 DEF TypeOK
  <2>3. \A u \in Thread : pc'[u] \in {"recv", "copy"} => nrecv'[u] <= Total(call'[u].count)
    BY <1>1 DEF TypeOK
  <2>4. result' \in [Thread -> {"none", "ok", "failed"}]
    BY <1>1 DEF TypeOK
  <2> QED BY <1>1, <2>1, <2>2, <2>3, <2>4 DEF TypeOK
<1>3. /\ pc'[t] = "idle" \/ (pc'[t] = "select" /\ left[t] # {})
      /\ \A u \in Thread : u # t => pc'[u] = pc[u]
  BY <1>1 DEF TypeOK
<1>4. CallOf(t)'
  BY <1>1, <1>3 DEF CallOf
<1>5. ~Reading(t) /\ nrecv'[t] = 0
  BY <1>1 DEF Reading, Buffers
<1> QED BY <1>1, <1>2, <1>3, <1>4, <1>5, CallOfOther, BuffersSame

(* So do both outcomes of select.                                          *)
LEMMA SelectShape ==
  ASSUME Shape, NEW t \in Thread, SelectReady(t) \/ SelectTimeout(t)
  PROVE  Shape'
<1> USE DEF Shape
<1>1. /\ pc[t] = "select" /\ UNCHANGED <<call, nrecv, buf, got, toDev, air, sock>>
      /\ \/ pc' = [pc EXCEPT ![t] = "recv"] /\ UNCHANGED <<result, left>>
         \/ /\ pc' = [pc EXCEPT ![t] = "idle"] /\ result' = [result EXCEPT ![t] = "failed"]
            /\ left' = [left EXCEPT ![t] = {}]
  BY DEF SelectReady, SelectTimeout, Goto, Return, net
<1>2. ~Reading(t) /\ nrecv[t] = 0
  BY <1>1 DEF Reading, Buffers
<1>3. TypeOK'
  <2>1. pc' \in [Thread -> {"idle", "send", "select", "recv", "copy"}]
        /\ left' \in [Thread -> SUBSET Channel]
    BY <1>1 DEF TypeOK
  <2>2. 0 <= Total(call[t].count)
    <3>1. call[t] \in Request
      BY DEF TypeOK
    <3>2. call[t].count \in Nat /\ HeaderLen \in Nat
      BY <3>1, StreamAssumption DEF Request
    <3> QED BY <3>2 DEF Total
  <2>3. \A u \in Thread : pc'[u] \in {"recv", "copy"} => nrecv'[u] <= Total(call'[u].count)
    BY <1>1, <1>2, <2>2 DEF TypeOK
  <2>4. result' \in [Thread -> {"none", "ok", "failed"}]
    BY <1>1 DEF TypeOK
  <2> QED BY <1>1, <2>1, <2>3, <2>4 DEF TypeOK
<1>4. /\ (pc'[t] = "recv" /\ left'[t] = left[t]) \/ (pc'[t] = "idle" /\ left'[t] = {})
      /\ \A u \in Thread : u # t => pc'[u] = pc[u] /\ left'[u] = left[u]
  BY <1>1 DEF TypeOK
<1>5. CallOf(t)'
  BY <1>1, <1>4 DEF CallOf
<1> QED BY <1>1, <1>2, <1>3, <1>4, <1>5, CallOfOther, BuffersSame

(* The other readers' buffers are their own.                               *)
LEMMA OtherBuffers ==
  ASSUME Shape, NEW t \in Thread, Reading(t),
         \A u \in Thread : u # t =>
           pc'[u] = pc[u] /\ call'[u] = call[u] /\ left'[u] = left[u] /\ nrecv'[u] = nrecv[u]
  PROVE  /\ \A u \in Thread : u # t => Reading(u)' = Reading(u) /\ BufferOf(u)' = BufferOf(u)
         /\ \A u \in Thread : u # t /\ Reading(u) => BufferOf(u) # BufferOf(t)
         /\ \A u \in Thread : u # t /\ ~Reading(u)' => nrecv'[u] = 0
         /\ \A b \in Channel \cup Thread : b # BufferOf(t) /\ buf[b] # <<>> =>
              \E u \in Thread : u # t /\ Reading(u) /\ b = BufferOf(u)
<1>1. \A u \in Thread : u # t => Reading(u)' = Reading(u) /\ BufferOf(u)' = BufferOf(u)
  <2>1. \A u \in Thread : u # t => Current(u)' = Current(u)
    BY DEF Current
  <2> QED BY <2>1 DEF Reading, BufferOf
<1>2. \A u \in Thread : u # t /\ Reading(u) => BufferOf(u) # BufferOf(t)
  BY BuffersApart DEF Shape, Reading
<1>3. \A u \in Thread : u # t /\ ~Reading(u)' => nrecv'[u] = 0
  BY <1>1 DEF Shape, Buffers
<1>4. \A b \in Channel \cup Thread : b # BufferOf(t) /\ buf[b] # <<>> =>
        \E u \in Thread : u # t /\ Reading(u) /\ b = BufferOf(u)
  BY DEF Shape, Buffers
<1> QED BY <1>1, <1>2, <1>3, <1>4

(* The datagram that recvfrom takes, and what it keeps of it.              *)
LEMMA Received ==
  ASSUME Shape, NEW t \in Thread, Recvfrom(t)
  PROVE  \E c \in Channel, b \in Channel \cup Thread, d \in Datagram, n \in Nat :
           /\ c = Current(t) /\ c \in left[t] /\ b = BufferOf(t) /\ d = Head(sock[c])
           /\ n = Shorter(d.len, Total(call[t].count) - nrecv[t])
           /\ nrecv[t] + n <= Total(call[t].count) /\ sock[c] # <<>>
           /\ pc[t] = "recv" /\ UNCHANGED <<call, left, got, toDev, air, result>>
           /\ sock' = [sock EXCEPT ![c] = Tail(@)]
           /\ buf' = [buf EXCEPT ![b] = Append(@, [d EXCEPT !.len = n])]
           /\ nrecv' = [nrecv EXCEPT ![t] = @ + n]
           /\ pc' = [pc EXCEPT ![t] =
                       IF nrecv[t] + n = Total(call[t].count) THEN "copy" ELSE "recv"]
<1> USE DEF Shape
<1>1. pc[t] = "recv" /\ Current(t) \in Channel /\ Current(t) \in left[t]
      /\ BufferOf(t) \in Channel \cup Thread
  BY CurrentIn, BufferIn DEF Recvfrom, TypeOK, CallOf
<1>2. PICK c \in Channel, b \in Channel \cup Thread : c = Current(t) /\ b = BufferOf(t)
  BY <1>1
<1>3. PICK d : d = Head(sock[c])
  OBVIOUS
<1>4. PICK n : n = Shorter(d.len, Room(t))
  OBVIOUS
<1>5. /\ sock[c] # <<>> /\ sock' = [sock EXCEPT ![c] = Tail(@)]
      /\ buf' = [buf EXCEPT ![b] = Append(@, [d EXCEPT !.len = n])]
      /\ nrecv' = [nrecv EXCEPT ![t] = @ + n]
      /\ pc' = [pc EXCEPT ![t] = IF nrecv[t] + n = Total(call[t].count) THEN "copy" ELSE "recv"]
      /\ UNCHANGED <<call, left, got, toDev, air, result>>
  BY <1>2, <1>3, <1>4 DEF Recvfrom, Goto, Complete
<1>6. d \in Datagram /\ d.len \in Nat
  <2>1. sock[c] \in Seq(Datagram)
    BY DEF TypeOK
  <2>2. d \in Datagram
    BY <1>3, <1>5, <2>1, HeadTailProperties
  <2> QED BY <2>2 DEF Datagram
<1>7. Total(call[t].count) \in Nat /\ nrecv[t] \in Nat /\ nrecv[t] <= Total(call[t].count)
  <2>1. call[t] \in Request /\ nrecv[t] \in Nat /\ nrecv[t] <= Total(call[t].count)
    BY <1>1 DEF TypeOK
  <2>2. call[t].count \in Nat /\ HeaderLen \in Nat
    BY <2>1, StreamAssumption DEF Request
  <2> QED BY <2>1, <2>2 DEF Total
<1>8. n \in Nat /\ n = Shorter(d.len, Total(call[t].count) - nrecv[t])
      /\ nrecv[t] + n <= Total(call[t].count)
  BY <1>4, <1>6, <1>7 DEF Room, Shorter
<1> QED BY <1>1, <1>2, <1>3, <1>5, <1>6, <1>8

(* recvfrom puts no more into the buffer than the frame has room for.      *)
LEMMA RecvfromShape ==
  ASSUME Shape, NEW t \in Thread, Recvfrom(t)
  PROVE  Shape'
<1> USE DEF Shape
<1>1. PICK c \in Channel, b \in Channel \cup Thread, d \in Datagram, n \in Nat :
           /\ c = Current(t) /\ c \in left[t] /\ b = BufferOf(t) /\ d = Head(sock[c])
           /\ n = Shorter(d.len, Total(call[t].count) - nrecv[t])
           /\ nrecv[t] + n <= Total(call[t].count) /\ sock[c] # <<>>
           /\ pc[t] = "recv" /\ UNCHANGED <<call, left, got, toDev, air, result>>
           /\ sock' = [sock EXCEPT ![c] = Tail(@)]
           /\ buf' = [buf EXCEPT ![b] = Append(@, [d EXCEPT !.len = n])]
           /\ nrecv' = [nrecv EXCEPT ![t] = @ + n]
           /\ pc' = [pc EXCEPT ![t] =
                       IF nrecv[t] + n = Total(call[t].count) THEN "copy" ELSE "recv"]
  BY Received
<1>2. TypeOK'
  <2>1. Tail(sock[c]) \in Seq(Datagram)
    BY <1>1, HeadTailProperties DEF TypeOK
  <2>2. sock' \in [Channel -> Seq(Datagram)]
    BY <1>1, <2>1 DEF TypeOK
  <2>3. [d EXCEPT !.len = n] \in Datagram
    BY DEF Datagram
  <2>4. Append(buf[b], [d EXCEPT !.len = n]) \in Seq(Datagram)
    BY <2>3, AppendProperties DEF TypeOK
  <2>5. buf' \in [Channel \cup Thread -> Seq(Datagram)]
    BY <1>1, <2>4 DEF TypeOK
  <2>6. nrecv' \in [Thread -> Nat] /\ pc' \in [Thread -> {"idle", "send", "select", "recv", "copy"}]
    BY <1>1 DEF TypeOK
  <2>7. \A u \in Thread : pc'[u] \in {"recv", "copy"} => nrecv'[u] <= Total(call'[u].count)
    BY <1>1 DEF TypeOK
  <2> QED BY <1>1, <2>2, <2>5, <2>6, <2>7 DEF TypeOK
<1>3. /\ pc'[t] \in {"recv", "copy"} /\ nrecv'[t] = nrecv[t] + n
      /\ \A u \in Thread : u # t =>
           pc'[u] = pc[u] /\ call'[u] = call[u] /\ left'[u] = left[u] /\ nrecv'[u] = nrecv[u]
  BY <1>1 DEF TypeOK
<1>4. CallOf(t)'
  BY <1>1, <1>3 DEF CallOf
<1>5. Buffers'
  <2>1. Reading(t) /\ Reading(t)' /\ BufferOf(t)' = BufferOf(t)
    <3>1. Current(t)' = Current(t)
      BY <1>1 DEF Current
    <3>2. Reading(t) /\ Reading(t)'
      BY <1>1, <1>3 DEF Reading
    <3>3. call' = call
      BY <1>1
    <3> QED BY <3>1, <3>2, <3>3 DEF BufferOf
  <2>2. /\ \A u \in Thread : u # t => Reading(u)' = Reading(u) /\ BufferOf(u)' = BufferOf(u)
        /\ \A u \in Thread : u # t /\ ~Reading(u)' => nrecv'[u] = 0
    BY <1>3, <2>1, OtherBuffers
  <2>3. \A u \in Thread : ~Reading(u)' => nrecv'[u] = 0
    BY <2>1, <2>2
  <2>4. ASSUME NEW a \in Channel \cup Thread, buf'[a] # <<>>
        PROVE  \E u \in Thread : Reading(u)' /\ a = BufferOf(u)'
    <3>1. CASE a = b
      BY <1>1, <2>1, <3>1
    <3>2. CASE a # b
      <4>1. buf[a] # <<>>
        BY <1>1, <2>4, <3>2 DEF TypeOK
      <4>2. PICK u \in Thread : u # t /\ Reading(u) /\ a = BufferOf(u)
        BY <1>1, <1>3, <2>1, <3>2, <4>1, OtherBuffers
      <4> QED BY <2>2, <4>2
    <3> QED BY <3>1, <3>2
  <2> QED BY <2>3, <2>4 DEF Buffers
<1> QED BY <1>2, <1>3, <1>4, <1>5, CallOfOther

(* A thread that stops reading leaves an empty buffer.                     *)
LEMMA BuffersForgotten ==
  ASSUME Shape, NEW t \in Thread, Reading(t), ~Reading(t)', Forget(t),
         \A u \in Thread : u # t => pc'[u] = pc[u] /\ call'[u] = call[u] /\ left'[u] = left[u]
  PROVE  /\ Buffers' /\ nrecv' \in [Thread -> Nat] /\ buf' \in [Channel \cup Thread -> Seq(Datagram)]
         /\ nrecv' = [nrecv EXCEPT ![t] = 0]
<1> USE DEF Shape
<1>1. nrecv' = [nrecv EXCEPT ![t] = 0] /\ buf' = [buf EXCEPT ![BufferOf(t)] = <<>>]
  BY DEF Forget
<1>2. \A u \in Thread : u # t => nrecv'[u] = nrecv[u]
  BY <1>1 DEF TypeOK
<1>3. nrecv' \in [Thread -> Nat] /\ nrecv'[t] = 0
  BY <1>1 DEF TypeOK
<1>4. buf' \in [Channel \cup Thread -> Seq(Datagram)]
  <2>1. <<>> \in Seq(Datagram)
    OBVIOUS
  <2> QED BY <1>1, <2>1 DEF TypeOK
<1>5. /\ \A u \in Thread : u # t => Reading(u)' = Reading(u) /\ BufferOf(u)' = BufferOf(u)
      /\ \A u \in Thread : u # t /\ ~Reading(u)' => nrecv'[u] = 0
      /\ \A b \in Channel \cup Thread : b # BufferOf(t) /\ buf[b] # <<>> =>
           \E u \in Thread : u # t /\ Reading(u) /\ b = BufferOf(u)
  BY <1>2, OtherBuffers
<1>6. ASSUME NEW b \in Channel \cup Thread, buf'[b] # <<>>
      PROVE  \E u \in Thread : Reading(u)' /\ b = BufferOf(u)'
  <2>1. b # BufferOf(t) /\ buf[b] # <<>>
    BY <1>1, <1>6 DEF TypeOK
  <2>2. PICK u \in Thread : u # t /\ Reading(u) /\ b = BufferOf(u)
    BY <1>5, <2>1
  <2> QED BY <1>5, <2>2
<1>7. Buffers'
  BY <1>3, <1>5, <1>6 DEF Buffers
<1> QED BY <1>1, <1>3, <1>4, <1>7

(* A recvfrom that fails leaves its buffer empty.                          *)
LEMMA RecvfromFailsShape ==
  ASSUME Shape, NEW t \in Thread, RecvfromFails(t)
  PROVE  Shape'
<1> USE DEF Shape
<1>1. /\ pc[t] = "recv" /\ pc' = [pc EXCEPT ![t] = "idle"] /\ result' = [result EXCEPT ![t] = "failed"]
      /\ left' = [left EXCEPT ![t] = {}] /\ UNCHANGED <<call, got, toDev, air, sock>> /\ Forget(t)
  BY DEF RecvfromFails, Return, net
<1>2. /\ pc'[t] = "idle" /\ left'[t] = {} /\ Reading(t) /\ ~Reading(t)'
      /\ \A u \in Thread : u # t => pc'[u] = pc[u] /\ call'[u] = call[u] /\ left'[u] = left[u]
  BY <1>1 DEF TypeOK, Reading
<1>3. /\ Buffers' /\ nrecv' \in [Thread -> Nat] /\ buf' \in [Channel \cup Thread -> Seq(Datagram)]
      /\ nrecv' = [nrecv EXCEPT ![t] = 0]
  BY <1>1, <1>2, BuffersForgotten
<1>4. TypeOK'
  <2>1. /\ pc' \in [Thread -> {"idle", "send", "select", "recv", "copy"}]
        /\ left' \in [Thread -> SUBSET Channel] /\ result' \in [Thread -> {"none", "ok", "failed"}]
    BY <1>1 DEF TypeOK
  <2>2. \A u \in Thread : pc'[u] \in {"recv", "copy"} => nrecv'[u] <= Total(call'[u].count)
    BY <1>1, <1>2, <1>3 DEF TypeOK
  <2> QED BY <1>1, <1>3, <2>1, <2>2 DEF TypeOK
<1>5. CallOf(t)'
  BY <1>1, <1>2 DEF CallOf
<1> QED BY <1>1, <1>2, <1>3, <1>4, <1>5, CallOfOther

(* The frame that has been read leaves its buffer.                         *)
LEMMA CopyShape ==
  ASSUME Shape, NEW t \in Thread, Copy(t)
  PROVE  Shape'
<1> USE DEF Shape
<1>1. PICK c, b : c = Current(t) /\ b = BufferOf(t)
  OBVIOUS
<1>2. pc[t] = "copy" /\ c \in Channel /\ c \in left[t] /\ b \in Channel \cup Thread
  BY <1>1, CurrentIn, BufferIn DEF Copy, CallOf, TypeOK
<1>3. /\ got' = [got EXCEPT ![t][c] = buf[b]] /\ left' = [left EXCEPT ![t] = @ \ {c}] /\ Forget(t)
      /\ UNCHANGED <<call, toDev, air, sock>>
      /\ IF left'[t] = {} THEN Return(t, "ok") ELSE Goto(t, "select")
  BY <1>1 DEF Copy, net
<1>4. left'[t] = left[t] \ {c}
  BY <1>3 DEF TypeOK
<1>5. \/ left'[t] = {} /\ pc' = [pc EXCEPT ![t] = "idle"] /\ result' = [result EXCEPT ![t] = "ok"]
      \/ left'[t] # {} /\ pc' = [pc EXCEPT ![t] = "select"] /\ UNCHANGED result
  BY <1>3 DEF Return, Goto
<1>6. /\ (pc'[t] = "idle" \/ (pc'[t] = "select" /\ left'[t] # {})) /\ Reading(t) /\ ~Reading(t)'
      /\ \A u \in Thread : u # t => pc'[u] = pc[u] /\ call'[u] = call[u] /\ left'[u] = left[u]
  BY <1>2, <1>3, <1>5 DEF TypeOK, Reading
<1>7. /\ Buffers' /\ nrecv' \in [Thread -> Nat] /\ buf' \in [Channel \cup Thread -> Seq(Datagram)]
      /\ nrecv' = [nrecv EXCEPT ![t] = 0]
  BY <1>3, <1>6, BuffersForgotten
<1>8. TypeOK'
  <2>1. /\ pc' \in [Thread -> {"idle", "send", "select", "recv", "copy"}]
        /\ left' \in [Thread -> SUBSET Channel] /\ result' \in [Thread -> {"none", "ok", "failed"}]
    BY <1>3, <1>5 DEF TypeOK
  <2>2. got' \in [Thread -> [Channel -> Seq(Datagram) \cup {Null}]]
    BY <1>2, <1>3 DEF TypeOK
  <2>3. \A u \in Thread : pc'[u] \in {"recv", "copy"} => nrecv'[u] <= Total(call'[u].count)
    BY <1>3, <1>6, <1>7 DEF TypeOK, Reading
  <2> QED BY <1>3, <1>7, <2>1, <2>2, <2>3 DEF TypeOK
<1>9. CallOf(t)'
  BY <1>2, <1>3, <1>4, <1>6 DEF CallOf
<1> QED BY <1>3, <1>6, <1>7, <1>8, <1>9, CallOfOther

(* What the network and the device do to types.                            *)
LEMMA NetShape ==
  ASSUME Shape, Device \/ Lose \/ \E c \in Channel : Arrive(c)
  PROVE  Shape'
<1> USE DEF Shape
<1>1. UNCHANGED <<pc, call, left, nrecv, buf, got, result>>
  BY DEF Device, Lose, Arrive
<1>2. Buffers' /\ \A t \in Thread : CallOf(t)'
  BY <1>1 DEF Buffers, CallOf, Reading, BufferOf, Current
<1>3. toDev' \in Seq(Request) /\ air' \in [Channel -> Seq(Datagram)] /\ sock' \in [Channel -> Seq(Datagram)]
  <2>1. CASE Device
    <3>1. toDev # <<>> /\ toDev' = Tail(toDev) /\ UNCHANGED sock /\ toDev \in Seq(Request)
      BY <2>1 DEF Device, TypeOK
    <3>2. PICK r \in Request : r = Head(toDev)
      BY <3>1, HeadTailProperties
    <3>3. air' = [c \in Channel |->
                    IF c \in r.chans
                    THEN air[c] \o Pieces([ch |-> c, count |-> r.count, time |-> r.time])
                    ELSE air[c]]
      BY <2>1, <3>2 DEF Device
    <3>4. ASSUME NEW c \in Channel
          PROVE  air[c] \o Pieces([ch |-> c, count |-> r.count, time |-> r.time]) \in Seq(Datagram)
                 /\ air[c] \in Seq(Datagram)
      <4>1. PICK f : f = [ch |-> c, count |-> r.count, time |-> r.time]
        OBVIOUS
      <4>2. f \in Frame /\ f.count \in Nat
        BY <4>1, StreamAssumption DEF Frame, Request
      <4>3. Pieces(f) \in Seq(Datagram) /\ air[c] \in Seq(Datagram)
        BY <4>2, PiecesOf DEF TypeOK
      <4> QED BY <4>1, <4>3, ConcatProperties
    <3> QED BY <3>1, <3>3, <3>4, HeadTailProperties DEF TypeOK
  <2>2. ASSUME NEW c \in Channel, Arrive(c)
        PROVE  toDev' \in Seq(Request) /\ air' \in [Channel -> Seq(Datagram)]
               /\ sock' \in [Channel -> Seq(Datagram)]
    <3>1. /\ air[c] # <<>> /\ sock' = [sock EXCEPT ![c] = Append(@, Head(air[c]))]
          /\ air' = [air EXCEPT ![c] = Tail(@)] /\ UNCHANGED toDev
          /\ air[c] \in Seq(Datagram) /\ sock[c] \in Seq(Datagram)
      BY <2>2 DEF Arrive, TypeOK
    <3>2. Head(air[c]) \in Datagram /\ Tail(air[c]) \in Seq(Datagram)
      BY <3>1, HeadTailProperties
    <3>3. Append(sock[c], Head(air[c])) \in Seq(Datagram)
      BY <3>1, <3>2, AppendProperties
    <3> QED BY <3>1, <3>2, <3>3 DEF TypeOK
  <2>3. CASE Lose
    <3>1. CASE toDev # <<>> /\ toDev' = Tail(toDev) /\ UNCHANGED air
      BY <2>3, <3>1, HeadTailProperties DEF TypeOK, Lose
    <3>2. ASSUME NEW c \in Faulty, air[c] # <<>>, air' = [air EXCEPT ![c] = Tail(@)], UNCHANGED toDev
          PROVE  toDev' \in Seq(Request) /\ air' \in [Channel -> Seq(Datagram)]
      <4>1. c \in Channel /\ air[c] \in Seq(Datagram)
        BY StreamAssumption DEF TypeOK
      <4>2. Tail(air[c]) \in Seq(Datagram)
        BY <3>2, <4>1, HeadTailProperties
      <4> QED BY <3>2, <4>1, <4>2 DEF TypeOK
    <3> QED BY <2>3, <3>1, <3>2 DEF Lose, TypeOK
  <2> QED BY <2>1, <2>2, <2>3
<1>4. TypeOK'
  BY <1>1, <1>3 DEF TypeOK
<1> QED BY <1>2, <1>4

(* Every step keeps the shape.                                             *)
LEMMA ShapeNext == Shape /\ [Next]_vars => Shape'
<1> SUFFICES ASSUME Shape, [Next]_vars PROVE Shape'
  OBVIOUS
<1>1. CASE UNCHANGED vars
  BY <1>1 DEF vars, Shape, TypeOK, Buffers, CallOf, Reading, BufferOf, Current
<1>2. ASSUME NEW t \in Thread, Step(t) PROVE Shape'
  BY <1>2, SendtoShape, SelectShape, RecvfromShape, RecvfromFailsShape, CopyShape DEF Step
<1>3. ASSUME NEW t \in Thread, NEW n \in Counts, NEW v \in Time, NEW c \in Streams[t],
             StreamRecv(t, c, n, v)
      PROVE  Shape'
  <2>1. PICK op : Call(t, op, {c}, n, v)
    BY <1>3 DEF StreamRecv
  <2> QED BY <2>1, CallShape
<1>4. ASSUME NEW t \in Thread, NEW n \in Counts, NEW v \in Time, NEW chans \in SUBSET Streams[t],
             StreamRecv3(t, chans, n, v)
      PROVE  Shape'
  BY <1>4, CallShape DEF StreamRecv3
<1>5. CASE Device \/ Lose \/ \E c \in Channel : Arrive(c)
  BY <1>5, NetShape
<1> QED BY <1>1, <1>2, <1>3, <1>4, <1>5 DEF Next

(* Values keep their types and no buffer gets more words than the frame    *)
(* its reader asked for has.                                               *)
THEOREM SfpStreamTypeOK == Spec => []TypeOK
<1>1. Init => Shape
  BY ShapeInit
<1>2. Shape /\ [Next]_vars => Shape'
  BY ShapeNext
<1>3. Shape => TypeOK
  BY DEF Shape
<1> QED BY <1>1, <1>2, <1>3, PTL DEF Spec

-----------------------------------------------------------------------------
(* Queues of requests and of datagrams.                                    *)

(* The request at the head of a queue goes.                                *)
LEMMA QueueTail ==
  ASSUME NEW q \in Seq(Request), q # <<>>, NEW S, NEW r
  PROVE  /\ Clear(q, S) => Head(q).chans \cap S = {} /\ Clear(Tail(q), S)
         /\ Once(q, S, r) => \/ Head(q) = r /\ Clear(Tail(q), S)
                             \/ Head(q).chans \cap S = {} /\ Once(Tail(q), S, r)
<1>1. PICK n \in Nat : n = Len(q) /\ n > 0
  BY EmptySeq, LenProperties
<1>2. PICK w : w = Tail(q)
  OBVIOUS
<1>3. Len(w) = n - 1 /\ (\A i \in 1 .. n - 1 : w[i] = q[i + 1]) /\ Head(q) = q[1]
  BY <1>1, <1>2, HeadTailProperties
<1>4. ASSUME Clear(q, S) PROVE Head(q).chans \cap S = {} /\ Clear(w, S)
  BY <1>1, <1>3, <1>4 DEF Clear
<1>5. ASSUME Once(q, S, r)
      PROVE  \/ Head(q) = r /\ Clear(w, S)
             \/ Head(q).chans \cap S = {} /\ Once(w, S, r)
  <2>1. PICK i \in 1 .. n : q[i] = r /\ \A j \in 1 .. n : j # i => q[j].chans \cap S = {}
    BY <1>1, <1>5 DEF Once
  <2>2. CASE i = 1
    BY <1>1, <1>3, <2>1, <2>2 DEF Clear
  <2>3. CASE i # 1
    <3>1. i - 1 \in 1 .. n - 1 /\ w[i - 1] = r
      BY <1>1, <1>3, <2>1, <2>3
    <3>2. \A j \in 1 .. n - 1 : j # i - 1 => w[j].chans \cap S = {}
      BY <1>1, <1>3, <2>1, <2>3
    <3>3. q[1].chans \cap S = {}
      BY <1>1, <2>1, <2>3
    <3> QED BY <1>3, <3>1, <3>2, <3>3 DEF Once
  <2> QED BY <2>2, <2>3
<1> QED BY <1>2, <1>4, <1>5

(* A request joins a queue.                                                *)
LEMMA QueueAppend ==
  ASSUME NEW q \in Seq(Request), NEW S, NEW r, NEW e \in Request
  PROVE  /\ Clear(q, S) /\ e.chans \cap S = {} => Clear(Append(q, e), S)
         /\ Once(q, S, r) /\ e.chans \cap S = {} => Once(Append(q, e), S, r)
         /\ Clear(q, S) => Once(Append(q, e), S, e)
<1>1. PICK n \in Nat : n = Len(q)
  BY LenProperties
<1>2. PICK w : w = Append(q, e)
  OBVIOUS
<1>3. Len(w) = n + 1 /\ (\A i \in 1 .. n : w[i] = q[i]) /\ w[n + 1] = e
  BY <1>1, <1>2, AppendProperties
<1>4. \A i \in 1 .. n + 1 : i \in 1 .. n \/ i = n + 1
  OBVIOUS
<1>5. ASSUME Clear(q, S), e.chans \cap S = {} PROVE Clear(w, S)
  BY <1>1, <1>3, <1>4, <1>5 DEF Clear
<1>6. ASSUME Once(q, S, r), e.chans \cap S = {} PROVE Once(w, S, r)
  <2>1. PICK i \in 1 .. n : q[i] = r /\ \A j \in 1 .. n : j # i => q[j].chans \cap S = {}
    BY <1>1, <1>6 DEF Once
  <2>2. i \in 1 .. n + 1 /\ w[i] = r
    BY <1>3, <2>1
  <2>3. \A j \in 1 .. n + 1 : j # i => w[j].chans \cap S = {}
    BY <1>3, <1>4, <1>6, <2>1
  <2> QED BY <1>3, <2>2, <2>3 DEF Once
<1>7. ASSUME Clear(q, S) PROVE Once(w, S, e)
  <2>1. n + 1 \in 1 .. n + 1 /\ \A j \in 1 .. n + 1 : j # n + 1 => w[j].chans \cap S = {}
    BY <1>1, <1>3, <1>4, <1>7 DEF Clear
  <2> QED BY <1>3, <2>1 DEF Once
<1> QED BY <1>2, <1>5, <1>6, <1>7

(* A datagram that arrives keeps its place.                                *)
LEMMA FollowsArrive ==
  ASSUME NEW s \in Seq(Datagram), NEW a \in Seq(Datagram), NEW p \in Seq(Datagram), NEW k \in Nat,
         Follows(p, k, s, a), a # <<>>
  PROVE  Follows(p, k, Append(s, Head(a)), Tail(a))
<1>1. PICK m \in Nat, n \in Nat, l \in Nat : m = Len(s) /\ n = Len(a) /\ n > 0 /\ l = Len(p)
  BY EmptySeq, LenProperties
<1>2. PICK w, x : w = Append(s, Head(a)) /\ x = Tail(a)
  OBVIOUS
<1>3. Len(w) = m + 1 /\ (\A i \in 1 .. m : w[i] = s[i]) /\ w[m + 1] = a[1]
  <2>1. Head(a) \in Datagram /\ Head(a) = a[1]
    BY HeadTailProperties
  <2> QED BY <1>1, <1>2, <2>1, AppendProperties
<1>4. Len(x) = n - 1 /\ \A i \in 1 .. n - 1 : x[i] = a[i + 1]
  BY <1>1, <1>2, HeadTailProperties
<1>5. k + m + n = l /\ (\A i \in 1 .. m : s[i] = p[k + i]) /\ \A i \in 1 .. n : a[i] = p[k + m + i]
  BY <1>1 DEF Follows
<1>6. k + (m + 1) + (n - 1) = l
  <2>1. k + m + n = l
    BY <1>5
  <2> QED BY <2>1
<1>7. ASSUME NEW i \in 1 .. m + 1 PROVE w[i] = p[k + i]
  <2>1. CASE i \in 1 .. m
    BY <1>3, <1>5, <2>1
  <2>2. CASE i = m + 1
    <3>1. a[1] = p[k + m + 1] /\ k + m + 1 = k + i
      BY <1>1, <1>5, <2>2
    <3> QED BY <1>3, <2>2, <3>1
  <2> QED BY <2>1, <2>2
<1>8. ASSUME NEW i \in 1 .. n - 1 PROVE x[i] = p[k + (m + 1) + i]
  <2>1. i + 1 \in 1 .. n /\ k + m + (i + 1) = k + (m + 1) + i
    OBVIOUS
  <2>2. a[i + 1] = p[k + m + (i + 1)]
    BY <1>5, <2>1
  <2> QED BY <1>4, <2>1, <2>2
<1> QED BY <1>1, <1>2, <1>3, <1>4, <1>6, <1>7, <1>8 DEF Follows

(* The datagram at the head is the next one.                               *)
LEMMA FollowsTake ==
  ASSUME NEW s \in Seq(Datagram), NEW a \in Seq(Datagram), NEW p \in Seq(Datagram), NEW k \in Nat,
         Follows(p, k, s, a), s # <<>>
  PROVE  k < Len(p) /\ Head(s) = p[k + 1] /\ Follows(p, k + 1, Tail(s), a)
<1>1. PICK m \in Nat, n \in Nat, l \in Nat : m = Len(s) /\ m > 0 /\ n = Len(a) /\ l = Len(p)
  BY EmptySeq, LenProperties
<1>2. PICK w : w = Tail(s)
  OBVIOUS
<1>3. Len(w) = m - 1 /\ (\A i \in 1 .. m - 1 : w[i] = s[i + 1]) /\ Head(s) = s[1]
  BY <1>1, <1>2, HeadTailProperties
<1>4. k + m + n = l /\ (\A i \in 1 .. m : s[i] = p[k + i]) /\ \A i \in 1 .. n : a[i] = p[k + m + i]
  BY <1>1 DEF Follows
<1>5. k < l /\ s[1] = p[k + 1] /\ (k + 1) + (m - 1) + n = l
  <2>1. k + m + n = l /\ 1 \in 1 .. m
    <3>1. k + m + n = l
      BY <1>4
    <3>2. m > 0
      BY <1>1
    <3> QED BY <3>1, <3>2
  <2>2. s[1] = p[k + 1]
    BY <1>4, <2>1
  <2>3. k < l /\ (k + 1) + (m - 1) + n = l
    BY <1>1, <2>1
  <2> QED BY <2>2, <2>3
<1>6. ASSUME NEW i \in 1 .. m - 1 PROVE w[i] = p[(k + 1) + i]
  <2>1. i + 1 \in 1 .. m /\ k + (i + 1) = (k + 1) + i
    OBVIOUS
  <2>2. s[i + 1] = p[k + (i + 1)]
    BY <1>4, <2>1
  <2> QED BY <1>3, <2>1, <2>2
<1>7. ASSUME NEW i \in 1 .. n PROVE a[i] = p[(k + 1) + (m - 1) + i]
  <2>1. (k + 1) + (m - 1) + i = k + m + i
    OBVIOUS
  <2> QED BY <1>4, <2>1
<1> QED BY <1>1, <1>2, <1>3, <1>5, <1>6, <1>7 DEF Follows

(* All of a frame on its way, none of it, and some of it.                  *)
LEMMA FollowsEnds ==
  ASSUME NEW s \in Seq(Datagram), NEW a \in Seq(Datagram), NEW p \in Seq(Datagram)
  PROVE  /\ s = <<>> /\ a = p => Follows(p, 0, s, a)
         /\ Follows(p, Len(p), s, a) => s = <<>> /\ a = <<>>
         /\ Follows(p, 0, s, a) /\ Len(p) # 0 => s # <<>> \/ a # <<>>
<1>1. PICK m \in Nat, n \in Nat, l \in Nat : m = Len(s) /\ n = Len(a) /\ l = Len(p)
  BY LenProperties
<1>2. (m = 0 <=> s = <<>>) /\ (n = 0 <=> a = <<>>)
  BY <1>1, EmptySeq
<1>3. ASSUME s = <<>>, a = p PROVE Follows(p, 0, s, a)
  BY <1>1, <1>2, <1>3 DEF Follows
<1>4. ASSUME Follows(p, l, s, a) PROVE s = <<>> /\ a = <<>>
  <2>1. l + m + n = l
    BY <1>1, <1>4 DEF Follows
  <2> QED BY <1>2, <2>1
<1>5. ASSUME Follows(p, 0, s, a), l # 0 PROVE s # <<>> \/ a # <<>>
  <2>1. 0 + m + n = l
    BY <1>1, <1>5 DEF Follows
  <2> QED BY <1>2, <1>5, <2>1
<1> QED BY <1>1, <1>3, <1>4, <1>5

-----------------------------------------------------------------------------
(* Steps that leave the progress of a read alone.                          *)

(* A read stays where it is when nothing it depends on changes.            *)
LEMMA ProgressSame ==
  ASSUME Shape, NEW t \in Thread, Progress(t),
         pc'[t] = pc[t], call'[t] = call[t], left'[t] = left[t], nrecv'[t] = nrecv[t],
         got'[t] = got[t], result'[t] = result[t],
         Reading(t) => buf'[BufferOf(t)] = buf[BufferOf(t)],
         \A c \in Streams[t] : sock'[c] = sock[c] /\ air'[c] = air[c],
         NotAsked(t) => NotAsked(t)', AskedOnce(t) => NotAsked(t)' \/ AskedOnce(t)'
  PROVE  Progress(t)'
<1> USE DEF Shape
<1>1. left[t] \subseteq Streams[t]
  BY DEF CallOf
<1>2. (Reading(t)' <=> Reading(t)) /\ Current(t)' = Current(t) /\ BufferOf(t)' = BufferOf(t)
  <2>1. Current(t)' = Current(t)
    BY DEF Current
  <2> QED BY <2>1 DEF Reading, BufferOf
<1>3. \A c \in Streams[t] : (Empty(c)' <=> Empty(c)) /\ \A p, k : Coming(c, p, k)' <=> Coming(c, p, k)
  BY DEF Empty, Coming
<1>4. \A c : Wanted(t, c)' = Wanted(t, c)
  BY DEF Wanted
<1>5. Correct(t)'
  BY <1>4 DEF Progress, Correct
<1>6. CASE Resting(t)
  <2>1. Resting(t)'
    BY <1>3, <1>6 DEF Resting
  <2> QED BY <1>5, <2>1 DEF Progress
<1>7. CASE Waiting(t)
  <2>1. Waiting(t)'
    BY <1>3, <1>7 DEF Waiting
  <2> QED BY <1>5, <2>1 DEF Progress
<1>8. CASE Answered(t)
  <2>1. /\ (pc'[t] = "select" \/ Reading(t)') /\ NotAsked(t)'
        /\ \A c \in Streams[t] \ left'[t] : Empty(c)'
    BY <1>2, <1>3, <1>8 DEF Answered
  <2>2. \A c \in left'[t] : (Reading(t)' /\ c = Current(t)') \/ Coming(c, Wanted(t, c), 0)'
    <3> SUFFICES ASSUME NEW c \in left[t], ~(Reading(t) /\ c = Current(t))
                 PROVE  Coming(c, Wanted(t, c), 0)'
      BY <1>2
    <3>1. Coming(c, Wanted(t, c), 0)
      BY <1>8 DEF Answered
    <3>2. c \in Streams[t] /\ Wanted(t, c)' = Wanted(t, c)
      BY <1>1, <1>4
    <3> QED BY <3>1, <3>2 DEF Coming
  <2>3. ASSUME Reading(t)' PROVE Partly(t)'
    <3>1. Reading(t) /\ Partly(t)
      BY <1>2, <1>8, <2>3 DEF Answered
    <3>2. Current(t) \in Streams[t]
      BY <1>1, <3>1, CurrentIn DEF Reading, TypeOK, CallOf
    <3>3. PICK c, b, p : c = Current(t) /\ b = buf[BufferOf(t)] /\ p = Wanted(t, c)
      OBVIOUS
    <3>4. c = Current(t)' /\ b = buf[BufferOf(t)]' /\ p = Wanted(t, Current(t))'
      BY <1>2, <1>4, <3>1, <3>3
    <3>5. sock'[c] = sock[c] /\ air'[c] = air[c]
      BY <3>2, <3>3
    <3>6. /\ Coming(c, p, Len(b)) /\ (\A i \in 1 .. Len(b) : b[i] = p[i])
          /\ nrecv[t] = Shorter(Len(b) * Mtu, Total(call[t].count))
          /\ pc[t] = "copy" <=> Len(b) = Len(p)
      BY <3>1, <3>3 DEF Partly
    <3>7. Coming(c, p, Len(b))'
      BY <3>3, <3>4, <3>5, <3>6 DEF Coming
    <3> QED BY <3>4, <3>6, <3>7 DEF Partly
  <2>4. Answered(t)'
    BY <2>1, <2>2, <2>3 DEF Answered
  <2> QED BY <1>5, <2>4 DEF Progress
<1> QED BY <1>6, <1>7, <1>8 DEF Progress

(* A thread touches its own variables, buffer and channels and sends       *)
(* requests for its own channels.                                          *)
LEMMA StepIsOwn ==
  ASSUME Shape, NEW u \in Thread, Step(u)
  PROVE  /\ \A t \in Thread : t # u =>
              /\ pc'[t] = pc[t] /\ call'[t] = call[t] /\ left'[t] = left[t] /\ nrecv'[t] = nrecv[t]
              /\ got'[t] = got[t] /\ result'[t] = result[t]
              /\ Reading(t) => buf'[BufferOf(t)] = buf[BufferOf(t)]
         /\ air' = air /\ \A c \in Channel \ Streams[u] : sock'[c] = sock[c]
         /\ toDev' = toDev \/ toDev' = Append(toDev, call[u])
<1> USE DEF Shape
<1>1. /\ \A t \in Thread : t # u /\ Reading(t) /\ pc[u] # "idle" => BufferOf(t) # BufferOf(u)
      /\ \A t \in Thread : Reading(t) => BufferOf(t) \in Channel \cup Thread
  BY BuffersApart, BufferIn DEF Reading
<1>2. CASE Sendto(u)
  BY <1>2 DEF Sendto, Goto, Return, TypeOK
<1>3. CASE SelectReady(u) \/ SelectTimeout(u)
  BY <1>3 DEF SelectReady, SelectTimeout, Goto, Return, TypeOK, net
<1>4. CASE Recvfrom(u)
  <2>1. PICK c \in Channel, b \in Channel \cup Thread, d \in Datagram, n \in Nat :
           /\ c = Current(u) /\ c \in left[u] /\ b = BufferOf(u)
           /\ pc[u] = "recv" /\ UNCHANGED <<call, left, got, toDev, air, result>>
           /\ sock' = [sock EXCEPT ![c] = Tail(@)]
           /\ buf' = [buf EXCEPT ![b] = Append(@, [d EXCEPT !.len = n])]
           /\ nrecv' = [nrecv EXCEPT ![u] = @ + n]
           /\ pc' = [pc EXCEPT ![u] =
                       IF nrecv[u] + n = Total(call[u].count) THEN "copy" ELSE "recv"]
    BY <1>4, Received
  <2>2. c \in Streams[u]
    BY <2>1 DEF CallOf
  <2>3. \A t \in Thread : t # u /\ Reading(t) => buf'[BufferOf(t)] = buf[BufferOf(t)]
    BY <1>1, <2>1 DEF TypeOK
  <2>4. \A e \in Channel \ Streams[u] : sock'[e] = sock[e]
    BY <2>1, <2>2 DEF TypeOK
  <2>5. \A t \in Thread : t # u =>
          /\ pc'[t] = pc[t] /\ call'[t] = call[t] /\ left'[t] = left[t] /\ nrecv'[t] = nrecv[t]
          /\ got'[t] = got[t] /\ result'[t] = result[t]
    BY <2>1 DEF TypeOK
  <2> QED BY <2>1, <2>3, <2>4, <2>5
<1>5. ASSUME RecvfromFails(u) \/ Copy(u)
      PROVE  /\ \A t \in Thread : t # u =>
                  /\ pc'[t] = pc[t] /\ call'[t] = call[t] /\ left'[t] = left[t]
                  /\ got'[t] = got[t] /\ result'[t] = result[t]
             /\ Forget(u) /\ pc[u] # "idle" /\ UNCHANGED net
  <2>1. CASE RecvfromFails(u)
    BY <2>1 DEF RecvfromFails, Return, TypeOK
  <2>2. CASE Copy(u)
    <3>1. /\ pc' = [pc EXCEPT ![u] = "idle"] \/ pc' = [pc EXCEPT ![u] = "select"]
          /\ result' = result \/ result' = [result EXCEPT ![u] = "ok"]
      BY <2>2 DEF Copy, Return, Goto
    <3>2. /\ got' = [got EXCEPT ![u][Current(u)] = buf[BufferOf(u)]] /\ UNCHANGED call
          /\ left' = [left EXCEPT ![u] = @ \ {Current(u)}] /\ Forget(u) /\ pc[u] = "copy" /\ UNCHANGED net
      BY <2>2 DEF Copy
    <3> QED BY <3>1, <3>2 DEF TypeOK
  <2> QED BY <1>5, <2>1, <2>2
<1>6. CASE RecvfromFails(u) \/ Copy(u)
  <2>1. nrecv' = [nrecv EXCEPT ![u] = 0] /\ buf' = [buf EXCEPT ![BufferOf(u)] = <<>>]
    BY <1>5, <1>6 DEF Forget
  <2>2. \A t \in Thread : t # u => nrecv'[t] = nrecv[t]
    BY <2>1 DEF TypeOK
  <2>3. \A t \in Thread : t # u /\ Reading(t) => buf'[BufferOf(t)] = buf[BufferOf(t)]
    BY <1>1, <1>5, <1>6, <2>1 DEF TypeOK
  <2>4. air' = air /\ sock' = sock /\ toDev' = toDev
    BY <1>5, <1>6 DEF net
  <2> QED BY <1>5, <1>6, <2>2, <2>3, <2>4
<1> QED BY <1>2, <1>3, <1>4, <1>6 DEF Step

(* What one thread does leaves the reads of the others where they are.     *)
LEMMA StepOther ==
  ASSUME Shape, NEW t \in Thread, Progress(t), NEW u \in Thread, u # t, Step(u)
  PROVE  Progress(t)'
<1>1. /\ pc'[t] = pc[t] /\ call'[t] = call[t] /\ left'[t] = left[t] /\ nrecv'[t] = nrecv[t]
      /\ got'[t] = got[t] /\ result'[t] = result[t]
      /\ Reading(t) => buf'[BufferOf(t)] = buf[BufferOf(t)]
      /\ air' = air /\ (\A c \in Channel \ Streams[u] : sock'[c] = sock[c])
      /\ toDev' = toDev \/ toDev' = Append(toDev, call[u])
  BY StepIsOwn
<1>2. Streams[t] \subseteq Channel \ Streams[u]
  BY StreamAssumption
<1>3. \A c \in Streams[t] : sock'[c] = sock[c] /\ air'[c] = air[c]
  BY <1>1, <1>2
<1>4. (NotAsked(t) => NotAsked(t)') /\ (AskedOnce(t) => AskedOnce(t)')
  <2>1. CASE toDev' = toDev
    BY <1>1, <2>1 DEF NotAsked, AskedOnce
  <2>2. CASE toDev' = Append(toDev, call[u])
    <3>1. call[u].chans \cap Streams[t] = {}
      BY <1>2 DEF Shape, CallOf
    <3>2. toDev \in Seq(Request) /\ call[u] \in Request
      BY DEF Shape, TypeOK
    <3>3. /\ Clear(toDev, Streams[t]) => Clear(Append(toDev, call[u]), Streams[t])
          /\ Once(toDev, Streams[t], call[t]) => Once(Append(toDev, call[u]), Streams[t], call[t])
      BY <3>1, <3>2, QueueAppend
    <3> QED BY <1>1, <2>2, <3>3 DEF NotAsked, AskedOnce
  <2> QED BY <1>1, <2>1, <2>2
<1> QED BY <1>1, <1>3, <1>4, ProgressSame

(* So does the start of a call.                                            *)
LEMMA CallOther ==
  ASSUME Shape, NEW t \in Thread, Progress(t), NEW u \in Thread, u # t, NEW op, NEW chans,
         NEW n, NEW v, Call(u, op, chans, n, v)
  PROVE  Progress(t)'
<1>1. /\ pc'[t] = pc[t] /\ call'[t] = call[t] /\ left'[t] = left[t]
      /\ got'[t] = got[t] /\ result'[t] = result[t]
  BY DEF Call, Shape, TypeOK
<1>2. UNCHANGED <<nrecv, buf, toDev, air, sock>>
  BY DEF Call, net
<1>3. (NotAsked(t) => NotAsked(t)') /\ (AskedOnce(t) => AskedOnce(t)')
  BY <1>1, <1>2 DEF NotAsked, AskedOnce
<1> QED BY <1>1, <1>2, <1>3, ProgressSame

-----------------------------------------------------------------------------
(* The steps of a read of sound channels.                                  *)

(* The frame a call wants.                                                 *)
LEMMA WantedFrame ==
  ASSUME TypeOK, NEW t \in Thread, NEW c \in Channel
  PROVE  \E f \in Frame : /\ Wanted(t, c) = Pieces(f) /\ f.count = call[t].count /\ f.count \in Nat
                          /\ Wanted(t, c) \in Seq(Datagram) /\ Len(Wanted(t, c)) \in Nat \ {0}
<1>1. PICK f : f = [ch |-> c, count |-> call[t].count, time |-> call[t].time]
  OBVIOUS
<1>2. call[t] \in Request
  BY DEF TypeOK
<1>3. f \in Frame /\ f.count = call[t].count /\ f.count \in Nat
  BY <1>1, <1>2, StreamAssumption DEF Frame, Request
<1>4. Pieces(f) \in Seq(Datagram) /\ Len(Pieces(f)) \in Nat \ {0}
  BY <1>3, PiecesOf
<1> QED BY <1>1, <1>3, <1>4 DEF Wanted

(* A read that is not receiving finds its buffer empty.                    *)
LEMMA BufferEmpty ==
  ASSUME Shape, NEW t \in Thread, ~Reading(t), pc[t] \notin {"idle", "send"}
  PROVE  buf[BufferOf(t)] = <<>> /\ nrecv[t] = 0
<1> USE DEF Shape
<1>1. BufferOf(t) \in Channel \cup Thread
  BY BufferIn
<1>2. SUFFICES ASSUME buf[BufferOf(t)] # <<>> PROVE FALSE
  BY DEF Buffers
<1>3. PICK u \in Thread : Reading(u) /\ BufferOf(t) = BufferOf(u)
  BY <1>1, <1>2 DEF Buffers
<1>4. u # t /\ {pc[t], pc[u]} \cap {"idle", "send"} = {}
  BY <1>3 DEF Reading
<1> QED BY <1>3, <1>4, BuffersApart

(* A new call finds nothing asked for and its channels empty.              *)
LEMMA CallProgress ==
  ASSUME Shape, NEW t \in Thread, Progress(t), NEW op, NEW chans, NEW n, NEW v,
         Call(t, op, chans, n, v)
  PROVE  Progress(t)'
<1>1. /\ pc[t] = "idle" /\ pc'[t] = "send" /\ left'[t] = chans /\ result'[t] = "none"
      /\ call'[t].chans = chans
  BY DEF Call, Shape, TypeOK
<1>2. UNCHANGED <<toDev, air, sock>>
  BY DEF Call, net
<1>3. Resting(t)
  BY <1>1 DEF Progress, Waiting, Answered, Reading
<1>4. Resting(t)'
  BY <1>1, <1>2, <1>3 DEF Resting, NotAsked, Empty
<1>5. Correct(t)'
  BY <1>1 DEF Correct
<1> QED BY <1>4, <1>5 DEF Progress

(* A request that is sent waits alone for its thread's channels.           *)
LEMMA SendtoProgress ==
  ASSUME Shape, NEW t \in Thread, Progress(t), Sendto(t)
  PROVE  Progress(t)'
<1> USE DEF Shape
<1>1. /\ pc[t] = "send" /\ UNCHANGED <<call, left, nrecv, buf, got, air, sock>>
      /\ \/ /\ toDev' = Append(toDev, call[t]) /\ pc' = [pc EXCEPT ![t] = "select"]
            /\ UNCHANGED result /\ left[t] # {}
         \/ /\ pc' = [pc EXCEPT ![t] = "idle"] /\ result' = [result EXCEPT ![t] = "ok"]
            /\ toDev' = Append(toDev, call[t]) /\ left[t] = {}
         \/ /\ pc' = [pc EXCEPT ![t] = "idle"] /\ result' = [result EXCEPT ![t] = "failed"]
            /\ UNCHANGED toDev
  BY DEF Sendto, Goto, Return
<1>2. Resting(t) /\ left[t] = call[t].chans /\ result[t] = "none"
  BY <1>1 DEF Progress, Waiting, Answered, Reading, Correct, CallOf
<1>3. CASE /\ toDev' = Append(toDev, call[t]) /\ pc' = [pc EXCEPT ![t] = "select"]
           /\ UNCHANGED result /\ left[t] # {}
  <2>1. toDev \in Seq(Request) /\ call[t] \in Request /\ pc'[t] = "select"
    BY <1>3 DEF TypeOK
  <2>2. Once(toDev', Streams[t], call[t])
    BY <1>2, <1>3, <2>1, QueueAppend DEF Resting, NotAsked
  <2>3. AskedOnce(t)'
    BY <1>1, <2>2 DEF AskedOnce
  <2>4. Waiting(t)'
    BY <1>1, <1>2, <2>1, <2>3 DEF Waiting, Resting, Empty
  <2>5. Correct(t)'
    BY <1>1, <1>2, <1>3, <2>1 DEF Correct
  <2> QED BY <2>4, <2>5 DEF Progress
<1>4. CASE pc' = [pc EXCEPT ![t] = "idle"] /\ result' = [result EXCEPT ![t] = "failed"] /\ UNCHANGED toDev
  <2>1. pc'[t] = "idle" /\ result'[t] = "failed"
    BY <1>4 DEF TypeOK
  <2>2. Resting(t)'
    BY <1>1, <1>2, <1>4, <2>1 DEF Resting, NotAsked, Empty
  <2>3. Correct(t)'
    BY <2>1 DEF Correct
  <2> QED BY <2>2, <2>3 DEF Progress
<1>5. CASE /\ pc' = [pc EXCEPT ![t] = "idle"] /\ result' = [result EXCEPT ![t] = "ok"]
           /\ toDev' = Append(toDev, call[t]) /\ left[t] = {}
  <2>1. toDev \in Seq(Request) /\ call[t] \in Request /\ pc'[t] = "idle"
    BY <1>5 DEF TypeOK
  <2>2. NotAsked(t)'
    BY <1>2, <1>5, <2>1, QueueAppend DEF Resting, NotAsked
  <2>3. Resting(t)'
    BY <1>1, <1>2, <2>1, <2>2 DEF Resting, Empty
  <2>4. Correct(t)'
    BY <1>1, <1>2, <1>5, <2>1 DEF Correct, TypeOK
  <2> QED BY <2>3, <2>4 DEF Progress
<1> QED BY <1>1, <1>3, <1>4, <1>5

(* select reports a datagram only when the request was answered.           *)
LEMMA SelectReadyProgress ==
  ASSUME Shape, NEW t \in Thread, Progress(t), SelectReady(t)
  PROVE  Progress(t)'
<1> USE DEF Shape
<1>1. /\ pc[t] = "select" /\ sock[Current(t)] # <<>> /\ pc' = [pc EXCEPT ![t] = "recv"]
      /\ UNCHANGED <<call, left, nrecv, buf, got, toDev, air, sock, result>>
  BY DEF SelectReady, Goto, net
<1>2. PICK c \in Channel : c = Current(t) /\ c \in left[t] /\ c \in Streams[t]
  BY <1>1, CurrentIn DEF TypeOK, CallOf
<1>3. pc'[t] = "recv" /\ Reading(t)' /\ ~Reading(t)
  BY <1>1 DEF TypeOK, Reading
<1>4. Answered(t)
  BY <1>1, <1>2 DEF Progress, Resting, Waiting, Empty
<1>5. Coming(c, Wanted(t, c), 0)
  BY <1>2, <1>3, <1>4 DEF Answered
<1>6. buf[BufferOf(t)] = <<>> /\ nrecv[t] = 0
  BY <1>1, <1>3, BufferEmpty
<1>7. PICK f \in Frame : /\ Wanted(t, c) = Pieces(f) /\ f.count = call[t].count /\ f.count \in Nat
                         /\ Len(Wanted(t, c)) \in Nat \ {0}
  BY <1>2, WantedFrame
<1>8. Shorter(0 * Mtu, Total(call[t].count)) = 0
  <2>1. Total(call[t].count) \in Nat \ {0} /\ Mtu \in Nat
    BY <1>7, PiecesOf, StreamAssumption
  <2>2. 0 * Mtu = 0
    BY <2>1
  <2> QED BY <2>1, <2>2 DEF Shorter
<1>9. Current(t)' = c /\ (\A e : Wanted(t, e)' = Wanted(t, e)) /\ BufferOf(t)' = BufferOf(t)
  <2>1. Current(t)' = c
    BY <1>1, <1>2 DEF Current
  <2>2. \A e : Wanted(t, e)' = Wanted(t, e)
    BY <1>1 DEF Wanted
  <2> QED BY <1>1, <1>2, <2>1, <2>2 DEF BufferOf
<1>10. Partly(t)'
  <2>1. PICK b, p : b = buf[BufferOf(t)] /\ p = Wanted(t, c)
    OBVIOUS
  <2>2. b = <<>> /\ Len(b) = 0 /\ Len(p) # 0
    BY <1>6, <1>7, <2>1
  <2>3. b = buf[BufferOf(t)]' /\ p = Wanted(t, Current(t))' /\ nrecv'[t] = 0 /\ call'[t] = call[t]
    BY <1>1, <1>6, <1>9, <2>1
  <2>4. Coming(c, p, Len(b))'
    BY <1>1, <1>5, <2>1, <2>2 DEF Coming
  <2>5. nrecv'[t] = Shorter(Len(b) * Mtu, Total(call'[t].count))
    BY <1>8, <2>2, <2>3
  <2>6. \A i \in 1 .. Len(b) : b[i] = p[i]
    BY <2>2
  <2> QED BY <1>3, <1>9, <2>2, <2>3, <2>4, <2>5, <2>6 DEF Partly
<1>11. Answered(t)'
  <2>1. NotAsked(t)' /\ \A e \in Streams[t] \ left'[t] : Empty(e)'
    BY <1>1, <1>4 DEF Answered, NotAsked, Empty
  <2>2. \A e \in left[t] : Coming(e, Wanted(t, e), 0)
    BY <1>3, <1>4 DEF Answered
  <2>3. \A e \in left'[t] : Coming(e, Wanted(t, e), 0)'
    BY <1>1, <1>9, <2>2 DEF Coming
  <2> QED BY <1>3, <1>10, <2>1, <2>3 DEF Answered
<1>12. Correct(t)'
  BY <1>1, <1>3, <1>9 DEF Progress, Correct
<1> QED BY <1>11, <1>12 DEF Progress

(* select gives up only when the request was lost, before any answer.      *)
LEMMA SelectTimeoutProgress ==
  ASSUME Shape, NEW t \in Thread, Sound(t), Progress(t), SelectTimeout(t)
  PROVE  Progress(t)'
<1> USE DEF Shape
<1>1. /\ pc[t] = "select" /\ sock[Current(t)] = <<>>
      /\ Current(t) \in Faulty \/ ~OnItsWay(Current(t))
      /\ pc' = [pc EXCEPT ![t] = "idle"] /\ result' = [result EXCEPT ![t] = "failed"]
      /\ left' = [left EXCEPT ![t] = {}] /\ UNCHANGED <<call, toDev, air, sock>>
  BY DEF SelectTimeout, Return, net
<1>2. PICK c \in Channel : c = Current(t) /\ c \in left[t] /\ c \in Streams[t] /\ c \in call[t].chans
  BY <1>1, CurrentIn DEF TypeOK, CallOf
<1>3. air[c] = <<>> /\ sock[c] = <<>> /\ ~Requested(c)
  BY <1>1, <1>2 DEF Sound, OnItsWay
<1>4. ~Answered(t)
  <2> SUFFICES ASSUME Answered(t) PROVE FALSE
    OBVIOUS
  <2>1. Coming(c, Wanted(t, c), 0)
    BY <1>1, <1>2 DEF Answered, Reading
  <2>2. Wanted(t, c) \in Seq(Datagram) /\ Len(Wanted(t, c)) # 0
    BY WantedFrame
  <2>3. sock[c] \in Seq(Datagram) /\ air[c] \in Seq(Datagram)
    BY DEF TypeOK
  <2> QED BY <1>3, <2>1, <2>2, <2>3, FollowsEnds DEF Coming
<1>5. Waiting(t) /\ NotAsked(t)
  <2>1. Waiting(t)
    BY <1>1, <1>4 DEF Progress, Resting
  <2>2. ~AskedOnce(t)
    BY <1>2, <1>3 DEF AskedOnce, Once, Requested
  <2> QED BY <2>1, <2>2 DEF Waiting
<1>6. pc'[t] = "idle" /\ result'[t] = "failed"
  BY <1>1 DEF TypeOK
<1>7. Resting(t)'
  BY <1>1, <1>5, <1>6 DEF Resting, Waiting, NotAsked, Empty
<1>8. Correct(t)'
  BY <1>6 DEF Correct
<1> QED BY <1>7, <1>8 DEF Progress

(* recvfrom takes the next datagram of the frame, uncut.                   *)
LEMMA RecvfromProgress ==
  ASSUME Shape, NEW t \in Thread, Progress(t), Recvfrom(t)
  PROVE  Progress(t)'
<1> USE DEF Shape
<1>1. PICK c \in Channel, o \in Channel \cup Thread, d \in Datagram, n \in Nat :
           /\ c = Current(t) /\ c \in left[t] /\ o = BufferOf(t) /\ d = Head(sock[c])
           /\ n = Shorter(d.len, Total(call[t].count) - nrecv[t])
           /\ nrecv[t] + n <= Total(call[t].count) /\ sock[c] # <<>>
           /\ pc[t] = "recv" /\ UNCHANGED <<call, left, got, toDev, air, result>>
           /\ sock' = [sock EXCEPT ![c] = Tail(@)]
           /\ buf' = [buf EXCEPT ![o] = Append(@, [d EXCEPT !.len = n])]
           /\ nrecv' = [nrecv EXCEPT ![t] = @ + n]
           /\ pc' = [pc EXCEPT ![t] =
                       IF nrecv[t] + n = Total(call[t].count) THEN "copy" ELSE "recv"]
  BY Received
<1>2. Reading(t) /\ Answered(t) /\ Partly(t) /\ Correct(t)
  BY <1>1 DEF Progress, Resting, Waiting, Answered, Reading
<1>3. PICK b, p, k : b = buf[o] /\ p = Wanted(t, c) /\ k = Len(b)
  OBVIOUS
<1>4. /\ Coming(c, p, k) /\ (\A i \in 1 .. k : b[i] = p[i])
      /\ nrecv[t] = Shorter(k * Mtu, Total(call[t].count))
  BY <1>1, <1>2, <1>3 DEF Partly
<1>5. b \in Seq(Datagram) /\ k \in Nat /\ sock[c] \in Seq(Datagram) /\ air[c] \in Seq(Datagram)
  BY <1>3, LenProperties DEF TypeOK
<1>6. PICK f \in Frame : p = Pieces(f) /\ f.count = call[t].count /\ f.count \in Nat
                         /\ p \in Seq(Datagram) /\ Len(p) \in Nat \ {0}
  BY <1>3, WantedFrame
<1>7. k < Len(p) /\ d = p[k + 1] /\ Follows(p, k + 1, Tail(sock[c]), air[c])
  BY <1>1, <1>4, <1>5, <1>6, FollowsTake DEF Coming
<1>8. /\ n = d.len /\ nrecv[t] + n = Shorter((k + 1) * Mtu, Total(call[t].count))
      /\ nrecv[t] + n = Total(call[t].count) <=> k + 1 = Len(p)
  <2>1. PICK r : r = nrecv[t] /\ r = Shorter(k * Mtu, Total(f.count))
    BY <1>4, <1>6
  <2>2. /\ Shorter(p[k + 1].len, Total(f.count) - r) = p[k + 1].len
        /\ r + p[k + 1].len = Shorter((k + 1) * Mtu, Total(f.count))
        /\ r + p[k + 1].len = Total(f.count) <=> k + 1 = Len(p)
    BY <1>5, <1>6, <1>7, <2>1, PieceFits
  <2>3. n = d.len
    BY <1>1, <1>6, <1>7, <2>1, <2>2
  <2> QED BY <1>6, <1>7, <2>1, <2>2, <2>3
<1>9. [d EXCEPT !.len = n] = d
  BY <1>8 DEF Datagram
<1>10. PICK w : w = Append(b, d)
  OBVIOUS
<1>11. Len(w) = k + 1 /\ (\A i \in 1 .. k : w[i] = b[i]) /\ w[k + 1] = d
  BY <1>3, <1>5, <1>10, AppendProperties
<1>12. \A i \in 1 .. k + 1 : w[i] = p[i]
  <2>1. \A i \in 1 .. k + 1 : i \in 1 .. k \/ i = k + 1
    BY <1>5
  <2> QED BY <1>4, <1>7, <1>11, <2>1
<1>13. /\ sock'[c] = Tail(sock[c]) /\ air'[c] = air[c] /\ buf'[o] = w
       /\ \A e \in Channel : e # c => sock'[e] = sock[e] /\ air'[e] = air[e]
  BY <1>1, <1>3, <1>9, <1>10 DEF TypeOK
<1>14. /\ nrecv'[t] = nrecv[t] + n /\ pc'[t] \in {"recv", "copy"}
       /\ pc'[t] = "copy" <=> k + 1 = Len(p)
  BY <1>1, <1>8 DEF TypeOK
<1>15. /\ Current(t)' = c /\ BufferOf(t)' = o /\ (\A e : Wanted(t, e)' = Wanted(t, e))
       /\ Reading(t)'
  <2>1. Current(t)' = c
    BY <1>1 DEF Current
  <2>2. \A e : Wanted(t, e)' = Wanted(t, e)
    BY <1>1 DEF Wanted
  <2>3. call' = call
    BY <1>1
  <2>4. BufferOf(t)' = BufferOf(t)
    BY <1>1, <2>1, <2>3 DEF BufferOf
  <2> QED BY <1>1, <1>14, <2>1, <2>2, <2>4 DEF Reading
<1>16. Partly(t)'
  <2>1. w = buf[BufferOf(t)]' /\ p = Wanted(t, Current(t))' /\ call'[t] = call[t]
    BY <1>1, <1>3, <1>13, <1>15
  <2>2. Coming(c, p, Len(w))'
    BY <1>7, <1>11, <1>13 DEF Coming
  <2>3. nrecv'[t] = Shorter(Len(w) * Mtu, Total(call'[t].count))
    BY <1>8, <1>11, <1>14, <2>1
  <2>4. pc'[t] = "copy" <=> Len(w) = Len(p)
    BY <1>11, <1>14
  <2>5. \A i \in 1 .. Len(w) : w[i] = p[i]
    BY <1>11, <1>12
  <2> QED BY <1>15, <2>1, <2>2, <2>3, <2>4, <2>5 DEF Partly
<1>17. Answered(t)'
  <2>1. NotAsked(t)'
    BY <1>1, <1>2 DEF Answered, NotAsked
  <2>2. left'[t] = left[t] /\ left[t] \subseteq Channel /\ Streams[t] \subseteq Channel
    BY <1>1, StreamAssumption DEF TypeOK
  <2>3. \A e \in Streams[t] \ left'[t] : Empty(e)'
    BY <1>1, <1>2, <1>13, <2>2 DEF Answered, Empty
  <2>4. \A e \in left'[t] : e = c \/ Coming(e, Wanted(t, e), 0)'
    <3> SUFFICES ASSUME NEW e \in left[t], e # c PROVE Coming(e, Wanted(t, e), 0)'
      BY <2>2
    <3>1. Coming(e, Wanted(t, e), 0)
      BY <1>1, <1>2 DEF Answered
    <3> QED BY <1>13, <1>15, <2>2, <3>1 DEF Coming
  <2> QED BY <1>15, <1>16, <2>1, <2>3, <2>4 DEF Answered
<1>18. Correct(t)'
  <2>1. pc'[t] # "idle" /\ pc[t] # "idle"
    BY <1>1, <1>14
  <2> QED BY <1>1, <1>2, <1>15, <2>1 DEF Correct
<1> QED BY <1>17, <1>18 DEF Progress

(* The copy is made once the whole frame is there; its channel is empty.   *)
LEMMA CopyProgress ==
  ASSUME Shape, NEW t \in Thread, Progress(t), Copy(t)
  PROVE  Progress(t)'
<1> USE DEF Shape
<1>1. pc[t] = "copy"
  BY DEF Copy
<1>2. PICK c \in Channel : c = Current(t) /\ c \in left[t] /\ c \in Streams[t]
  BY <1>1, CurrentIn DEF TypeOK, CallOf
<1>3. PICK b : b = buf[BufferOf(t)] /\ b \in Seq(Datagram)
  BY <1>1, BufferIn DEF TypeOK
<1>4. /\ got' = [got EXCEPT ![t][c] = b] /\ left' = [left EXCEPT ![t] = @ \ {c}]
      /\ UNCHANGED <<call, toDev, air, sock>>
      /\ IF left'[t] = {} THEN Return(t, "ok") ELSE Goto(t, "select")
  BY <1>2, <1>3 DEF Copy, net
<1>5. \/ left'[t] = {} /\ pc'[t] = "idle"
      \/ left'[t] # {} /\ pc'[t] = "select" /\ result'[t] = result[t]
  BY <1>4 DEF Return, Goto, TypeOK
<1>6. left'[t] = left[t] \ {c}
  BY <1>4 DEF TypeOK
<1>7. got'[t][c] = b /\ \A e \in Channel : e # c => got'[t][e] = got[t][e]
  BY <1>2, <1>4 DEF TypeOK
<1>8. Answered(t) /\ Partly(t) /\ Correct(t) /\ Reading(t)
  BY <1>1 DEF Progress, Resting, Waiting, Answered, Reading
<1>9. PICK p \in Seq(Datagram) : p = Wanted(t, c)
  BY <1>2, WantedFrame
<1>10. Len(b) = Len(p) /\ (\A i \in 1 .. Len(b) : b[i] = p[i]) /\ Coming(c, p, Len(p))
  BY <1>1, <1>2, <1>3, <1>8, <1>9 DEF Partly
<1>11. b = p
  BY <1>3, <1>9, <1>10, SeqEqual
<1>12. Empty(c)
  <2>1. sock[c] \in Seq(Datagram) /\ air[c] \in Seq(Datagram)
    BY DEF TypeOK
  <2> QED BY <1>9, <1>10, <2>1, FollowsEnds DEF Coming, Empty
<1>13. \A e : Wanted(t, e)' = Wanted(t, e) /\ (Empty(e)' <=> Empty(e))
  BY <1>4 DEF Wanted, Empty
<1>14. NotAsked(t)' /\ \A e \in Streams[t] \ left'[t] : Empty(e)'
  BY <1>4, <1>6, <1>8, <1>12, <1>13 DEF Answered, NotAsked
<1>15. \A e \in call'[t].chans \ left'[t] : got'[t][e] = Wanted(t, e)'
  <2>1. call' = call /\ call[t].chans \subseteq Channel
    BY <1>4, StreamAssumption DEF CallOf
  <2>2. \A e \in call[t].chans \ left[t] : got[t][e] = Wanted(t, e)
    BY <1>1, <1>8 DEF Correct
  <2>3. \A e \in call[t].chans \ left'[t] : e = c \/ e \in call[t].chans \ left[t]
    BY <1>6
  <2>4. ASSUME NEW e \in call[t].chans \ left'[t] PROVE got'[t][e] = Wanted(t, e)
    <3>1. CASE e = c
      BY <1>7, <1>9, <1>11, <3>1
    <3>2. CASE e # c
      <4>1. e \in Channel /\ e \in call[t].chans \ left[t]
        BY <2>1, <2>3, <3>2
      <4> QED BY <1>7, <2>2, <3>2, <4>1
    <3> QED BY <3>1, <3>2
  <2> QED BY <1>13, <2>1, <2>4
<1>16. CASE left'[t] = {} /\ pc'[t] = "idle"
  <2>1. Correct(t)'
    BY <1>15, <1>16 DEF Correct
  <2>2. Resting(t)'
    BY <1>14, <1>16 DEF Resting
  <2> QED BY <2>1, <2>2 DEF Progress
<1>17. CASE left'[t] # {} /\ pc'[t] = "select" /\ result'[t] = result[t]
  <2>1. Correct(t)'
    BY <1>1, <1>8, <1>15, <1>17 DEF Correct
  <2>2. \A e \in left'[t] : Coming(e, Wanted(t, e), 0)'
    <3> SUFFICES ASSUME NEW e \in left'[t] PROVE Coming(e, Wanted(t, e), 0)'
      OBVIOUS
    <3>1. Coming(e, Wanted(t, e), 0)
      BY <1>2, <1>6, <1>8 DEF Answered
    <3> QED BY <1>4, <1>13, <3>1 DEF Coming
  <2>3. ~Reading(t)'
    BY <1>17 DEF Reading
  <2>4. Answered(t)'
    BY <1>14, <1>17, <2>2, <2>3 DEF Answered
  <2> QED BY <2>1, <2>4 DEF Progress
<1> QED BY <1>5, <1>16, <1>17

(* What a read of sound channels does keeps it on its way.                 *)
LEMMA StepProgress ==
  ASSUME Shape, NEW t \in Thread, Sound(t), Progress(t), Step(t)
  PROVE  Progress(t)'
<1>1. ~RecvfromFails(t)
  <2> SUFFICES ASSUME RecvfromFails(t) PROVE FALSE
    OBVIOUS
  <2>1. pc[t] = "recv" /\ Current(t) \in Faulty
    BY DEF RecvfromFails
  <2>2. Current(t) \in Streams[t]
    BY <2>1, CurrentIn DEF Shape, TypeOK, CallOf
  <2> QED BY <2>1, <2>2 DEF Sound
<1> QED BY <1>1, SendtoProgress, SelectReadyProgress, SelectTimeoutProgress, RecvfromProgress,
           CopyProgress DEF Step

-----------------------------------------------------------------------------
(* The device and the network.                                             *)

(* What a device's answer puts on the way.                                 *)
LEMMA DeviceAnswers ==
  ASSUME Shape, Device
  PROVE  \E r \in Request :
           /\ toDev \in Seq(Request) /\ toDev # <<>> /\ r = Head(toDev) /\ toDev' = Tail(toDev)
           /\ UNCHANGED <<pc, call, left, nrecv, buf, got, result, sock>>
           /\ \A c \in Channel :
                air'[c] = IF c \in r.chans
                          THEN air[c] \o Pieces([ch |-> c, count |-> r.count, time |-> r.time])
                          ELSE air[c]
<1>1. toDev \in Seq(Request) /\ toDev # <<>>
  BY DEF Device, Shape, TypeOK
<1>2. PICK r \in Request : r = Head(toDev)
  BY <1>1, HeadTailProperties
<1> QED BY <1>1, <1>2 DEF Device

(* The device's answer puts the whole frame on every channel asked for.    *)
LEMMA DeviceProgress ==
  ASSUME Shape, NEW t \in Thread, Progress(t), Device
  PROVE  Progress(t)'
<1> USE DEF Shape
<1>1. PICK r \in Request :
           /\ toDev \in Seq(Request) /\ toDev # <<>> /\ r = Head(toDev) /\ toDev' = Tail(toDev)
           /\ UNCHANGED <<pc, call, left, nrecv, buf, got, result, sock>>
           /\ \A c \in Channel :
                air'[c] = IF c \in r.chans
                          THEN air[c] \o Pieces([ch |-> c, count |-> r.count, time |-> r.time])
                          ELSE air[c]
  BY DeviceAnswers
<1>2. /\ NotAsked(t) => r.chans \cap Streams[t] = {} /\ Clear(toDev', Streams[t])
      /\ AskedOnce(t) =>
           \/ r = call[t] /\ Clear(toDev', Streams[t])
           \/ r.chans \cap Streams[t] = {} /\ Once(toDev', Streams[t], call[t])
  BY <1>1, QueueTail DEF NotAsked, AskedOnce
<1>3. /\ Clear(toDev', Streams[t]) => NotAsked(t)'
      /\ Once(toDev', Streams[t], call[t]) => AskedOnce(t)'
  BY <1>1 DEF NotAsked, AskedOnce
<1>4. Streams[t] \subseteq Channel
  BY StreamAssumption
<1>5. CASE r.chans \cap Streams[t] = {}
  <2>1. \A c \in Streams[t] : sock'[c] = sock[c] /\ air'[c] = air[c]
    BY <1>1, <1>4, <1>5
  <2>2. CASE NotAsked(t)
    BY <1>1, <1>2, <1>3, <2>1, <2>2, ProgressSame
  <2>3. CASE ~NotAsked(t)
    <3>1. AskedOnce(t) => AskedOnce(t)' \/ NotAsked(t)'
      BY <1>2, <1>3
    <3> QED BY <1>1, <2>1, <2>3, <3>1, ProgressSame
  <2> QED BY <2>2, <2>3
<1>6. CASE ~(r.chans \cap Streams[t] = {})
  <2>1. ~NotAsked(t)
    BY <1>2, <1>6
  <2>2. Waiting(t) /\ AskedOnce(t) /\ Correct(t)
    BY <2>1 DEF Progress, Resting, Waiting, Answered
  <2>3. r = call[t] /\ NotAsked(t)'
    BY <1>2, <1>3, <1>6, <2>2
  <2>4. /\ pc'[t] = "select" /\ pc[t] = "select" /\ left'[t] = call[t].chans /\ ~Reading(t)'
        /\ call[t].chans \subseteq Streams[t]
    BY <1>1, <2>2 DEF Waiting, Reading, CallOf
  <2>5. \A c \in Streams[t] \ left'[t] : Empty(c)'
    <3> SUFFICES ASSUME NEW c \in Streams[t] \ left'[t] PROVE Empty(c)'
      OBVIOUS
    <3>1. Empty(c) /\ c \in Channel /\ c \notin r.chans
      BY <1>4, <2>2, <2>3, <2>4 DEF Waiting
    <3> QED BY <1>1, <3>1 DEF Empty
  <2>6. \A c \in left'[t] : Coming(c, Wanted(t, c), 0)'
    <3> SUFFICES ASSUME NEW c \in left'[t] PROVE Coming(c, Wanted(t, c), 0)'
      OBVIOUS
    <3>1. Empty(c) /\ c \in Channel /\ c \in r.chans
      BY <1>4, <2>2, <2>3, <2>4 DEF Waiting
    <3>2. PICK p \in Seq(Datagram) : p = Wanted(t, c)
      BY <3>1, WantedFrame
    <3>3. p = Pieces([ch |-> c, count |-> r.count, time |-> r.time]) /\ p = Wanted(t, c)'
      BY <1>1, <2>3, <3>2 DEF Wanted
    <3>4. air'[c] = <<>> \o p
      BY <1>1, <3>1, <3>3 DEF Empty
    <3>5. air'[c] = p /\ sock'[c] = <<>>
      BY <1>1, <3>1, <3>2, <3>4, ConcatEmptySeq DEF Empty
    <3>6. Follows(p, 0, sock'[c], air'[c])
      <4>1. <<>> \in Seq(Datagram)
        OBVIOUS
      <4> QED BY <3>2, <3>5, <4>1, FollowsEnds
    <3> QED BY <3>3, <3>6 DEF Coming
  <2>7. Answered(t)'
    BY <2>3, <2>4, <2>5, <2>6 DEF Answered
  <2>8. Correct(t)'
    BY <1>1, <2>2 DEF Correct, Wanted
  <2> QED BY <2>7, <2>8 DEF Progress
<1> QED BY <1>5, <1>6

(* A datagram that arrives stays in its place in the frame.                *)
LEMMA ArriveProgress ==
  ASSUME Shape, NEW t \in Thread, Progress(t), NEW c \in Channel, Arrive(c)
  PROVE  Progress(t)'
<1> USE DEF Shape
<1>1. /\ air[c] # <<>> /\ UNCHANGED <<pc, call, left, nrecv, buf, got, result, toDev>>
      /\ sock'[c] = Append(sock[c], Head(air[c])) /\ air'[c] = Tail(air[c])
      /\ \A e \in Channel : e # c => sock'[e] = sock[e] /\ air'[e] = air[e]
  BY DEF Arrive, TypeOK
<1>2. (NotAsked(t) <=> NotAsked(t)') /\ (AskedOnce(t) <=> AskedOnce(t)')
  BY <1>1 DEF NotAsked, AskedOnce
<1>3. Streams[t] \subseteq Channel
  BY StreamAssumption
<1>4. CASE c \notin Streams[t]
  <2>1. \A e \in Streams[t] : sock'[e] = sock[e] /\ air'[e] = air[e]
    BY <1>1, <1>3, <1>4
  <2> QED BY <1>1, <1>2, <2>1, ProgressSame
<1>5. CASE c \in Streams[t]
  <2>1. ~Empty(c)
    BY <1>1 DEF Empty
  <2>2. Answered(t) /\ Correct(t) /\ c \in left[t] /\ left[t] \subseteq Channel
    BY <1>5, <2>1 DEF Progress, Resting, Waiting, Answered, TypeOK
  <2>3. \A p \in Seq(Datagram), k \in Nat : Coming(c, p, k) => Coming(c, p, k)'
    <3> SUFFICES ASSUME NEW p \in Seq(Datagram), NEW k \in Nat, Follows(p, k, sock[c], air[c])
                 PROVE  Follows(p, k, sock'[c], air'[c])
      BY DEF Coming
    <3>1. sock[c] \in Seq(Datagram) /\ air[c] \in Seq(Datagram)
      BY DEF TypeOK
    <3> QED BY <1>1, <3>1, FollowsArrive
  <2>4. \A e : Wanted(t, e)' = Wanted(t, e)
    BY <1>1 DEF Wanted
  <2>5. (Reading(t)' <=> Reading(t)) /\ Current(t)' = Current(t) /\ BufferOf(t)' = BufferOf(t)
    <3>1. Current(t)' = Current(t)
      BY <1>1 DEF Current
    <3>2. call' = call
      BY <1>1
    <3>3. BufferOf(t)' = BufferOf(t)
      BY <3>1, <3>2 DEF BufferOf
    <3> QED BY <1>1, <3>1, <3>3 DEF Reading
  <2>6. \A e \in Channel : Wanted(t, e) \in Seq(Datagram)
    BY WantedFrame
  <2>7. \A e \in Streams[t] \ left'[t] : Empty(e)'
    BY <1>1, <1>3, <2>2 DEF Answered, Empty
  <2>8. \A e \in left'[t] : (Reading(t)' /\ e = Current(t)') \/ Coming(e, Wanted(t, e), 0)'
    <3> SUFFICES ASSUME NEW e \in left[t], ~(Reading(t) /\ e = Current(t))
                 PROVE  Coming(e, Wanted(t, e), 0)'
      BY <1>1, <2>5
    <3>1. Coming(e, Wanted(t, e), 0) /\ e \in Channel
      BY <2>2 DEF Answered
    <3>2. PICK p \in Seq(Datagram) : p = Wanted(t, e) /\ p = Wanted(t, e)'
      BY <2>4, <2>6, <3>1
    <3>3. CASE e = c
      <4>1. Coming(e, p, 0)'
        BY <2>3, <3>1, <3>2, <3>3
      <4> QED BY <3>2, <4>1 DEF Coming
    <3>4. CASE e # c
      BY <1>1, <3>1, <3>2, <3>4 DEF Coming
    <3> QED BY <3>3, <3>4
  <2>9. ASSUME Reading(t)' PROVE Partly(t)'
    <3>1. Reading(t) /\ Partly(t)
      BY <2>2, <2>5, <2>9 DEF Answered
    <3>2. PICK e \in Channel : e = Current(t)
      BY <3>1, CurrentIn DEF Reading, TypeOK, CallOf
    <3>3. PICK b \in Seq(Datagram), p \in Seq(Datagram), k \in Nat :
            b = buf[BufferOf(t)] /\ p = Wanted(t, e) /\ k = Len(b)
      <4>1. buf[BufferOf(t)] \in Seq(Datagram)
        BY <3>1, BufferIn DEF Reading, TypeOK
      <4> QED BY <2>6, <3>2, <4>1, LenProperties
    <3>4. /\ Coming(e, p, k) /\ (\A i \in 1 .. k : b[i] = p[i])
          /\ nrecv[t] = Shorter(k * Mtu, Total(call[t].count))
          /\ pc[t] = "copy" <=> k = Len(p)
      BY <3>1, <3>2, <3>3 DEF Partly
    <3>5. b = buf[BufferOf(t)]' /\ p = Wanted(t, Current(t))' /\ e = Current(t)'
      BY <1>1, <2>4, <2>5, <3>2, <3>3
    <3>6. Coming(e, p, k)'
      <4>1. CASE e = c
        BY <2>3, <3>4, <4>1
      <4>2. CASE e # c
        BY <1>1, <3>4, <4>2 DEF Coming
      <4> QED BY <4>1, <4>2
    <3> QED BY <1>1, <3>3, <3>4, <3>5, <3>6 DEF Partly
  <2>10. Answered(t)'
    BY <1>1, <1>2, <2>2, <2>5, <2>7, <2>8, <2>9 DEF Answered
  <2>11. Correct(t)'
    BY <1>1, <2>2, <2>4 DEF Correct
  <2> QED BY <2>10, <2>11 DEF Progress
<1> QED BY <1>4, <1>5

(* Only a request can be lost on the way to or from a sound read.          *)
LEMMA LoseProgress ==
  ASSUME Shape, NEW t \in Thread, Sound(t), Progress(t), Lose
  PROVE  Progress(t)'
<1> USE DEF Shape
<1>1. /\ UNCHANGED <<pc, call, left, nrecv, buf, got, result, sock>>
      /\ \/ toDev # <<>> /\ toDev' = Tail(toDev) /\ UNCHANGED air
         \/ UNCHANGED toDev /\ \E c \in Faulty : air' = [air EXCEPT ![c] = Tail(@)]
  BY DEF Lose
<1>2. toDev \in Seq(Request) /\ Streams[t] \subseteq Channel
  BY StreamAssumption DEF TypeOK
<1>3. CASE toDev # <<>> /\ toDev' = Tail(toDev) /\ UNCHANGED air
  <2>1. /\ Clear(toDev, Streams[t]) => Clear(toDev', Streams[t])
        /\ Once(toDev, Streams[t], call[t]) =>
             Clear(toDev', Streams[t]) \/ Once(toDev', Streams[t], call[t])
    BY <1>2, <1>3, QueueTail
  <2>2. (NotAsked(t) => NotAsked(t)') /\ (AskedOnce(t) => NotAsked(t)' \/ AskedOnce(t)')
    BY <1>1, <2>1 DEF NotAsked, AskedOnce
  <2> QED BY <1>1, <1>3, <2>2, ProgressSame
<1>4. ASSUME NEW c \in Faulty, UNCHANGED toDev, air' = [air EXCEPT ![c] = Tail(@)]
      PROVE  Progress(t)'
  <2>1. c \notin Streams[t]
    BY DEF Sound
  <2>2. \A e \in Streams[t] : sock'[e] = sock[e] /\ air'[e] = air[e]
    BY <1>1, <1>2, <1>4, <2>1 DEF TypeOK
  <2>3. (NotAsked(t) => NotAsked(t)') /\ (AskedOnce(t) => NotAsked(t)' \/ AskedOnce(t)')
    BY <1>1, <1>4 DEF NotAsked, AskedOnce
  <2> QED BY <1>1, <2>2, <2>3, ProgressSame
<1> QED BY <1>1, <1>3, <1>4

-----------------------------------------------------------------------------
(* Channels that no thread reads stay empty.                               *)

(* No thread asks for such a channel.                                      *)
LEMMA StraysStep ==
  ASSUME Shape, Strays, NEW t \in Thread, Step(t)
  PROVE  Strays'
<1> SUFFICES ASSUME NEW c \in Channel, \A u \in Thread : c \notin Streams[u]
             PROVE  Clear(toDev, {c})' /\ Empty(c)'
  BY DEF Strays
<1>1. Clear(toDev, {c}) /\ Empty(c)
  BY DEF Strays
<1>2. /\ air' = air /\ sock'[c] = sock[c]
      /\ toDev' = toDev \/ toDev' = Append(toDev, call[t])
  <2>1. c \in Channel \ Streams[t]
    OBVIOUS
  <2> QED BY <2>1, StepIsOwn
<1>3. call[t].chans \cap {c} = {} /\ call[t] \in Request /\ toDev \in Seq(Request)
  BY DEF Shape, TypeOK, CallOf
<1>4. Clear(toDev', {c})
  <2>1. Clear(Append(toDev, call[t]), {c})
    BY <1>1, <1>3, QueueAppend
  <2> QED BY <1>1, <1>2, <2>1
<1> QED BY <1>1, <1>2, <1>4 DEF Empty, Clear

(* Neither the device nor the network puts anything on one.                *)
LEMMA StraysNet ==
  ASSUME Shape, Strays, Device \/ Lose \/ \E c \in Channel : Arrive(c)
  PROVE  Strays'
<1> USE DEF Shape
<1> SUFFICES ASSUME NEW c \in Channel, \A u \in Thread : c \notin Streams[u]
             PROVE  Clear(toDev', {c}) /\ air'[c] = <<>> /\ sock'[c] = <<>>
  BY DEF Strays, Empty, Clear
<1>1. Clear(toDev, {c}) /\ air[c] = <<>> /\ sock[c] = <<>> /\ toDev \in Seq(Request)
  BY DEF Strays, Empty, TypeOK
<1>2. toDev # <<>> => Clear(Tail(toDev), {c}) /\ Head(toDev).chans \cap {c} = {}
  BY <1>1, QueueTail
<1>3. CASE Device
  <2>1. PICK r \in Request :
           /\ toDev # <<>> /\ r = Head(toDev) /\ toDev' = Tail(toDev)
           /\ UNCHANGED <<pc, call, left, nrecv, buf, got, result, sock>>
           /\ \A e \in Channel :
                air'[e] = IF e \in r.chans
                          THEN air[e] \o Pieces([ch |-> e, count |-> r.count, time |-> r.time])
                          ELSE air[e]
    BY <1>3, DeviceAnswers
  <2> QED BY <1>1, <1>2, <2>1
<1>4. CASE Lose
  <2>1. /\ UNCHANGED sock
        /\ \/ toDev # <<>> /\ toDev' = Tail(toDev) /\ UNCHANGED air
           \/ UNCHANGED toDev /\ \E e \in Faulty : air[e] # <<>> /\ air' = [air EXCEPT ![e] = Tail(@)]
    BY <1>4 DEF Lose
  <2>2. CASE toDev # <<>> /\ toDev' = Tail(toDev) /\ UNCHANGED air
    BY <1>1, <1>2, <2>1, <2>2
  <2>3. ASSUME NEW e \in Faulty, UNCHANGED toDev, air[e] # <<>>, air' = [air EXCEPT ![e] = Tail(@)]
        PROVE  Clear(toDev', {c}) /\ air'[c] = <<>> /\ sock'[c] = <<>>
    BY <1>1, <2>1, <2>3 DEF TypeOK
  <2> QED BY <2>1, <2>2, <2>3
<1>5. ASSUME NEW e \in Channel, Arrive(e)
      PROVE  Clear(toDev', {c}) /\ air'[c] = <<>> /\ sock'[c] = <<>>
  BY <1>1, <1>5 DEF Arrive, TypeOK
<1> QED BY <1>3, <1>4, <1>5

-----------------------------------------------------------------------------
(* The inductive invariant and the theorems.                               *)

(* The invariant holds at first.                                           *)
LEMMA IInvInit == Init => IInv
<1> SUFFICES ASSUME Init PROVE IInv
  OBVIOUS
<1>1. Shape
  BY ShapeInit
<1>2. toDev = <<>> /\ \A c \in Channel : Empty(c)
  BY DEF Init, Empty
<1>3. \A S : Clear(toDev, S)
  BY <1>2 DEF Clear
<1>4. Strays
  BY <1>2, <1>3 DEF Strays
<1>5. ASSUME NEW t \in Thread PROVE Progress(t)
  <2>1. pc[t] = "idle" /\ result[t] = "none"
    BY DEF Init
  <2>2. Streams[t] \subseteq Channel
    BY StreamAssumption
  <2>3. Resting(t)
    BY <1>2, <1>3, <2>1, <2>2 DEF Resting, NotAsked
  <2>4. Correct(t)
    BY <2>1 DEF Correct
  <2> QED BY <2>3, <2>4 DEF Progress
<1> QED BY <1>1, <1>4, <1>5 DEF IInv, Shape

(* Every step keeps the invariant.                                         *)
LEMMA IInvNext == IInv /\ [Next]_vars => IInv'
<1> SUFFICES ASSUME IInv, [Next]_vars PROVE IInv'
  OBVIOUS
<1>1. Shape /\ Strays /\ \A t \in Thread : Sound(t) => Progress(t)
  BY DEF IInv, Shape
<1>2. Shape'
  BY <1>1, ShapeNext
<1>3. SUFFICES Strays' /\ \A t \in Thread : Sound(t) => Progress(t)'
  BY <1>2 DEF IInv, Shape, Sound
<1>4. CASE UNCHANGED vars
  <2>1. Strays'
    BY <1>1, <1>4 DEF vars, Strays, Clear, Empty
  <2>2. \A t \in Thread : Sound(t) => Progress(t)'
    <3> SUFFICES ASSUME NEW t \in Thread, Progress(t) PROVE Progress(t)'
      BY <1>1
    <3>1. UNCHANGED <<pc, call, left, nrecv, buf, got, result, toDev, air, sock>>
      BY <1>4 DEF vars
    <3>2. (NotAsked(t) => NotAsked(t)') /\ (AskedOnce(t) => NotAsked(t)' \/ AskedOnce(t)')
      BY <3>1 DEF NotAsked, AskedOnce
    <3> QED BY <1>1, <3>1, <3>2, ProgressSame
  <2> QED BY <2>1, <2>2
<1>5. ASSUME NEW u \in Thread, Step(u)
      PROVE  Strays' /\ \A t \in Thread : Sound(t) => Progress(t)'
  <2>1. Strays'
    BY <1>1, <1>5, StraysStep
  <2>2. ASSUME NEW t \in Thread, Sound(t) PROVE Progress(t)'
    <3>1. Progress(t)
      BY <1>1, <2>2
    <3>2. CASE t = u
      BY <1>1, <1>5, <2>2, <3>1, <3>2, StepProgress
    <3>3. CASE t # u
      BY <1>1, <1>5, <3>1, <3>3, StepOther
    <3> QED BY <3>2, <3>3
  <2> QED BY <2>1, <2>2
<1>6. ASSUME NEW u \in Thread, NEW op, NEW chans, NEW n, NEW v, Call(u, op, chans, n, v)
      PROVE  Strays' /\ \A t \in Thread : Sound(t) => Progress(t)'
  <2>1. Strays'
    BY <1>1, <1>6 DEF Call, net, Strays, Clear, Empty
  <2>2. ASSUME NEW t \in Thread, Sound(t) PROVE Progress(t)'
    <3>1. Progress(t)
      BY <1>1, <2>2
    <3>2. CASE t = u
      BY <1>1, <1>6, <3>1, <3>2, CallProgress
    <3>3. CASE t # u
      BY <1>1, <1>6, <3>1, <3>3, CallOther
    <3> QED BY <3>2, <3>3
  <2> QED BY <2>1, <2>2
<1>7. CASE Device \/ Lose \/ \E c \in Channel : Arrive(c)
  <2>1. Strays'
    BY <1>1, <1>7, StraysNet
  <2>2. ASSUME NEW t \in Thread, Sound(t) PROVE Progress(t)'
    <3>1. Progress(t)
      BY <1>1, <2>2
    <3> QED BY <1>1, <1>7, <2>2, <3>1, DeviceProgress, LoseProgress, ArriveProgress
  <2> QED BY <2>1, <2>2
<1> QED BY <1>4, <1>5, <1>6, <1>7 DEF Next, StreamRecv, StreamRecv3

(* The invariant holds always.                                             *)
LEMMA IInvHolds == Spec => []IInv
BY IInvInit, IInvNext, PTL DEF Spec

(* A read of channels that lose nothing that reports success has read its  *)
(* own frames, whole, whatever happens on the channels of other threads.   *)
THEOREM SfpReadWhole == Spec => []ReadWhole
<1>1. IInv => ReadWhole
  <2> SUFFICES ASSUME IInv, NEW t \in Thread, Sound(t), pc[t] = "idle", result[t] = "ok",
                      NEW c \in call[t].chans
               PROVE  got[t][c] = Pieces([ch |-> c, count |-> call[t].count, time |-> call[t].time])
    BY DEF ReadWhole
  <2>1. Correct(t)
    BY DEF IInv, Progress
  <2>2. got[t][c] = Wanted(t, c)
    BY <2>1 DEF Correct
  <2> QED BY <2>2 DEF Wanted
<1> QED BY <1>1, IInvHolds, PTL

(* Once a read is over nothing it asked for is left on a channel that      *)
(* loses nothing, if no thread mixes such channels with others in one read. *)
THEOREM SfpLeavesNothing ==
  ASSUME \A t \in Thread : Sound(t) \/ Streams[t] \subseteq Faulty
  PROVE  Spec => []LeavesNothing
<1>1. IInv => LeavesNothing
  <2> SUFFICES ASSUME IInv, NEW c \in Channel \ Faulty,
                      \A t \in Thread : pc[t] = "idle" \/ c \notin left[t]
               PROVE  ~OnItsWay(c) /\ sock[c] = <<>>
    BY DEF LeavesNothing
  <2>1. SUFFICES Empty(c) /\ \A i \in 1 .. Len(toDev) : c \notin toDev[i].chans
    BY DEF OnItsWay, Requested, Empty
  <2>2. CASE \A t \in Thread : c \notin Streams[t]
    BY <2>2 DEF IInv, Strays, Clear
  <2>3. ASSUME NEW t \in Thread, c \in Streams[t]
        PROVE  Empty(c) /\ \A i \in 1 .. Len(toDev) : c \notin toDev[i].chans
    <3>1. Sound(t) /\ Progress(t)
      BY <2>3 DEF IInv
    <3>2. NotAsked(t) => \A i \in 1 .. Len(toDev) : c \notin toDev[i].chans
      BY <2>3 DEF NotAsked, Clear
    <3>3. CASE Resting(t)
      BY <2>3, <3>2, <3>3 DEF Resting
    <3>4. CASE Waiting(t)
      <4>1. c \notin call[t].chans /\ Empty(c)
        BY <2>3, <3>4 DEF Waiting
      <4>2. AskedOnce(t) => \A i \in 1 .. Len(toDev) : c \notin toDev[i].chans
        BY <2>3, <4>1 DEF AskedOnce, Once
      <4> QED BY <3>2, <3>4, <4>1, <4>2 DEF Waiting
    <3>5. CASE Answered(t)
      <4>1. c \notin left[t]
        BY <3>5 DEF Answered, Reading
      <4> QED BY <2>3, <3>2, <3>5, <4>1 DEF Answered
    <3> QED BY <3>1, <3>3, <3>4, <3>5 DEF Progress
  <2> QED BY <2>2, <2>3
<1> QED BY <1>1, IInvHolds, PTL
=============================================================================
