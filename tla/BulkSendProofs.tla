--------------------------- MODULE BulkSendProofs ---------------------------
(***************************************************************************)
(* Proofs about BulkSend, for any threads, channels, lengths and failures: *)
(* whatever fails and however calls of different threads interleave,       *)
(* pieces of two frames are never mixed on a channel, samples travel under *)
(* their own header, a call that reports success has sent its frames, and  *)
(* the whole path implements FrameLink.                                    *)
(***************************************************************************)
EXTENDS BulkSend, FiniteSetTheorems, SequenceTheorems, TLAPS

USE DEF Channel

Active(s) == pc[s] # "idle"

(* The last piece handed to channel c.                                     *)
Latest(c) == wire[c][Len(wire[c])]

(* The last piece on channel c is the end of the frame of s's call.        *)
Served(s, c) ==
  /\ wire[c] # <<>>
  /\ Latest(c).head = HeaderOf(args[s])
  /\ Ends(Latest(c))

(* A call stays on the channels and functions of its thread, has a channel *)
(* left while it runs, and none left when it reports success.  Only the    *)
(* multi-port send has more than one.                                      *)
Control ==
  \A s \in Sender :
    /\ args[s].chans \subseteq Ports[s]
    /\ left[s] \subseteq args[s].chans
    /\ Active(s) => left[s] # {} /\ args[s].op \in Modes[s]
    /\ args[s].op # "send3" => \A c, d \in args[s].chans : c = d
    /\ pc[s] = "header" => left[s] = args[s].chans
    /\ result[s] = "ok" => ~Active(s) /\ left[s] = {}

(* From the header on, the buffer of a call holds its own header, and from *)
(* the payload on its own samples.                                         *)
OwnFrame(s) ==
  /\ pc[s] \in {"payload", "push"} => buffer[BufferOf(s)].head = HeaderOf(args[s])
  /\ pc[s] = "push" => buffer[BufferOf(s)].body = args[s].data

(* In the loop something is still to be sent, and what has been sent of    *)
(* the frame is the last thing on the channel.                             *)
InLoop(s) ==
  pc[s] = "push" =>
    /\ off[s] + sum[s] = Total(args[s])
    /\ sum[s] > 0
    /\ off[s] > 0 /\ Current(s) \notin Short =>
         /\ wire[Current(s)] # <<>>
         /\ Latest(Current(s)).head = HeaderOf(args[s])
         /\ Latest(Current(s)).body = args[s].data
         /\ Latest(Current(s)).off + Latest(Current(s)).len = off[s]

(* The channels a running or successful call has dealt with end with its   *)
(* frame.                                                                  *)
Behind(s) ==
  Active(s) \/ result[s] = "ok" =>
    \A c \in (args[s].chans \ left[s]) \ Short : Served(s, c)

Progress == \A s \in Sender : OwnFrame(s) /\ InLoop(s) /\ Behind(s)

IInv ==
  /\ TypeOK
  /\ Control
  /\ Progress
  /\ Contiguous
  /\ HeaderMatchesBody

-----------------------------------------------------------------------------
(* Which channels and buffers a call touches.                              *)

(* A set of channels that is not empty has a lowest one.                   *)
LEMMA LowestChannel ==
  ASSUME NEW S \in SUBSET (1 .. 4), S # {}
  PROVE  \E c \in S : \A d \in S : c <= d
<1>1. CASE 1 \in S
  BY <1>1
<1>2. CASE 1 \notin S /\ 2 \in S
  BY <1>2
<1>3. CASE 1 \notin S /\ 2 \notin S /\ 3 \in S
  BY <1>3
<1>4. CASE 1 \notin S /\ 2 \notin S /\ 3 \notin S
  <2>1. \A d \in S : d = 4
    <3>1. \A d \in 1 .. 4 : d = 1 \/ d = 2 \/ d = 3 \/ d = 4
      OBVIOUS
    <3> QED BY <1>4, <3>1
  <2>2. \A c, d \in S : c <= d
    BY <2>1
  <2> QED BY <2>2
<1> QED BY <1>1, <1>2, <1>3, <1>4

(* The loop over the mask serves a channel of the mask.                    *)
LEMMA CurrentIsLeft ==
  ASSUME NEW s \in Sender, left[s] \in SUBSET (1 .. 4), left[s] # {}
  PROVE  Current(s) \in left[s]
<1>1. \E c \in left[s] : \A d \in left[s] : c <= d
  BY LowestChannel
<1> QED BY <1>1 DEF Current

(* What a running call has left is its own, and its buffer exists.         *)
LEMMA CurrentIsOwn ==
  ASSUME TypeOK, Control, NEW s \in Sender, Active(s)
  PROVE  /\ Current(s) \in left[s]
         /\ Current(s) \in args[s].chans
         /\ Current(s) \in Ports[s]
         /\ Current(s) \in 1 .. 4
         /\ BufferOf(s) \in Buffers
<1>1. left[s] \in SUBSET (1 .. 4) /\ left[s] # {}
  BY DEF TypeOK, Control
<1>2. Current(s) \in left[s]
  BY <1>1, CurrentIsLeft
<1> QED BY <1>1, <1>2, BulkAssumption DEF Control, BufferOf, Buffers

(* Two threads never transmit on the same channel.                         *)
LEMMA OwnChannels ==
  ASSUME Control, NEW s \in Sender, NEW u \in Sender, s # u,
         NEW c \in args[s].chans
  PROVE  c \notin args[u].chans
BY BulkAssumption DEF Control

(* Two running calls never fill the same buffer.                           *)
LEMMA OwnBuffers ==
  ASSUME TypeOK, Control, NEW s \in Sender, NEW u \in Sender, s # u,
         Active(s), Active(u)
  PROVE  BufferOf(s) # BufferOf(u)
<1>1. /\ Current(s) \in Ports[s] /\ Current(s) \in 1 .. 4
      /\ Current(u) \in Ports[u] /\ Current(u) \in 1 .. 4
  BY CurrentIsOwn
<1>2. args[s].op \in Modes[s] /\ args[u].op \in Modes[u]
  BY DEF Control
<1>3. Current(s) # Current(u)
  BY <1>1, BulkAssumption
<1>4. args[s].op = "send3" => args[u].op # "send3" /\ Current(u) # 1
  BY <1>1, <1>2, BulkAssumption
<1>5. args[u].op = "send3" => args[s].op # "send3" /\ Current(s) # 1
  BY <1>1, <1>2, BulkAssumption
<1> QED BY <1>1, <1>3, <1>4, <1>5, BulkAssumption DEF BufferOf

-----------------------------------------------------------------------------
(* How calls start.                                                        *)

(* s starts a call with arguments a.                                       *)
Starts(s, a) ==
  /\ ~Active(s)
  /\ a.chans \subseteq Ports[s]
  /\ a.op \in Modes[s]
  /\ a.op # "send3" => \A c, d \in a.chans : c = d
  /\ args' = [args EXCEPT ![s] = a]
  /\ left' = [left EXCEPT ![s] = a.chans]
  /\ UNCHANGED <<off, sum, buffer, wire>>

(* ... and gets past its checks.                                           *)
Runs(s, a) ==
  /\ a.chans # {}
  /\ a.op # "send3" => \A c \in a.chans : c < NumOfChannel
  /\ pc' = [pc EXCEPT ![s] = "header"]
  /\ result' = [result EXCEPT ![s] = "none"]

(* ... or is told that its channel or its buffer is not valid.             *)
Refused(s) ==
  /\ pc' = [pc EXCEPT ![s] = "idle"]
  /\ result' = [result EXCEPT ![s] = "EINVAL"]

(* A call either runs, on channels of its thread that the board has unless *)
(* it is the multi-port send, or is refused at once.                       *)
LEMMA CallStarts ==
  ASSUME TypeOK, NEW s \in Sender, Call(s)
  PROVE  \E a \in Args : Starts(s, a) /\ (Runs(s, a) \/ Refused(s))
<1>1. PICK n \in Counts, d \in Sends[s], b \in BOOLEAN :
        \/ \E c \in Ports[s], op \in {"send", "send2", "send4"} :
             (b => op = "send2") /\ SendOne(s, op, c, n, d, b)
        \/ \E c \in Ports[s] : SendZeroCopyBadHeader(s, c, n, d)
        \/ \E chans \in SUBSET Ports[s] : SendMany(s, chans, n, d, b)
  BY DEF Call
<1>2. d \in Data
  BY BulkAssumption
<1> DEFINE A(op, chans, x) ==
      [op |-> op, chans |-> chans, count |-> n, data |-> d, burst |-> x]
<1>3. ASSUME NEW c \in Ports[s], NEW op \in {"send", "send2", "send4"},
             SendOne(s, op, c, n, d, b)
      PROVE  \E a \in Args : Starts(s, a) /\ (Runs(s, a) \/ Refused(s))
  <2>1. A(op, {c}, b) \in Args
    BY <1>2, BulkAssumption DEF Args, Ops
  <2>2. Starts(s, A(op, {c}, b))
    BY <1>3 DEF Starts, SendOne, Enter, Active
  <2>3. Runs(s, A(op, {c}, b)) \/ Refused(s)
    BY <1>3 DEF Runs, Refused, SendOne, Return
  <2> QED BY <2>1, <2>2, <2>3
<1>4. ASSUME NEW c \in Ports[s], SendZeroCopyBadHeader(s, c, n, d)
      PROVE  \E a \in Args : Starts(s, a) /\ (Runs(s, a) \/ Refused(s))
  <2>1. A("send4", {c}, FALSE) \in Args
    BY <1>2, BulkAssumption DEF Args, Ops
  <2>2. Starts(s, A("send4", {c}, FALSE))
    BY <1>4 DEF Starts, SendZeroCopyBadHeader, Enter, Active
  <2>3. Refused(s)
    BY <1>4 DEF Refused, SendZeroCopyBadHeader, Return
  <2> QED BY <2>1, <2>2, <2>3
<1>5. ASSUME NEW chans \in SUBSET Ports[s], SendMany(s, chans, n, d, b)
      PROVE  \E a \in Args : Starts(s, a) /\ (Runs(s, a) \/ Refused(s))
  <2>1. A("send3", chans, b) \in Args
    BY <1>2, BulkAssumption DEF Args, Ops
  <2>2. Starts(s, A("send3", chans, b))
    BY <1>5 DEF Starts, SendMany, Enter, Active
  <2>3. Runs(s, A("send3", chans, b))
    BY <1>5 DEF Runs, SendMany
  <2> QED BY <2>1, <2>2, <2>3
<1> QED BY <1>1, <1>3, <1>4, <1>5

-----------------------------------------------------------------------------
(* What a turn of the loop does.                                           *)

(* s offers n words of channel c's frame and the link takes k of them.     *)
Turn(s, c, n, k) ==
  /\ pc[s] = "push"
  /\ wire' = [wire EXCEPT ![c] = @ \o PieceOf(s, k)]
  /\ off' = [off EXCEPT ![s] = @ + n]
  /\ sum' = [sum EXCEPT ![s] = @ - n]
  /\ UNCHANGED <<args, buffer>>

(* The frame is not finished by n more words.                              *)
GoesOn(s, n) == sum[s] - n > 0 /\ UNCHANGED <<pc, left, result>>

(* The frame is finished: the next channel, or the end of the call.        *)
NextFrame(s, c, n) ==
  /\ sum[s] - n = 0
  /\ left' = [left EXCEPT ![s] = @ \ {c}]
  /\ \/ /\ left[s] \ {c} = {}
        /\ pc' = [pc EXCEPT ![s] = "idle"]
        /\ result' = [result EXCEPT ![s] = "ok"]
     \/ /\ left[s] \ {c} # {}
        /\ pc' = [pc EXCEPT ![s] = "payload"]
        /\ UNCHANGED result

(* A turn offers at least one word, at most Bulk and no more than is left; *)
(* a channel whose sends are not short takes all of them.                  *)
LEMMA PushTurns ==
  ASSUME IInv, NEW s \in Sender, Push(s)
  PROVE  \E n, k \in Nat :
           /\ n \in 1 .. Bulk /\ n <= sum[s]
           /\ k <= n /\ (Current(s) \notin Short => k = n)
           /\ Turn(s, Current(s), n, k)
           /\ GoesOn(s, n) \/ NextFrame(s, Current(s), n)
<1> DEFINE n == NextPiece(s)
<1>1. sum[s] \in Nat /\ sum[s] > 0
  BY DEF IInv, TypeOK, Progress, InLoop, Push
<1>2. n \in Nat /\ n \in 1 .. Bulk /\ n <= sum[s]
  BY <1>1, BulkAssumption DEF NextPiece, Shorter
<1>3. PICK k \in Taken(Current(s), n) : wire' = [wire EXCEPT ![Current(s)] = @ \o PieceOf(s, k)]
  BY DEF Push
<1>4. k \in Nat /\ k <= n /\ (Current(s) \notin Short => k = n)
  BY <1>2, <1>3 DEF Taken
<1>5. Turn(s, Current(s), n, k)
  BY <1>3 DEF Push, Advance, Turn
<1>6. GoesOn(s, n) \/ NextFrame(s, Current(s), n)
  <2>1. CASE sum[s] - n > 0
    BY <2>1 DEF Push, GoesOn
  <2>2. CASE ~(sum[s] - n > 0)
    <3>1. sum[s] - n = 0
      BY <1>1, <1>2, <2>2
    <3>2. FrameDone(s)
      BY <2>2 DEF Push
    <3>3. left' = [left EXCEPT ![s] = @ \ {Current(s)}] /\ left'[s] = left[s] \ {Current(s)}
      BY <3>2 DEF FrameDone, IInv, TypeOK
    <3> QED BY <3>1, <3>2, <3>3 DEF FrameDone, Return, NextFrame
  <2> QED BY <2>1, <2>2
<1> HIDE DEF n
<1> QED BY <1>2, <1>4, <1>5, <1>6

(* The piece a turn adds: of the frame of its call, behind what was sent.  *)
Added(s, k) ==
  [head |-> HeaderOf(args[s]), body |-> args[s].data, off |-> off[s], len |-> k]

LEMMA TurnAdds ==
  ASSUME IInv, NEW s \in Sender, NEW k \in Nat, pc[s] = "push"
  PROVE  /\ PieceOf(s, k) = IF k = 0 THEN <<>> ELSE <<Added(s, k)>>
         /\ Added(s, k) \in Piece
<1>1. PieceOf(s, k) = IF k = 0 THEN <<>> ELSE <<Added(s, k)>>
  BY DEF IInv, Progress, OwnFrame, PieceOf, Added
<1>2. HeaderOf(args[s]) \in Header /\ args[s].data \in Data /\ off[s] \in Nat
  BY DEF IInv, TypeOK, Args, Header, HeaderOf
<1> QED BY <1>1, <1>2 DEF Added, Piece

(* Appending a piece moves none of the others.                             *)
LEMMA AppendPiece ==
  ASSUME NEW q \in Seq(Piece), NEW p \in Piece
  PROVE  /\ q \o <<p>> \in Seq(Piece)
         /\ q \o <<p>> # <<>>
         /\ Len(q \o <<p>>) = Len(q) + 1
         /\ \A i \in 1 .. Len(q) : (q \o <<p>>)[i] = q[i]
         /\ (q \o <<p>>)[Len(q) + 1] = p
  OBVIOUS

(* A turn adds its piece to its channel, or nothing, and leaves the others *)
(* alone.                                                                  *)
LEMMA TurnWire ==
  ASSUME IInv, NEW s \in Sender, NEW n \in Nat, NEW k \in Nat, NEW c \in 1 .. 4,
         Turn(s, c, n, k)
  PROVE  /\ wire' \in [1 .. 4 -> Seq(Piece)]
         /\ \A d \in 1 .. 4 : d # c \/ k = 0 => wire'[d] = wire[d]
         /\ k # 0 => /\ wire'[c] # <<>>
                     /\ Len(wire'[c]) = Len(wire[c]) + 1
                     /\ \A i \in 1 .. Len(wire[c]) : wire'[c][i] = wire[c][i]
                     /\ wire'[c][Len(wire[c]) + 1] = Added(s, k)
<1>1. wire \in [1 .. 4 -> Seq(Piece)]
  BY DEF IInv, TypeOK
<1>2. wire' = [wire EXCEPT ![c] = @ \o PieceOf(s, k)] /\ pc[s] = "push"
  BY DEF Turn
<1>3. CASE k = 0
  <2>1. PieceOf(s, k) = <<>>
    BY <1>2, <1>3, TurnAdds
  <2>2. wire[c] \o <<>> = wire[c]
    BY <1>1
  <2>3. wire' = wire
    BY <1>1, <1>2, <2>1, <2>2
  <2> QED BY <1>1, <1>3, <2>3
<1>4. CASE k # 0
  <2>1. PieceOf(s, k) = <<Added(s, k)>> /\ Added(s, k) \in Piece
    BY <1>2, <1>4, TurnAdds
  <2> DEFINE q == wire[c] \o <<Added(s, k)>>
  <2>2. wire[c] \in Seq(Piece)
    BY <1>1
  <2>3. /\ q \in Seq(Piece) /\ q # <<>> /\ Len(q) = Len(wire[c]) + 1
        /\ \A i \in 1 .. Len(wire[c]) : q[i] = wire[c][i]
        /\ q[Len(wire[c]) + 1] = Added(s, k)
    BY <2>1, <2>2, AppendPiece
  <2>4. wire' = [wire EXCEPT ![c] = q]
    BY <1>2, <2>1
  <2> HIDE DEF q
  <2> QED BY <1>1, <1>4, <2>3, <2>4
<1> QED BY <1>3, <1>4

-----------------------------------------------------------------------------
(* The initial states.                                                     *)
LEMMA InitIInv == Init => IInv
<1> SUFFICES ASSUME Init PROVE IInv
  OBVIOUS
<1>1. PICK n \in Counts, d \in Data :
        args = [s \in Sender |-> [op |-> "send", chans |-> {}, count |-> n,
                                  data |-> d, burst |-> FALSE]]
  BY DEF Init
<1>2. args \in [Sender -> Args]
  BY <1>1 DEF Args, Ops
<1>3. buffer \in [Buffers -> [head : Header \cup {Null}, body : Data \cup {Null}]]
  BY DEF Init
<1>4. wire \in [Channel -> Seq(Piece)] /\ \A c \in Channel : Len(wire[c]) = 0
  BY DEF Init
<1>5. TypeOK
  BY <1>2, <1>3, <1>4 DEF Init, TypeOK
<1>6. Control
  BY <1>1 DEF Init, Control, Active
<1>7. Progress
  BY DEF Init, Progress, OwnFrame, InLoop, Behind, Active
<1>8. Contiguous /\ HeaderMatchesBody
  BY <1>4 DEF Contiguous, HeaderMatchesBody
<1> QED BY <1>5, <1>6, <1>7, <1>8 DEF IInv

-----------------------------------------------------------------------------
(* Types and control.                                                      *)
(* Every step keeps the types and the channel check.                       *)
LEMMA TypeOKStep == IInv /\ [Next]_vars => TypeOK'
<1> SUFFICES ASSUME IInv, [Next]_vars PROVE TypeOK'
  OBVIOUS
<1> USE DEF IInv
<1>1. ASSUME NEW s \in Sender, Call(s) PROVE TypeOK'
  <2>1. PICK a \in Args : Starts(s, a) /\ (Runs(s, a) \/ Refused(s))
    BY <1>1, CallStarts
  <2>2. a.chans \in SUBSET Channel
    BY DEF Args
  <2>3. args' \in [Sender -> Args] /\ left' \in [Sender -> SUBSET Channel]
    BY <2>1, <2>2 DEF Starts, TypeOK
  <2>4. /\ pc' \in [Sender -> {"idle", "header", "payload", "push"}]
        /\ result' \in [Sender -> {"none", "ok", "EIO", "EINVAL"}]
    BY <2>1 DEF Runs, Refused, TypeOK
  <2>5. \A u \in Sender : pc'[u] # "idle" /\ args'[u].op # "send3" =>
          \A c \in left'[u] : c < NumOfChannel
    BY <2>1 DEF Starts, Runs, Refused, TypeOK
  <2> QED BY <2>1, <2>3, <2>4, <2>5 DEF Starts, TypeOK
<1>2. ASSUME NEW s \in Sender, WriteHeader(s) \/ WritePayload(s) PROVE TypeOK'
  <2>1. BufferOf(s) \in Buffers
    BY <1>2, CurrentIsOwn DEF WriteHeader, WritePayload, Active
  <2>2. args[s] \in Args
    BY DEF TypeOK
  <2>3. HeaderOf(args[s]) \in Header /\ args[s].data \in Data
    BY <2>2 DEF Args, Header, HeaderOf
  <2>4. Total(args[s]) \in Nat
    <3>1. args[s].count \in Nat /\ HeaderLen \in Nat
      BY <2>2, BulkAssumption DEF Args
    <3> QED BY <3>1 DEF Total
  <2>5. buffer' \in [Buffers -> [head : Header \cup {Null}, body : Data \cup {Null}]]
    <3> DEFINE Contents == [head : Header \cup {Null}, body : Data \cup {Null}]
    <3>1. buffer \in [Buffers -> Contents] /\ buffer[BufferOf(s)] \in Contents
      BY <2>1 DEF TypeOK
    <3>2. /\ [buffer[BufferOf(s)] EXCEPT !.head = HeaderOf(args[s])] \in Contents
          /\ [buffer[BufferOf(s)] EXCEPT !.body = args[s].data] \in Contents
      BY <2>3, <3>1
    <3> SUFFICES buffer' \in [Buffers -> Contents]
      OBVIOUS
    <3> HIDE DEF Contents
    <3>3. CASE WriteHeader(s)
      <4>1. buffer' = [buffer EXCEPT ![BufferOf(s)] = [buffer[BufferOf(s)] EXCEPT !.head = HeaderOf(args[s])]]
        BY <3>3 DEF WriteHeader
      <4> QED BY <2>1, <3>1, <3>2, <4>1
    <3>4. CASE WritePayload(s)
      <4>1. buffer' = [buffer EXCEPT ![BufferOf(s)] = [buffer[BufferOf(s)] EXCEPT !.body = args[s].data]]
        BY <3>4 DEF WritePayload
      <4> QED BY <2>1, <3>1, <3>2, <4>1
    <3> QED BY <1>2, <3>3, <3>4
  <2>6. /\ pc' \in [Sender -> {"idle", "header", "payload", "push"}]
        /\ off' \in [Sender -> Nat] /\ sum' \in [Sender -> Nat]
        /\ \A u \in Sender : pc'[u] # "idle" => pc[u] # "idle"
    <3>1. CASE WriteHeader(s)
      BY <3>1 DEF WriteHeader, TypeOK
    <3>2. CASE WritePayload(s)
      BY <2>4, <3>2 DEF WritePayload, TypeOK
    <3> QED BY <1>2, <3>1, <3>2
  <2>7. UNCHANGED <<args, left, wire, result>>
    BY <1>2 DEF WriteHeader, WritePayload
  <2> QED BY <2>5, <2>6, <2>7 DEF TypeOK
<1>3. ASSUME NEW s \in Sender, PushFails(s) PROVE TypeOK'
  <2>1. /\ pc' = [pc EXCEPT ![s] = "idle"] /\ result' = [result EXCEPT ![s] = "EIO"]
        /\ left' = [left EXCEPT ![s] = {}]
        /\ off' = [off EXCEPT ![s] = 0] /\ sum' = [sum EXCEPT ![s] = 0]
        /\ UNCHANGED <<args, buffer, wire>>
    BY <1>3 DEF PushFails, Return
  <2> QED BY <2>1 DEF TypeOK
<1>4. ASSUME NEW s \in Sender, Push(s) PROVE TypeOK'
  <2> DEFINE c == Current(s)
  <2>1. PICK n, k \in Nat :
           /\ n \in 1 .. Bulk /\ n <= sum[s]
           /\ k <= n /\ (c \notin Short => k = n)
           /\ Turn(s, c, n, k)
           /\ GoesOn(s, n) \/ NextFrame(s, c, n)
    BY <1>4, PushTurns
  <2>2. c \in 1 .. 4
    BY <1>4, CurrentIsOwn DEF Push, Active
  <2> HIDE DEF c
  <2>3. wire' \in [Channel -> Seq(Piece)]
    BY <2>1, <2>2, TurnWire
  <2>4. off' \in [Sender -> Nat] /\ sum' \in [Sender -> Nat]
    BY <2>1 DEF Turn, TypeOK
  <2>5. UNCHANGED <<args, buffer>>
    BY <2>1 DEF Turn
  <2>6. CASE GoesOn(s, n)
    BY <2>3, <2>4, <2>5, <2>6 DEF GoesOn, TypeOK
  <2>7. CASE NextFrame(s, c, n)
    <3>1. left' \in [Sender -> SUBSET Channel] /\ \A u \in Sender : left'[u] \subseteq left[u]
      BY <2>7 DEF NextFrame, TypeOK
    <3>2. /\ pc' \in [Sender -> {"idle", "header", "payload", "push"}]
          /\ result' \in [Sender -> {"none", "ok", "EIO", "EINVAL"}]
          /\ \A u \in Sender : pc'[u] # "idle" => pc[u] # "idle"
      BY <2>1, <2>7 DEF NextFrame, Turn, TypeOK
    <3> QED BY <2>3, <2>4, <2>5, <3>1, <3>2 DEF TypeOK
  <2> QED BY <2>1, <2>6, <2>7
<1>5. CASE UNCHANGED vars
  BY <1>5 DEF vars, TypeOK
<1> QED BY <1>1, <1>2, <1>3, <1>4, <1>5 DEF Next

(* Every step keeps calls on their own channels and functions.             *)
LEMMA ControlStep == IInv /\ [Next]_vars => Control'
<1> SUFFICES ASSUME IInv, [Next]_vars PROVE Control'
  OBVIOUS
<1> USE DEF IInv
<1>1. ASSUME NEW s \in Sender, Call(s) PROVE Control'
  <2>1. PICK a \in Args : Starts(s, a) /\ (Runs(s, a) \/ Refused(s))
    BY <1>1, CallStarts
  <2>2. ASSUME NEW u \in Sender, u # s
        PROVE  /\ args'[u] = args[u] /\ left'[u] = left[u]
               /\ pc'[u] = pc[u] /\ result'[u] = result[u]
    BY <2>1, <2>2 DEF Starts, Runs, Refused, TypeOK
  <2>3. /\ args'[s] = a /\ left'[s] = a.chans /\ result'[s] # "ok"
        /\ pc'[s] \in {"idle", "header"} /\ (pc'[s] # "idle" => a.chans # {})
    BY <2>1 DEF Starts, Runs, Refused, TypeOK
  <2> SUFFICES ASSUME NEW u \in Sender
               PROVE  /\ args'[u].chans \subseteq Ports[u]
                      /\ left'[u] \subseteq args'[u].chans
                      /\ pc'[u] # "idle" => left'[u] # {} /\ args'[u].op \in Modes[u]
                      /\ args'[u].op # "send3" => \A c, d \in args'[u].chans : c = d
                      /\ pc'[u] = "header" => left'[u] = args'[u].chans
                      /\ result'[u] = "ok" => ~(pc'[u] # "idle") /\ left'[u] = {}
    BY DEF Control, Active
  <2>4. CASE u = s
    BY <2>1, <2>3, <2>4 DEF Starts
  <2>5. CASE u # s
    BY <2>2, <2>5 DEF Control, Active
  <2> QED BY <2>4, <2>5
<1>2. ASSUME NEW s \in Sender, WriteHeader(s) \/ WritePayload(s) PROVE Control'
  <2>1. /\ UNCHANGED <<args, left, result>>
        /\ \A u \in Sender : /\ pc'[u] = "idle" <=> pc[u] = "idle"
                             /\ pc'[u] = "header" => pc[u] = "header"
    BY <1>2 DEF WriteHeader, WritePayload, TypeOK
  <2> QED BY <2>1 DEF Control, Active
<1>3. ASSUME NEW s \in Sender, PushFails(s) PROVE Control'
  BY <1>3 DEF PushFails, Return, TypeOK, Control, Active
<1>4. ASSUME NEW s \in Sender, Push(s) PROVE Control'
  <2>1. PICK n, k \in Nat :
           /\ Turn(s, Current(s), n, k)
           /\ GoesOn(s, n) \/ NextFrame(s, Current(s), n)
    BY <1>4, PushTurns
  <2>2. UNCHANGED args /\ pc[s] = "push"
    BY <2>1 DEF Turn
  <2>3. CASE GoesOn(s, n)
    BY <2>2, <2>3 DEF GoesOn, Control, Active
  <2>4. CASE NextFrame(s, Current(s), n)
    BY <2>2, <2>4 DEF NextFrame, TypeOK, Control, Active
  <2> QED BY <2>1, <2>3, <2>4
<1>5. CASE UNCHANGED vars
  BY <1>5 DEF vars, Control, Active
<1> QED BY <1>1, <1>2, <1>3, <1>4, <1>5 DEF Next

-----------------------------------------------------------------------------
(* Progress of a call: what other threads leave alone, and what it does    *)
(* itself.                                                                 *)

Step(s) == Call(s) \/ WriteHeader(s) \/ WritePayload(s) \/ PushFails(s) \/ Push(s)

(* Where a call is depends on its own variables only.                      *)
LEMMA SamePlace ==
  ASSUME NEW u \in Sender, args'[u] = args[u], left'[u] = left[u]
  PROVE  Current(u)' = Current(u) /\ BufferOf(u)' = BufferOf(u)
<1>1. Current(u)' = Current(u)
  BY DEF Current
<1> QED BY <1>1 DEF BufferOf

(* A step of one thread leaves the variables, the buffer and the channels  *)
(* of a call of another thread alone.                                      *)
LEMMA StepOfOther ==
  ASSUME IInv, NEW s \in Sender, NEW u \in Sender, s # u, Step(s)
  PROVE  /\ pc'[u] = pc[u] /\ args'[u] = args[u] /\ left'[u] = left[u]
         /\ off'[u] = off[u] /\ sum'[u] = sum[u] /\ result'[u] = result[u]
         /\ Active(u) => buffer'[BufferOf(u)] = buffer[BufferOf(u)]
         /\ \A c \in args[u].chans : wire'[c] = wire[c]
<1> USE DEF IInv
<1>1. CASE Call(s)
  <2>1. PICK a \in Args : Starts(s, a) /\ (Runs(s, a) \/ Refused(s))
    BY <1>1, CallStarts
  <2> QED BY <2>1 DEF Starts, Runs, Refused, TypeOK
<1>2. CASE WriteHeader(s) \/ WritePayload(s)
  <2>1. /\ pc'[u] = pc[u] /\ off'[u] = off[u] /\ sum'[u] = sum[u]
        /\ UNCHANGED <<args, left, wire, result>>
    BY <1>2 DEF WriteHeader, WritePayload, TypeOK
  <2>2. Active(s)
    BY <1>2 DEF WriteHeader, WritePayload, Active
  <2>3. ASSUME Active(u) PROVE buffer'[BufferOf(u)] = buffer[BufferOf(u)]
    <3>1. BufferOf(u) \in Buffers /\ BufferOf(u) # BufferOf(s)
      BY <2>2, <2>3, CurrentIsOwn, OwnBuffers
    <3> QED BY <1>2, <3>1 DEF WriteHeader, WritePayload, TypeOK
  <2> QED BY <2>1, <2>3
<1>3. CASE PushFails(s)
  BY <1>3 DEF PushFails, Return, TypeOK
<1>4. CASE Push(s)
  <2>1. PICK n, k \in Nat :
           /\ Turn(s, Current(s), n, k)
           /\ GoesOn(s, n) \/ NextFrame(s, Current(s), n)
    BY <1>4, PushTurns
  <2>2. Current(s) \in args[s].chans /\ Current(s) \in 1 .. 4
    BY <1>4, CurrentIsOwn DEF Push, Active
  <2>3. \A c \in args[u].chans : c # Current(s) /\ c \in 1 .. 4
    <3>1. args[u].chans \subseteq 1 .. 4
      BY DEF TypeOK, Args
    <3> QED BY <2>2, <3>1, OwnChannels
  <2>4. \A c \in args[u].chans : wire'[c] = wire[c]
    <3>1. \A d \in 1 .. 4 : d # Current(s) => wire'[d] = wire[d]
      <4>1. Turn(s, Current(s), n, k) /\ Current(s) \in 1 .. 4
        BY <2>1, <2>2
      <4> QED BY <4>1, TurnWire
    <3> QED BY <2>3, <3>1
  <2>5. /\ pc'[u] = pc[u] /\ left'[u] = left[u] /\ result'[u] = result[u]
        /\ off'[u] = off[u] /\ sum'[u] = sum[u]
        /\ UNCHANGED <<args, buffer>>
    BY <2>1 DEF Turn, GoesOn, NextFrame, TypeOK
  <2> QED BY <2>4, <2>5
<1> QED BY <1>1, <1>2, <1>3, <1>4 DEF Step

(* So it stays where it was.                                               *)
LEMMA OthersKept ==
  ASSUME IInv, NEW s \in Sender, NEW u \in Sender, s # u, Step(s)
  PROVE  OwnFrame(u)' /\ InLoop(u)' /\ Behind(u)'
<1>1. /\ pc'[u] = pc[u] /\ args'[u] = args[u] /\ left'[u] = left[u]
      /\ off'[u] = off[u] /\ sum'[u] = sum[u] /\ result'[u] = result[u]
      /\ Active(u) => buffer'[BufferOf(u)] = buffer[BufferOf(u)]
      /\ \A c \in args[u].chans : wire'[c] = wire[c]
  BY StepOfOther
<1>2. Current(u)' = Current(u) /\ BufferOf(u)' = BufferOf(u)
  BY <1>1, SamePlace
<1>3. OwnFrame(u) /\ InLoop(u) /\ Behind(u)
  BY DEF IInv, Progress
<1>4. Active(u) => Current(u) \in args[u].chans
  BY CurrentIsOwn DEF IInv
<1>5. OwnFrame(u)'
  BY <1>1, <1>2, <1>3 DEF OwnFrame, HeaderOf, Active
<1>6. InLoop(u)'
  BY <1>1, <1>2, <1>3, <1>4 DEF InLoop, HeaderOf, Total, Latest, Active
<1>7. Behind(u)'
  BY <1>1, <1>3 DEF Behind, Served, HeaderOf, Total, Latest, Ends, Active
<1> QED BY <1>5, <1>6, <1>7

(* A call's own step keeps its header and samples in its buffer, its place *)
(* in the frame, and the channels behind it served.                        *)
LEMMA OwnStep ==
  ASSUME IInv, NEW s \in Sender, Step(s)
  PROVE  OwnFrame(s)' /\ InLoop(s)' /\ Behind(s)'
<1> USE DEF IInv
<1>0. OwnFrame(s) /\ InLoop(s) /\ Behind(s)
  BY DEF Progress
<1>1. CASE Call(s)
  <2>1. PICK a \in Args : Starts(s, a) /\ (Runs(s, a) \/ Refused(s))
    BY <1>1, CallStarts
  <2>2. pc'[s] \in {"idle", "header"} /\ result'[s] # "ok"
    BY <2>1 DEF Runs, Refused, TypeOK
  <2>3. args'[s].chans \ left'[s] = {}
    BY <2>1 DEF Starts, TypeOK
  <2> QED BY <2>2, <2>3 DEF OwnFrame, InLoop, Behind
<1>2. CASE WriteHeader(s)
  <2>1. pc[s] = "header" /\ pc'[s] = "payload" /\ UNCHANGED <<args, left, wire, result>>
    BY <1>2 DEF WriteHeader, TypeOK
  <2>2. BufferOf(s) \in Buffers /\ BufferOf(s)' = BufferOf(s)
    BY <2>1, CurrentIsOwn, SamePlace DEF Active
  <2>3. buffer'[BufferOf(s)].head = HeaderOf(args[s])
    <3>1. buffer[BufferOf(s)] \in [head : Header \cup {Null}, body : Data \cup {Null}]
      BY <2>2 DEF TypeOK
    <3>2. buffer' = [buffer EXCEPT ![BufferOf(s)] =
                       [buffer[BufferOf(s)] EXCEPT !.head = HeaderOf(args[s])]]
      BY <1>2 DEF WriteHeader
    <3> QED BY <2>2, <3>1, <3>2 DEF TypeOK
  <2>4. OwnFrame(s)' /\ InLoop(s)'
    BY <2>1, <2>2, <2>3 DEF OwnFrame, InLoop, HeaderOf
  <2>5. Behind(s)'
    BY <1>0, <2>1 DEF Behind, Served, HeaderOf, Total, Latest, Ends, Active
  <2> QED BY <2>4, <2>5
<1>3. CASE WritePayload(s)
  <2>1. /\ pc[s] = "payload" /\ pc'[s] = "push" /\ UNCHANGED <<args, left, wire, result>>
        /\ off'[s] = 0 /\ sum'[s] = Total(args[s])
    BY <1>3 DEF WritePayload, TypeOK
  <2>2. BufferOf(s) \in Buffers /\ BufferOf(s)' = BufferOf(s)
    BY <2>1, CurrentIsOwn, SamePlace DEF Active
  <2>3. buffer'[BufferOf(s)].head = HeaderOf(args[s]) /\ buffer'[BufferOf(s)].body = args[s].data
    <3>1. buffer[BufferOf(s)] \in [head : Header \cup {Null}, body : Data \cup {Null}]
      BY <2>2 DEF TypeOK
    <3>2. buffer' = [buffer EXCEPT ![BufferOf(s)] =
                       [buffer[BufferOf(s)] EXCEPT !.body = args[s].data]]
      BY <1>3 DEF WritePayload
    <3>3. buffer[BufferOf(s)].head = HeaderOf(args[s])
      BY <1>0, <2>1 DEF OwnFrame
    <3> QED BY <2>2, <3>1, <3>2, <3>3 DEF TypeOK
  <2>4. Total(args[s]) \in Nat /\ Total(args[s]) > 0
    <3>1. args[s].count \in Nat /\ HeaderLen \in Nat \ {0}
      BY BulkAssumption DEF TypeOK, Args
    <3> QED BY <3>1 DEF Total
  <2>5. OwnFrame(s)' /\ InLoop(s)'
    BY <2>1, <2>2, <2>3, <2>4 DEF OwnFrame, InLoop, HeaderOf, Total
  <2>6. Behind(s)'
    BY <1>0, <2>1 DEF Behind, Served, HeaderOf, Total, Latest, Ends, Active
  <2> QED BY <2>5, <2>6
<1>4. CASE PushFails(s)
  <2>1. pc'[s] = "idle" /\ result'[s] = "EIO"
    BY <1>4 DEF PushFails, Return, TypeOK
  <2> QED BY <2>1 DEF OwnFrame, InLoop, Behind, Active
<1>5. CASE Push(s)
  <2>0. PICK c \in 1 .. 4 : c = Current(s)
    BY <1>5, CurrentIsOwn DEF Push, Active
  <2>1. PICK n, k \in Nat :
           /\ n \in 1 .. Bulk /\ n <= sum[s]
           /\ k <= n /\ (c \notin Short => k = n)
           /\ Turn(s, c, n, k)
           /\ GoesOn(s, n) \/ NextFrame(s, c, n)
    BY <1>5, <2>0, PushTurns
  <2>2. /\ Active(s) /\ c \in left[s] /\ c \in args[s].chans /\ c \in 1 .. 4
        /\ left[s] \subseteq args[s].chans /\ args[s].chans \subseteq 1 .. 4
    BY <1>5, <2>0, CurrentIsOwn DEF Push, Active, TypeOK, Args, Control
  <2>3. /\ pc[s] = "push" /\ UNCHANGED <<args, buffer>>
        /\ off[s] \in Nat /\ sum[s] \in Nat
        /\ off'[s] = off[s] + n /\ sum'[s] = sum[s] - n
    BY <2>1 DEF Turn, TypeOK
  <2>4. \A d \in 1 .. 4 : d # c => wire'[d] = wire[d]
    <3>1. Turn(s, c, n, k)
      BY <2>1
    <3> QED BY <3>1, TurnWire
  <2>5. c \notin Short => wire'[c] # <<>> /\ Latest(c)' = Added(s, n)
    <3> SUFFICES ASSUME c \notin Short PROVE wire'[c] # <<>> /\ Latest(c)' = Added(s, n)
      OBVIOUS
    <3>1. k = n /\ k # 0
      BY <2>1
    <3>2. /\ wire'[c] # <<>> /\ Len(wire'[c]) = Len(wire[c]) + 1
          /\ wire'[c][Len(wire[c]) + 1] = Added(s, k)
      BY <2>1, <2>2, <3>1, TurnWire
    <3> QED BY <3>1, <3>2 DEF Latest
  <2>6. \A d \in args[s].chans \ left[s] : d \notin Short => Served(s, d)'
    BY <1>0, <2>2, <2>3, <2>4 DEF Behind, Served, HeaderOf, Total, Latest, Ends, Active
  <2>7. CASE GoesOn(s, n)
    <3>1. UNCHANGED <<pc, left, result>> /\ sum[s] - n > 0
      BY <2>7 DEF GoesOn
    <3>2. Current(s)' = c /\ BufferOf(s)' = BufferOf(s)
      BY <2>0, <2>3, <3>1, SamePlace
    <3>3. OwnFrame(s)'
      BY <1>0, <2>3, <3>1, <3>2 DEF OwnFrame, HeaderOf
    <3>4. InLoop(s)'
      BY <1>0, <2>0, <2>1, <2>3, <2>5, <3>1, <3>2 DEF InLoop, Added, HeaderOf, Total
    <3>5. Behind(s)'
      BY <2>3, <2>6, <3>1 DEF Behind
    <3> QED BY <3>3, <3>4, <3>5
  <2>8. CASE NextFrame(s, c, n)
    <3>1. sum[s] = n /\ left'[s] = left[s] \ {c} /\ pc'[s] \in {"idle", "payload"}
      BY <2>1, <2>3, <2>8 DEF NextFrame, TypeOK
    <3>2. OwnFrame(s)'
      <4>1. CASE pc'[s] = "payload"
        <5>1. left[s] \ {c} # {}
          BY <2>3, <2>8, <4>1 DEF NextFrame, TypeOK
        <5>2. args[s].op = "send3"
          BY <2>2, <5>1 DEF Control
        <5>3. BufferOf(s) = 1 /\ BufferOf(s)' = 1
          BY <2>3, <5>2 DEF BufferOf
        <5> QED BY <1>0, <2>3, <4>1, <5>3 DEF OwnFrame, HeaderOf
      <4> QED BY <3>1, <4>1 DEF OwnFrame
    <3>3. c \notin Short => Served(s, c)'
      <4>1. off[s] + n = Total(args[s])
        BY <1>0, <2>3, <3>1 DEF InLoop
      <4> QED BY <2>3, <2>5, <4>1 DEF Served, Added, Ends, HeaderOf, Total
    <3>4. Behind(s)'
      BY <2>3, <2>6, <3>1, <3>3 DEF Behind
    <3> QED BY <3>1, <3>2, <3>4 DEF InLoop
  <2> QED BY <2>1, <2>7, <2>8
<1> QED BY <1>1, <1>2, <1>3, <1>4, <1>5 DEF Step

(* Every step keeps what each running call knows of its frame.             *)
LEMMA ProgressStep == IInv /\ [Next]_vars => Progress'
<1> SUFFICES ASSUME IInv, [Next]_vars PROVE Progress'
  OBVIOUS
<1>1. ASSUME NEW s \in Sender, Step(s) PROVE Progress'
  <2>1. ASSUME NEW u \in Sender PROVE OwnFrame(u)' /\ InLoop(u)' /\ Behind(u)'
    BY <1>1, OthersKept, OwnStep
  <2> QED BY <2>1 DEF Progress
<1>2. CASE UNCHANGED vars
  <2>1. ASSUME NEW u \in Sender PROVE OwnFrame(u)' /\ InLoop(u)' /\ Behind(u)'
    <3>1. OwnFrame(u) /\ InLoop(u) /\ Behind(u)
      BY DEF IInv, Progress
    <3>2. Current(u)' = Current(u) /\ BufferOf(u)' = BufferOf(u)
      BY <1>2, SamePlace DEF vars
    <3> QED BY <1>2, <3>1, <3>2
          DEF vars, OwnFrame, InLoop, Behind, Served, HeaderOf, Total, Latest, Ends, Active
  <2> QED BY <2>1 DEF Progress
<1> QED BY <1>1, <1>2 DEF Next, Step

-----------------------------------------------------------------------------
(* The channels.                                                           *)

(* Nothing but the loop hands anything to a channel.                       *)
LEMMA OnlyPushSends ==
  ASSUME IInv, NEW s \in Sender, Step(s), ~Push(s)
  PROVE  UNCHANGED wire
<1>1. CASE Call(s)
  BY <1>1, CallStarts DEF Starts, IInv
<1>2. CASE WriteHeader(s) \/ WritePayload(s) \/ PushFails(s)
  BY <1>2 DEF WriteHeader, WritePayload, PushFails
<1> QED BY <1>1, <1>2 DEF Step

(* What a channel holds, in one formula per piece.                         *)
InPlace(q, i) ==
  /\ q[i].len \in 1 .. Bulk
  /\ q[i].off + q[i].len <= Total(q[i].head)
  /\ q[i].off > 0 => /\ i > 1
                     /\ q[i - 1].head = q[i].head
                     /\ q[i - 1].body = q[i].body
                     /\ q[i - 1].off + q[i - 1].len = q[i].off

(* A turn adds its piece right behind the one before it.                   *)
LEMMA ContiguousStep == IInv /\ [Next]_vars => Contiguous'
<1> SUFFICES ASSUME IInv, [Next]_vars PROVE Contiguous'
  OBVIOUS
<1>1. ASSUME NEW s \in Sender, Step(s), ~Push(s) PROVE UNCHANGED wire
  BY <1>1, OnlyPushSends
<1>2. ASSUME NEW s \in Sender, Push(s) PROVE Contiguous'
  <2>0. PICK c \in 1 .. 4 : c = Current(s)
    BY <1>2, CurrentIsOwn DEF IInv, Push, Active
  <2>1. PICK n, k \in Nat :
           /\ n \in 1 .. Bulk /\ n <= sum[s]
           /\ k <= n /\ (c \notin Short => k = n)
           /\ Turn(s, c, n, k)
    BY <1>2, <2>0, PushTurns
  <2>2. ASSUME NEW d \in Channel \ Short, NEW i \in 1 .. Len(wire[d]) PROVE InPlace(wire[d], i)
    BY DEF IInv, Contiguous, InPlace
  <2>3. Turn(s, c, n, k) /\ pc[s] = "push"
    BY <2>1 DEF Turn
  <2>4. ASSUME NEW d \in Channel \ Short, NEW i \in 1 .. Len(wire'[d])
        PROVE  InPlace(wire'[d], i)
    <3>1. CASE d # c
      <4>1. wire'[d] = wire[d]
        BY <2>3, <3>1, TurnWire
      <4> QED BY <2>2, <4>1
    <3>2. CASE d = c
      <4> DEFINE l == Len(wire[c])
      <4>1. l \in Nat
        BY DEF IInv, TypeOK
      <4>2. n = k /\ k # 0
        BY <2>1, <3>2
      <4>3. /\ Len(wire'[c]) = l + 1
            /\ \A j \in 1 .. l : wire'[c][j] = wire[c][j]
            /\ wire'[c][l + 1] = Added(s, n)
        <5>1. Turn(s, c, n, k) /\ k # 0
          BY <2>3, <4>2
        <5>2. /\ wire'[c] # <<>>
              /\ Len(wire'[c]) = Len(wire[c]) + 1
              /\ \A j \in 1 .. Len(wire[c]) : wire'[c][j] = wire[c][j]
              /\ wire'[c][Len(wire[c]) + 1] = Added(s, k)
          BY <5>1, TurnWire, ZenonT(40)
        <5> QED BY <4>2, <5>2
      <4> HIDE DEF l
      <4>4. CASE i # l + 1
        <5>1. i \in 1 .. l /\ (i > 1 => i - 1 \in 1 .. l)
          BY <3>2, <4>1, <4>3, <4>4
        <5>2. InPlace(wire[d], i)
          BY <2>2, <3>2, <5>1 DEF l
        <5> QED BY <3>2, <4>3, <5>1, <5>2 DEF InPlace
      <4>5. CASE i = l + 1
        <5>1. /\ off[s] \in Nat /\ sum[s] \in Nat /\ off[s] + sum[s] = Total(args[s])
              /\ Total(HeaderOf(args[s])) = Total(args[s])
          BY <2>3 DEF IInv, TypeOK, Progress, InLoop, Total, HeaderOf
        <5>2. ASSUME off[s] > 0
              PROVE  /\ l > 0
                     /\ wire[c][l].head = HeaderOf(args[s])
                     /\ wire[c][l].body = args[s].data
                     /\ wire[c][l].off + wire[c][l].len = off[s]
          <6>1. wire[c] # <<>> /\ wire[c] \in Seq(Piece)
            BY <2>0, <2>3, <3>2, <5>2 DEF IInv, TypeOK, Progress, InLoop
          <6>2. l > 0
            BY <6>1 DEF l
          <6> QED BY <2>0, <2>3, <3>2, <5>2, <6>2 DEF IInv, Progress, InLoop, Latest, l
        <5>3. Added(s, n).off + Added(s, n).len <= Total(Added(s, n).head)
          BY <2>1, <5>1 DEF Added
        <5>4. off[s] > 0 => l \in 1 .. l /\ wire'[c][l] = wire[c][l]
          BY <4>1, <4>3, <5>2
        <5>5. wire'[d][i] = Added(s, n) /\ i - 1 = l
          BY <3>2, <4>1, <4>3, <4>5
        <5> QED BY <2>1, <3>2, <4>1, <4>5, <5>2, <5>3, <5>4, <5>5 DEF InPlace, Added
      <4> QED BY <4>4, <4>5
    <3> QED BY <3>1, <3>2
  <2> QED BY <2>4 DEF Contiguous, InPlace, Total
<1>3. CASE UNCHANGED wire
  BY <1>3 DEF IInv, Contiguous, Total
<1> QED BY <1>1, <1>2, <1>3 DEF Next, Step, vars

(* A turn adds a piece whose samples belong to its header.                 *)
LEMMA HeaderStep == IInv /\ [Next]_vars => HeaderMatchesBody'
<1> SUFFICES ASSUME IInv, [Next]_vars PROVE HeaderMatchesBody'
  OBVIOUS
<1>1. ASSUME NEW s \in Sender, Step(s), ~Push(s) PROVE UNCHANGED wire
  BY <1>1, OnlyPushSends
<1>2. ASSUME NEW s \in Sender, Push(s) PROVE HeaderMatchesBody'
  <2>0. PICK c \in 1 .. 4 : c = Current(s)
    BY <1>2, CurrentIsOwn DEF IInv, Push, Active
  <2>1. PICK n, k \in Nat : Turn(s, c, n, k)
    BY <1>2, <2>0, PushTurns
  <2>2. ASSUME NEW d \in Channel, NEW i \in 1 .. Len(wire'[d])
        PROVE  wire'[d][i].body = wire'[d][i].head.data
    <3>1. CASE d # c \/ k = 0
      <4>1. wire'[d] = wire[d]
        BY <2>1, <3>1, TurnWire
      <4> QED BY <4>1 DEF IInv, HeaderMatchesBody
    <3>2. CASE d = c /\ k # 0
      <4>1. /\ Len(wire'[c]) = Len(wire[c]) + 1 /\ Len(wire[c]) \in Nat
            /\ \A j \in 1 .. Len(wire[c]) : wire'[c][j] = wire[c][j]
            /\ wire'[c][Len(wire[c]) + 1] = Added(s, k)
        <5>1. wire[c] \in Seq(Piece)
          BY DEF IInv, TypeOK
        <5>2. Len(wire[c]) \in Nat
          BY <5>1
        <5>3. /\ Len(wire'[c]) = Len(wire[c]) + 1
              /\ \A j \in 1 .. Len(wire[c]) : wire'[c][j] = wire[c][j]
              /\ wire'[c][Len(wire[c]) + 1] = Added(s, k)
          BY <2>1, <3>2, TurnWire
        <5> QED BY <5>2, <5>3
      <4>2. Added(s, k).body = Added(s, k).head.data
        BY DEF Added, HeaderOf
      <4>3. i \in 1 .. Len(wire[c]) \/ i = Len(wire[c]) + 1
        BY <3>2, <4>1
      <4> QED BY <3>2, <4>1, <4>2, <4>3 DEF IInv, HeaderMatchesBody
    <3> QED BY <3>1, <3>2
  <2> QED BY <2>2 DEF HeaderMatchesBody
<1>3. CASE UNCHANGED wire
  BY <1>3 DEF IInv, HeaderMatchesBody
<1> QED BY <1>1, <1>2, <1>3 DEF Next, Step, vars

-----------------------------------------------------------------------------
(* The theorems.                                                           *)

(* IInv holds in every reachable state.                                    *)
LEMMA Inductive == Spec => []IInv
<1>1. Init => IInv
  BY InitIInv
<1>2. IInv /\ [Next]_vars => IInv'
  BY TypeOKStep, ControlStep, ProgressStep, ContiguousStep, HeaderStep DEF IInv
<1> QED BY <1>1, <1>2, PTL DEF Spec

(* Every variable keeps its type, and a single-port send that got past its *)
(* check is on a channel the board has.                                    *)
THEOREM BulkTypeOK == Spec => []TypeOK
<1>1. IInv => TypeOK
  BY DEF IInv
<1> QED BY <1>1, Inductive, PTL

(* Whatever fails, the pieces of a frame stand on the channel one behind   *)
(* the other, from its first word on, with no piece of another frame in    *)
(* between (on channels whose sends are not short).                        *)
THEOREM BulkContiguous == Spec => []Contiguous
<1>1. IInv => Contiguous
  BY DEF IInv
<1> QED BY <1>1, Inductive, PTL

(* Samples always travel under their own header, short sends included.     *)
THEOREM BulkHeaderMatchesBody == Spec => []HeaderMatchesBody
<1>1. IInv => HeaderMatchesBody
  BY DEF IInv
<1> QED BY <1>1, Inductive, PTL

(* A call that reports success has sent its whole frame on every channel   *)
(* it names (short sends excepted).                                        *)
THEOREM BulkSentInFull == Spec => []SentInFull
<1>1. IInv => SentInFull
  <2> SUFFICES ASSUME IInv, NEW s \in Sender, result[s] = "ok", NEW c \in args[s].chans \ Short
               PROVE  Served(s, c)
    BY DEF SentInFull, Served, Latest
  <2>1. left[s] = {}
    BY DEF IInv, Control
  <2> QED BY <2>1 DEF IInv, Progress, Behind
<1> QED BY <1>1, Inductive, PTL

-----------------------------------------------------------------------------
(* The frames a channel has carried.                                       *)

(* A piece that ends no frame adds none, one that does adds its own.       *)
LEMMA WholeGrows ==
  ASSUME NEW q \in Seq(Piece), NEW r \in Seq(Piece), Len(r) = Len(q) + 1,
         \A i \in 1 .. Len(q) : r[i] = q[i]
  PROVE  LET p == r[Len(q) + 1] IN
           Whole(r) = IF Ends(p) THEN Append(Whole(q), [head |-> p.head, body |-> p.body])
                      ELSE Whole(q)
<1>1. PICK n \in Nat : n = Len(q) /\ Len(r) = n + 1
  OBVIOUS
<1>2. PICK p : p = r[n + 1]
  OBVIOUS
<1>3. PICK E : E = Ending(q)
  OBVIOUS
<1>4. E \subseteq 1 .. n /\ IsFiniteSet(E) /\ n + 1 \notin E
  <2>1. E \subseteq 1 .. n
    BY <1>1, <1>3 DEF Ending
  <2>2. IsFiniteSet(1 .. n)
    BY <1>1, FS_Interval
  <2>3. IsFiniteSet(E)
    BY <2>1, <2>2, FS_Subset
  <2>4. n + 1 \notin 1 .. n
    BY <1>1
  <2> QED BY <2>1, <2>3, <2>4
<1>5. PICK m \in Nat : m = Cardinality(E)
  BY <1>4, FS_CardinalityType
<1>6. Whole(q) = [k \in 1 .. m |-> FrameIn(EndAt(q, E, k))]
  BY <1>3, <1>5 DEF Whole
<1>7. ASSUME ~Ends(p) PROVE Whole(r) = Whole(q)
  <2>1. Ending(r) = E
    BY <1>1, <1>2, <1>3, <1>7 DEF Ending
  <2>2. ASSUME NEW k PROVE EndAt(r, E, k) = EndAt(q, E, k)
    <3>1. PICK A : A = {j \in E : Cardinality({h \in E : h <= j}) = k}
      OBVIOUS
    <3>2. EndAt(r, E, k) = {r[i] : i \in A} /\ EndAt(q, E, k) = {q[i] : i \in A}
      BY <1>3, <2>1, <3>1 DEF EndAt
    <3>3. \A i \in A : r[i] = q[i]
      BY <1>1, <1>4, <3>1
    <3> QED BY <3>2, <3>3
  <2>3. Whole(r) = [k \in 1 .. m |-> FrameIn(EndAt(r, E, k))]
    BY <1>5, <2>1 DEF Whole
  <2> QED BY <1>6, <2>2, <2>3
<1>8. ASSUME Ends(p) PROVE Whole(r) = Append(Whole(q), [head |-> p.head, body |-> p.body])
  <2>1. PICK F : F = Ending(r) /\ F = E \cup {n + 1}
    <3>1. Ending(r) = E \cup {n + 1}
      BY <1>1, <1>2, <1>3, <1>8 DEF Ending
    <3> QED BY <3>1
  <2>2. Cardinality(F) = m + 1
    BY <1>4, <1>5, <2>1, FS_AddElement
  <2>3. ASSUME NEW j \in E PROVE {h \in F : h <= j} = {h \in E : h <= j}
    <3>1. j \in 1 .. n /\ ~(n + 1 <= j)
      BY <1>4
    <3> QED BY <2>1, <3>1
  <2>4. {h \in F : h <= n + 1} = F
    <3>1. \A h \in 1 .. n : h <= n + 1
      BY <1>1
    <3>2. \A h \in F : h <= n + 1
      BY <1>4, <2>1, <3>1
    <3> QED BY <3>2
  <2>5. ASSUME NEW k \in 1 .. m PROVE EndAt(r, F, k) = EndAt(q, E, k)
    <3>1. PICK A : A = {j \in E : Cardinality({h \in E : h <= j}) = k}
      OBVIOUS
    <3>2. {j \in F : Cardinality({h \in F : h <= j}) = k} = A
      <4>1. Cardinality({h \in F : h <= n + 1}) # k
        <5>1. Cardinality({h \in F : h <= n + 1}) = m + 1
          BY <2>2, <2>4
        <5>2. m + 1 # k
          BY <1>5
        <5> QED BY <5>1, <5>2
      <4>2. \A j \in E : Cardinality({h \in F : h <= j}) = Cardinality({h \in E : h <= j})
        BY <2>3
      <4> QED BY <2>1, <3>1, <4>1, <4>2
    <3>3. EndAt(r, F, k) = {r[i] : i \in A} /\ EndAt(q, E, k) = {q[i] : i \in A}
      BY <1>3, <2>1, <3>1, <3>2 DEF EndAt
    <3>4. \A i \in A : r[i] = q[i]
      BY <1>1, <1>4, <3>1
    <3> QED BY <3>3, <3>4
  <2>6. EndAt(r, F, m + 1) = {p}
    <3>1. ASSUME NEW j \in E PROVE Cardinality({h \in F : h <= j}) # m + 1
      <4>1. {h \in E : h <= j} \subseteq E
        OBVIOUS
      <4>2. Cardinality({h \in E : h <= j}) \in Nat /\ Cardinality({h \in E : h <= j}) <= m
        BY <1>4, <1>5, <4>1, FS_Subset, FS_CardinalityType
      <4>3. Cardinality({h \in E : h <= j}) # m + 1
        BY <1>5, <4>2
      <4>4. {h \in F : h <= j} = {h \in E : h <= j}
        BY <2>3
      <4> QED BY <4>3, <4>4
    <3>2. Cardinality({h \in F : h <= n + 1}) = m + 1
      BY <2>2, <2>4
    <3>3. {j \in F : Cardinality({h \in F : h <= j}) = m + 1} = {n + 1}
      BY <2>1, <3>1, <3>2
    <3>4. EndAt(r, F, m + 1) = {r[i] : i \in {n + 1}}
      BY <2>1, <3>3 DEF EndAt
    <3> QED BY <1>2, <3>4
  <2>7. PICK e : e = [head |-> p.head, body |-> p.body]
    OBVIOUS
  <2>8. PICK w : w = Whole(q)
    OBVIOUS
  <2>9. PICK v : v = Whole(r)
    OBVIOUS
  <2>10. DOMAIN v = 1 .. m + 1 /\ (\A k \in 1 .. m : v[k] = w[k]) /\ v[m + 1] = e
    <3>1. v = [k \in 1 .. m + 1 |-> FrameIn(EndAt(r, F, k))]
      BY <2>1, <2>2, <2>9 DEF Whole
    <3>2. ASSUME NEW k \in 1 .. m PROVE v[k] = w[k]
      <4>1. k \in 1 .. m + 1
        BY <1>5
      <4> QED BY <1>6, <2>5, <2>8, <3>1, <4>1
    <3>3. FrameIn({p}) = e
      BY <2>7 DEF FrameIn
    <3>4. m + 1 \in 1 .. m + 1
      BY <1>5
    <3>5. v[m + 1] = e
      BY <2>6, <3>1, <3>3, <3>4
    <3> QED BY <3>1, <3>2, <3>5
  <2>11. PICK S : S = {w[k] : k \in 1 .. m} \cup {e}
    OBVIOUS
  <2>12. w \in [1 .. m -> S] /\ v \in [1 .. m + 1 -> S]
    <3>1. \A k \in 1 .. m + 1 : k \in 1 .. m \/ k = m + 1
      BY <1>5
    <3>2. \A k \in 1 .. m + 1 : v[k] \in S
      BY <2>10, <2>11, <3>1
    <3>3. v \in [1 .. m + 1 -> S]
      <4>1. v = [k \in 1 .. m + 1 |-> v[k]]
        BY <2>9, <2>10 DEF Whole
      <4> QED BY <3>2, <4>1
    <3>4. w \in [1 .. m -> S]
      BY <1>6, <2>8, <2>11
    <3> QED BY <3>3, <3>4
  <2>13. w \in Seq(S) /\ v \in Seq(S) /\ e \in S /\ Len(w) = m /\ Len(v) = m + 1
    <3>1. e \in S
      BY <2>11
    <3>2. w \in Seq(S) /\ Len(w) = m
      BY <1>5, <2>12
    <3>3. v \in Seq(S) /\ Len(v) = m + 1
      <4>1. m + 1 \in Nat
        BY <1>5
      <4> QED BY <2>12, <4>1
    <3> QED BY <3>1, <3>2, <3>3
  <2>14. PICK u : u = Append(w, e)
    OBVIOUS
  <2>15. u \in Seq(S) /\ Len(u) = m + 1 /\ (\A k \in 1 .. m : u[k] = w[k]) /\ u[m + 1] = e
    BY <2>13, <2>14, AppendProperties
  <2>16. \A k \in 1 .. m + 1 : v[k] = u[k]
    <3>1. \A k \in 1 .. m + 1 : k \in 1 .. m \/ k = m + 1
      BY <1>5
    <3> QED BY <2>10, <2>15, <3>1
  <2>17. v = u
    BY <2>13, <2>15, <2>16, SeqEqual
  <2> QED BY <2>7, <2>8, <2>9, <2>14, <2>17
<1> QED BY <1>1, <1>2, <1>7, <1>8

-----------------------------------------------------------------------------
(* The transmit path as FrameLink sees it.                                 *)

(* At first no call is under way and no channel has carried anything.      *)
LEMMA LinkInit == Init => Link!Init
<1> SUFFICES ASSUME Init PROVE Link!Init
  OBVIOUS
<1>1. IInv
  BY InitIInv
<1>2. Serving = [s \in Sender |-> {}]
  BY DEF Init, Serving
<1>3. Asked \in [Sender -> [head : Header, body : Data]]
  BY <1>1 DEF IInv, TypeOK, Args, Asked, Header, HeaderOf
<1>4. Carried = [c \in Channel \ Short |-> <<>>]
  <2>1. Ending(<<>>) = {}
    BY DEF Ending
  <2>2. Whole(<<>>) = <<>>
    BY <2>1, FS_EmptySet DEF Whole
  <2>3. \A c \in Channel : wire[c] = <<>>
    BY DEF Init
  <2> QED BY <2>2, <2>3 DEF Carried
<1> QED BY <1>2, <1>3, <1>4 DEF Link!Init

(* The start of a call submits its frame for the channels whose sends are  *)
(* not short, a call that is refused for none.                             *)
LEMMA CallSubmits ==
  ASSUME IInv, NEW s \in Sender, Call(s)
  PROVE  Link!Submit(s)
<1> USE DEF IInv
<1>1. PICK a \in Args : Starts(s, a) /\ (Runs(s, a) \/ Refused(s))
  BY CallStarts
<1>2. Serving[s] = {}
  BY <1>1 DEF Starts, Active, Serving
<1>3. a.chans \subseteq Channel
  BY DEF Args
<1>4. \E chans \in SUBSET (Channel \ Short) : Serving' = [Serving EXCEPT ![s] = chans]
  <2>1. CASE Runs(s, a)
    <3>1. Serving' = [Serving EXCEPT ![s] = a.chans \ Short]
      BY <1>1, <2>1 DEF Starts, Runs, TypeOK, Serving
    <3> QED BY <1>3, <3>1
  <2>2. CASE Refused(s)
    <3>1. Serving' = [Serving EXCEPT ![s] = {}]
      BY <1>1, <2>2 DEF Starts, Refused, TypeOK, Serving
    <3> QED BY <3>1
  <2> QED BY <1>1, <2>1, <2>2
<1>5. \E f \in [head : Header, body : Data] : Asked' = [Asked EXCEPT ![s] = f]
  <2>1. PICK f : f = [head |-> HeaderOf(a), body |-> a.data]
    OBVIOUS
  <2>2. f \in [head : Header, body : Data]
    BY <2>1 DEF Args, Header, HeaderOf
  <2>3. Asked' = [Asked EXCEPT ![s] = f]
    BY <1>1, <2>1 DEF Starts, TypeOK, Asked, HeaderOf
  <2> QED BY <2>2, <2>3
<1>6. Carried' = Carried
  BY <1>1 DEF Starts, Carried
<1> QED BY <1>2, <1>4, <1>5, <1>6 DEF Link!Submit

(* Filling the buffer is not seen.                                         *)
LEMMA WritesUnseen ==
  ASSUME IInv, NEW s \in Sender, WriteHeader(s) \/ WritePayload(s)
  PROVE  UNCHANGED Link!vars
<1>1. /\ pc[s] # "idle" /\ UNCHANGED <<args, left, wire>>
      /\ pc' = [pc EXCEPT ![s] = "payload"] \/ pc' = [pc EXCEPT ![s] = "push"]
  BY DEF WriteHeader, WritePayload
<1>2. Serving' = Serving
  <2>1. \A u \in Sender : pc'[u] = "idle" <=> pc[u] = "idle"
    BY <1>1 DEF IInv, TypeOK
  <2> QED BY <1>1, <2>1 DEF Serving
<1>3. Asked' = Asked /\ Carried' = Carried
  BY <1>1 DEF Asked, Carried
<1> QED BY <1>2, <1>3 DEF Link!vars

(* An error ends the call before the frame of the channel it was at.       *)
LEMMA FailureAborts ==
  ASSUME IInv, NEW s \in Sender, PushFails(s)
  PROVE  Link!Abort(s) \/ UNCHANGED Link!vars
<1>1. Serving' = [Serving EXCEPT ![s] = {}]
  BY DEF PushFails, Return, IInv, TypeOK, Serving
<1>2. Asked' = Asked /\ Carried' = Carried
  BY DEF PushFails, Asked, Carried
<1>3. CASE Serving[s] = {}
  <2>1. Serving' = Serving
    BY <1>1, <1>3 DEF Serving
  <2> QED BY <1>2, <2>1 DEF Link!vars
<1>4. CASE Serving[s] # {}
  BY <1>1, <1>2, <1>4 DEF Link!Abort
<1> QED BY <1>3, <1>4

(* The turn that takes the last words of a frame carries it to its         *)
(* channel; no other turn is seen.                                         *)
LEMMA PushCarries ==
  ASSUME IInv, NEW s \in Sender, Push(s)
  PROVE  (\E c \in Channel \ Short : Link!Carry(s, c)) \/ UNCHANGED Link!vars
<1>1. PICK c : c = Current(s)
  OBVIOUS
<1>2. PICK n, k \in Nat :
         /\ n \in 1 .. Bulk /\ n <= sum[s]
         /\ k <= n /\ (c \notin Short => k = n)
         /\ Turn(s, c, n, k)
         /\ GoesOn(s, n) \/ NextFrame(s, c, n)
  BY <1>1, PushTurns
<1>3. pc[s] = "push" /\ UNCHANGED args /\ c \in left[s] /\ c \in 1 .. 4
  <2>1. pc[s] = "push" /\ UNCHANGED args
    BY <1>2 DEF Turn
  <2>2. Active(s)
    BY <2>1 DEF Active
  <2> QED BY <1>1, <2>1, <2>2, CurrentIsOwn DEF IInv
<1>4. Asked' = Asked
  BY <1>3 DEF Asked
<1>5. /\ wire' \in [1 .. 4 -> Seq(Piece)]
      /\ \A d \in 1 .. 4 : d # c => wire'[d] = wire[d]
      /\ k # 0 => /\ Len(wire'[c]) = Len(wire[c]) + 1
                  /\ \A i \in 1 .. Len(wire[c]) : wire'[c][i] = wire[c][i]
                  /\ wire'[c][Len(wire[c]) + 1] = Added(s, k)
  <2>1. n \in Nat /\ k \in Nat /\ Turn(s, c, n, k)
    BY <1>2
  <2>2. /\ wire' \in [1 .. 4 -> Seq(Piece)]
        /\ \A d \in 1 .. 4 : d # c \/ k = 0 => wire'[d] = wire[d]
        /\ k # 0 => /\ wire'[c] # <<>>
                    /\ Len(wire'[c]) = Len(wire[c]) + 1
                    /\ \A i \in 1 .. Len(wire[c]) : wire'[c][i] = wire[c][i]
                    /\ wire'[c][Len(wire[c]) + 1] = Added(s, k)
    <3>1. c \in 1 .. 4
      BY <1>3
    <3> QED BY <2>1, <3>1, TurnWire
  <2> QED BY <2>2
<1> USE DEF IInv
<1>6. CASE c \in Short
  <2>1. Carried' = Carried
    BY <1>5, <1>6 DEF Carried
  <2>2. Serving' = Serving
    <3>1. CASE GoesOn(s, n)
      BY <3>1 DEF GoesOn, Serving
    <3>2. CASE NextFrame(s, c, n)
      <4>1. left' = [left EXCEPT ![s] = @ \ {c}] /\ \A u \in Sender : u # s => pc'[u] = pc[u]
        BY <3>2 DEF NextFrame, TypeOK
      <4>2. (IF pc'[s] = "idle" THEN {} ELSE left'[s] \ Short) = left[s] \ Short
        BY <1>6, <3>2, <4>1 DEF NextFrame, TypeOK
      <4> QED BY <1>3, <4>1, <4>2 DEF Serving, TypeOK
    <3> QED BY <1>2, <3>1, <3>2
  <2> QED BY <1>4, <2>1, <2>2 DEF Link!vars
<1>7. CASE c \notin Short
  <2>1. k = n /\ k # 0
    BY <1>2, <1>7
  <2>2. PICK q, r \in Seq(Piece) :
           /\ q = wire[c] /\ r = wire'[c]
           /\ Len(r) = Len(q) + 1
           /\ \A i \in 1 .. Len(q) : r[i] = q[i]
           /\ r[Len(q) + 1] = Added(s, n)
    <3>1. wire[c] \in Seq(Piece) /\ wire'[c] \in Seq(Piece)
      BY <1>3, <1>5 DEF TypeOK
    <3> QED BY <1>5, <2>1, <3>1
  <2>3. PICK p : p = Added(s, n)
    OBVIOUS
  <2>4. Whole(wire'[c]) = IF Ends(p) THEN Append(Whole(wire[c]), [head |-> p.head, body |-> p.body])
                          ELSE Whole(wire[c])
    <3>1. r[Len(q) + 1] = p /\ Len(r) = Len(q) + 1 /\ \A i \in 1 .. Len(q) : r[i] = q[i]
      BY <2>2, <2>3
    <3>2. Whole(r) = IF Ends(p) THEN Append(Whole(q), [head |-> p.head, body |-> p.body])
                     ELSE Whole(q)
      BY <3>1, WholeGrows
    <3> QED BY <2>2, <3>2
  <2>5. [head |-> p.head, body |-> p.body] = Asked[s]
    BY <2>3 DEF Added, Asked
  <2>6. Ends(p) <=> sum[s] - n = 0
    <3>1. off[s] + sum[s] = Total(args[s]) /\ off[s] \in Nat /\ sum[s] \in Nat
      BY <1>3 DEF Progress, InLoop, TypeOK
    <3>2. Ends(p) <=> off[s] + n = Total(args[s])
      BY <2>3 DEF Ends, Added, HeaderOf, Total
    <3> QED BY <3>1, <3>2
  <2>7. CASE GoesOn(s, n)
    <3>1. Whole(wire'[c]) = Whole(wire[c])
      BY <2>4, <2>6, <2>7 DEF GoesOn
    <3>2. Carried' = Carried
      BY <1>5, <3>1 DEF Carried
    <3>3. Serving' = Serving
      BY <2>7 DEF GoesOn, Serving
    <3> QED BY <1>4, <3>2, <3>3 DEF Link!vars
  <2>8. CASE NextFrame(s, c, n)
    <3>1. Whole(wire'[c]) = Append(Whole(wire[c]), Asked[s])
      BY <2>4, <2>5, <2>6, <2>8 DEF NextFrame
    <3>2. Carried' = [Carried EXCEPT ![c] = Append(@, Asked[s])]
      BY <1>3, <1>5, <1>7, <3>1 DEF Carried
    <3>3. c \in Serving[s]
      BY <1>3, <1>7 DEF Serving
    <3>4. Serving' = [Serving EXCEPT ![s] = @ \ {c}]
      <4>1. left' = [left EXCEPT ![s] = @ \ {c}] /\ \A u \in Sender : u # s => pc'[u] = pc[u]
        BY <2>8 DEF NextFrame, TypeOK
      <4>2. (IF pc'[s] = "idle" THEN {} ELSE left'[s] \ Short) = (left[s] \ Short) \ {c}
        BY <2>8, <4>1 DEF NextFrame, TypeOK
      <4> QED BY <1>3, <4>1, <4>2 DEF Serving, TypeOK
    <3>5. Link!Carry(s, c)
      BY <1>4, <3>2, <3>3, <3>4 DEF Link!Carry
    <3> QED BY <1>3, <1>7, <3>5
  <2> QED BY <1>2, <2>7, <2>8
<1> QED BY <1>6, <1>7

(* The stream_send functions, with their pieces, failures and short sends, *)
(* implement FrameLink: calls hand their channels one whole frame each, in *)
(* order, or stop before the frame of a channel (channels whose sends may  *)
(* be short excepted).                                                     *)
THEOREM BulkImplementsLink == Spec => LinkSpec
<1>1. Init => Link!Init
  BY LinkInit
<1>2. IInv /\ [Next]_vars => [Link!Next]_Link!vars
  <2> SUFFICES ASSUME IInv, [Next]_vars PROVE [Link!Next]_Link!vars
    OBVIOUS
  <2>1. CASE UNCHANGED vars
    BY <2>1 DEF vars, Link!vars, Serving, Asked, Carried
  <2>2. ASSUME NEW s \in Sender, Step(s)
        PROVE  [Link!Next]_Link!vars
    BY <2>2, CallSubmits, WritesUnseen, FailureAborts, PushCarries DEF Step, Link!Next
  <2> QED BY <2>1, <2>2 DEF Next, Step
<1> QED BY <1>1, <1>2, Inductive, PTL DEF Spec, LinkSpec, Link!Spec
=============================================================================
