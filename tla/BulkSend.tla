------------------------------ MODULE BulkSend ------------------------------
(***************************************************************************)
(* The transmit path of libyunsdr_ss: the four stream_send functions of    *)
(* the PCIe interface and the three of the SFP interface.  Each puts a     *)
(* header and the samples into a frame buffer and hands the frame to the   *)
(* link in pieces of at most Bulk words.  Lengths are in 32-bit words;     *)
(* the code counts bytes, always a multiple of four.                       *)
(***************************************************************************)
EXTENDS Integers, Sequences, FiniteSets

CONSTANTS
  Sender,        \* application threads
  Ports,         \* Ports[s]: the channels s transmits on
  Modes,         \* Modes[s]: the functions s calls, a subset of Ops
  Data,          \* contents of a frame: its time stamp and its samples
  Sends,         \* Sends[s]: the contents s transmits, a subset of Data
  Counts,        \* sample counts callers pass
  HeaderLen,     \* length of YUNSDR_META
  Bulk,          \* MAX_TX_BULK_SIZE (PCIe), a quarter of it (SFP)
  NumOfChannel,  \* handle->num_of_channel on PCIe; 5 on SFP, which checks none
  MayFail,       \* whether fpga_send or sendto may return an error
  Short,         \* channels where fpga_send may time out before it has sent all
  MaxWire,       \* bound: pieces on a channel when a call starts
  Null           \* "nothing written yet"

Channel == 1 .. 4
Ops == {"send", "send2", "send3", "send4"}

(* Two threads share no channel, and the first frame buffer, which send3   *)
(* uses whatever its channels are, belongs to one thread.                  *)
ASSUME BulkAssumption ==
  /\ Ports \in [Sender -> SUBSET Channel]
  /\ Modes \in [Sender -> SUBSET Ops]
  /\ \A s, u \in Sender : s # u => Ports[s] \cap Ports[u] = {}
  /\ \A s, u \in Sender : s # u /\ "send3" \in Modes[s] =>
       "send3" \notin Modes[u] /\ 1 \notin Ports[u]
  /\ Sends \in [Sender -> SUBSET Data] /\ Data # {}
  /\ Counts \subseteq Nat /\ Counts # {}
  /\ HeaderLen \in Nat \ {0}
  /\ Bulk \in Nat \ {0}
  /\ NumOfChannel \in Nat
  /\ MayFail \in BOOLEAN
  /\ Short \subseteq Channel
  /\ MaxWire \in Nat
  /\ Null \notin Data
  /\ Channel \cap Sender = {}

VARIABLES
  pc,      \* pc[s]: "idle", or the next step of s's call
  args,    \* args[s]: arguments of s's current or last call
  left,    \* left[s]: channels the call has not served yet
  off,     \* off[s]: words of the current frame handed over (samples)
  sum,     \* sum[s]: words of the current frame still to hand over
  buffer,  \* buffer[b]: trans->tx_meta[b - 1], or the zero-copy buffer of b
  wire,    \* wire[c]: the pieces handed to channel c
  result   \* result[s]: what the last call returned

vars == <<pc, args, left, off, sum, buffer, wire, result>>

Args    == [op : Ops, chans : SUBSET Channel, count : Counts, data : Data, burst : BOOLEAN]
Header  == [count : Counts, data : Data, burst : BOOLEAN]
Buffers == Channel \cup Sender
(* A piece carries what its buffer held when it was handed over.           *)
Piece   == [head : Header, body : Data, off : Nat, len : Nat]

HeaderOf(a) == [count |-> a.count, data |-> a.data, burst |-> a.burst]
Total(a) == HeaderLen + a.count
Shorter(x, y) == IF x < y THEN x ELSE y

(* The channel being served: the loop over the mask goes upwards.          *)
Current(s) == CHOOSE c \in left[s] : \A d \in left[s] : c <= d

(* Mutant: send uses one buffer for all channels.                          *)
BufferOfShared(s) == IF args[s].op = "send4" THEN s ELSE 1

BufferOf(s) ==
  IF args[s].op = "send4" THEN s ELSE IF args[s].op = "send3" THEN 1 ELSE Current(s)

Init ==
  /\ pc = [s \in Sender |-> "idle"]
  /\ \E n \in Counts, d \in Data :
       args = [s \in Sender |-> [op |-> "send", chans |-> {}, count |-> n,
                                 data |-> d, burst |-> FALSE]]
  /\ left = [s \in Sender |-> {}]
  /\ off = [s \in Sender |-> 0]
  /\ sum = [s \in Sender |-> 0]
  /\ buffer = [b \in Buffers |-> [head |-> Null, body |-> Null]]
  /\ wire = [c \in Channel |-> <<>>]
  /\ result = [s \in Sender |-> "none"]

Return(s, ret) ==
  /\ pc' = [pc EXCEPT ![s] = "idle"]
  /\ result' = [result EXCEPT ![s] = ret]

Enter(s, op, chans, n, d, b) ==
  /\ op \in Modes[s]
  /\ pc[s] = "idle"
  /\ \A c \in chans : Len(wire[c]) < MaxWire
  /\ args' = [args EXCEPT ![s] = [op |-> op, chans |-> chans, count |-> n,
                                  data |-> d, burst |-> b]]
  /\ left' = [left EXCEPT ![s] = chans]

(* Mutant: a bad channel is reported but the call goes on.                 *)
SendOneUnchecked(s, op, c, n, d, b) ==
  /\ Enter(s, op, {c}, n, d, b)
  /\ pc' = [pc EXCEPT ![s] = "header"]
  /\ result' = [result EXCEPT ![s] = IF c < NumOfChannel THEN "none" ELSE "EINVAL"]
  /\ UNCHANGED <<off, sum, buffer, wire>>

(* stream_send, send2 and send4 serve one channel.  Only send2 can mark    *)
(* the frame as a burst.                                                   *)
SendOne(s, op, c, n, d, b) ==
  /\ Enter(s, op, {c}, n, d, b)
  /\ IF c < NumOfChannel
     THEN /\ pc' = [pc EXCEPT ![s] = "header"]
          /\ result' = [result EXCEPT ![s] = "none"]
     ELSE Return(s, "EINVAL")
  /\ UNCHANGED <<off, sum, buffer, wire>>

(* The zero-copy send refuses a buffer whose header does not fit the call. *)
SendZeroCopyBadHeader(s, c, n, d) ==
  /\ Enter(s, "send4", {c}, n, d, FALSE)
  /\ Return(s, "EINVAL")
  /\ UNCHANGED <<off, sum, buffer, wire>>

(* The multi-port send checks no channel.  (With an empty mask it would    *)
(* fill in the header, hand over nothing and return; callers name one.)    *)
SendMany(s, chans, n, d, b) ==
  /\ chans # {}
  /\ Enter(s, "send3", chans, n, d, b)
  /\ pc' = [pc EXCEPT ![s] = "header"]
  /\ result' = [result EXCEPT ![s] = "none"]
  /\ UNCHANGED <<off, sum, buffer, wire>>

Call(s) ==
  \E n \in Counts, d \in Sends[s], b \in BOOLEAN :
    \/ \E c \in Ports[s], op \in {"send", "send2", "send4"} :
         (b => op = "send2") /\ SendOne(s, op, c, n, d, b)
    \/ \E c \in Ports[s] : SendZeroCopyBadHeader(s, c, n, d)
    \/ \E chans \in SUBSET Ports[s] : SendMany(s, chans, n, d, b)

(* Fill in the header; send3 does so once for all channels.                *)
WriteHeader(s) ==
  /\ pc[s] = "header"
  /\ buffer' = [buffer EXCEPT ![BufferOf(s)].head = HeaderOf(args[s])]
  /\ pc' = [pc EXCEPT ![s] = "payload"]
  /\ UNCHANGED <<args, left, off, sum, wire, result>>

(* Copy or convert the samples of the current channel into the buffer (for *)
(* the zero-copy call they are there already) and start the loop.          *)
WritePayload(s) ==
  /\ pc[s] = "payload"
  /\ buffer' = [buffer EXCEPT ![BufferOf(s)].body = args[s].data]
  /\ off' = [off EXCEPT ![s] = 0]
  /\ sum' = [sum EXCEPT ![s] = Total(args[s])]
  /\ pc' = [pc EXCEPT ![s] = "push"]
  /\ UNCHANGED <<args, left, wire, result>>

(* Mutant: the last piece is one word too long.                            *)
NextPieceOffByOne(s) == Shorter(Bulk, sum[s] + 1)

NextPiece(s) == Shorter(Bulk, sum[s])

Advance(s, n) ==
  /\ off' = [off EXCEPT ![s] = @ + n]
  /\ sum' = [sum EXCEPT ![s] = @ - n]

(* Mutant: the multi-port loop stops after its first channel.              *)
FrameDoneFirst(s) ==
  /\ left' = [left EXCEPT ![s] = {}]
  /\ Return(s, "ok")

(* After a whole frame: the next channel of the mask, or the end.          *)
FrameDone(s) ==
  /\ left' = [left EXCEPT ![s] = @ \ {Current(s)}]
  /\ IF left'[s] = {} THEN Return(s, "ok")
     ELSE /\ pc' = [pc EXCEPT ![s] = "payload"]
          /\ UNCHANGED result

(* Mutant: an error ends the loop but not the call.                        *)
PushFailsBreak(s) ==
  /\ MayFail
  /\ pc[s] = "push"
  /\ FrameDone(s)
  /\ UNCHANGED <<args, off, sum, buffer, wire>>

(* fpga_send or sendto fails: the call ends in the middle of the frame,    *)
(* and its local variables with it.                                        *)
PushFails(s) ==
  /\ MayFail
  /\ pc[s] = "push"
  /\ Return(s, "EIO")
  /\ left' = [left EXCEPT ![s] = {}]
  /\ off' = [off EXCEPT ![s] = 0]
  /\ sum' = [sum EXCEPT ![s] = 0]
  /\ UNCHANGED <<args, buffer, wire>>

(* What fpga_send takes of the n words it is offered.                      *)
Taken(c, n) == IF c \in Short THEN 0 .. n ELSE {n}

(* What k words out of s's buffer add to a channel.                        *)
PieceOf(s, k) ==
  LET b == buffer[BufferOf(s)]
  IN IF k = 0 THEN <<>>
     ELSE <<[head |-> b.head, body |-> b.body, off |-> off[s], len |-> k]>>

(* One turn of the loop, which goes on as if everything had been taken.    *)
Push(s) ==
  /\ pc[s] = "push"
  /\ LET n == NextPiece(s)
         c == Current(s)
     IN  /\ \E k \in Taken(c, n) : wire' = [wire EXCEPT ![c] = @ \o PieceOf(s, k)]
         /\ Advance(s, n)
         /\ IF sum[s] - n > 0 THEN UNCHANGED <<pc, left, result>> ELSE FrameDone(s)
  /\ UNCHANGED <<args, buffer>>

Next == \E s \in Sender :
  Call(s) \/ WriteHeader(s) \/ WritePayload(s) \/ PushFails(s) \/ Push(s)

Spec == Init /\ [][Next]_vars

-----------------------------------------------------------------------------
Ends(p) == p.off + p.len = Total(p.head)

(* Values stay in their types, and a single-port call that got past its    *)
(* check transmits on a channel the board has.                             *)
TypeOK ==
  /\ pc \in [Sender -> {"idle", "header", "payload", "push"}]
  /\ args \in [Sender -> Args]
  /\ left \in [Sender -> SUBSET Channel]
  /\ off \in [Sender -> Nat]
  /\ sum \in [Sender -> Nat]
  /\ buffer \in [Buffers -> [head : Header \cup {Null}, body : Data \cup {Null}]]
  /\ wire \in [Channel -> Seq(Piece)]
  /\ result \in [Sender -> {"none", "ok", "EIO", "EINVAL"}]
  /\ \A s \in Sender : pc[s] # "idle" /\ args[s].op # "send3" =>
       \A c \in left[s] : c < NumOfChannel

(* A piece in the middle of a frame directly follows the piece before it   *)
(* of the same frame, and no piece is empty, longer than the link takes or *)
(* past the end of its frame: whatever fails, pieces of two frames are     *)
(* never mixed, lost or repeated within one frame.  (Of a channel whose    *)
(* sends may be short this cannot be said.)                                *)
Contiguous ==
  \A c \in Channel \ Short : \A i \in 1 .. Len(wire[c]) :
    LET p == wire[c][i] IN
      /\ p.len \in 1 .. Bulk
      /\ p.off + p.len <= Total(p.head)
      /\ p.off > 0 => /\ i > 1
                      /\ wire[c][i - 1].head = p.head
                      /\ wire[c][i - 1].body = p.body
                      /\ wire[c][i - 1].off + wire[c][i - 1].len = p.off

(* The samples a piece carries belong to the header of its frame, also     *)
(* after sends that were short or failed and left their buffer behind.     *)
HeaderMatchesBody ==
  \A c \in Channel : \A i \in 1 .. Len(wire[c]) : wire[c][i].body = wire[c][i].head.data

(* When a call has reported success, the last piece on every channel it    *)
(* names is the end of its own frame: nothing is missing, and nothing was  *)
(* handed over behind it (short sends excepted).                           *)
SentInFull ==
  \A s \in Sender : result[s] = "ok" =>
    \A c \in args[s].chans \ Short :
      /\ wire[c] # <<>>
      /\ LET p == wire[c][Len(wire[c])] IN p.head = HeaderOf(args[s]) /\ Ends(p)

(* The places E in q where frames end, the piece at the k-th of them, and  *)
(* the frames that q carries to their end.                                 *)
Ending(q) == {i \in 1 .. Len(q) : Ends(q[i])}
EndAt(q, E, k) == {q[i] : i \in {j \in E : Cardinality({h \in E : h <= j}) = k}}
FrameIn(X) == LET p == CHOOSE x \in X : TRUE IN [head |-> p.head, body |-> p.body]
Whole(q) == LET E == Ending(q) IN [k \in 1 .. Cardinality(E) |-> FrameIn(EndAt(q, E, k))]

(* Seen from the channels, calls deliver whole frames, in order, also when *)
(* sends fail or are short on another channel.                             *)
Serving == [s \in Sender |-> IF pc[s] = "idle" THEN {} ELSE left[s] \ Short]
Asked   == [s \in Sender |-> [head |-> HeaderOf(args[s]), body |-> args[s].data]]
Carried == [c \in Channel \ Short |-> Whole(wire[c])]

Link == INSTANCE FrameLink WITH
  Channel <- Channel \ Short, Frame <- [head : Header, body : Data],
  job <- Serving, what <- Asked, frames <- Carried

LinkSpec == Link!Spec
=============================================================================
