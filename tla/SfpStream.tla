------------------------------ MODULE SfpStream ------------------------------
(***************************************************************************)
(* The receive streams of the SFP transport of libyunsdr_ss                *)
(* (interface_sfp.c): a read sends a request on the command socket and     *)
(* collects, for every channel it asked for, one frame from the UDP        *)
(* datagrams that arrive on the socket of that channel.  Lengths are in    *)
(* 32-bit words.                                                           *)
(***************************************************************************)
EXTENDS Integers, Sequences

CONSTANTS
  Thread,     \* application threads
  Streams,    \* Streams[t]: the channels t reads
  Modes,      \* Modes[t]: the functions t calls
  Counts,     \* sample counts callers ask for
  Time,       \* receive times callers ask for
  HeaderLen,  \* length of YUNSDR_META
  Mtu,        \* longest datagram the device sends
  Faulty,     \* channels whose datagrams may get lost or be late, and whose
              \* recvfrom may fail
  MayFail,    \* whether sendto may fail
  MayLose,    \* whether the network may lose a request
  MaxAir,     \* bound: datagrams on the way or unread when a call starts
  Null        \* "not read"

Channel == 1 .. 4
Ops == {"recv", "recv2", "recv3"}

(* Two threads share no channel, and rx_meta[0], into which recv3 reads    *)
(* whatever its channels are, belongs to one thread.                       *)
ASSUME StreamAssumption ==
  /\ Streams \in [Thread -> SUBSET Channel]
  /\ Modes \in [Thread -> SUBSET Ops]
  /\ \A t, u \in Thread : t # u => Streams[t] \cap Streams[u] = {}
  /\ \A t, u \in Thread : t # u /\ "recv3" \in Modes[t] =>
       "recv3" \notin Modes[u] /\ 1 \notin Streams[u]
  /\ Counts \subseteq Nat /\ HeaderLen \in Nat \ {0} /\ Mtu \in Nat \ {0}
  /\ Faulty \subseteq Channel /\ {MayFail, MayLose} \subseteq BOOLEAN
  /\ MaxAir \in Nat
  /\ Channel \cap Thread = {}

VARIABLES
  pc,      \* pc[t]: "idle", or the next step of t's call
  call,    \* call[t]: arguments of t's current or last call
  left,    \* left[t]: channels the call has not yet read
  nrecv,   \* nrecv[t]: words of the current frame received so far
  buf,     \* buf[b]: what the read of a frame has put into rx_meta[b - 1], or
           \* into b's own buffer
  got,     \* got[t][c]: what t's last call returned for channel c
  result,  \* result[t]: what t's last call returned
  toDev,   \* requests on their way to the device
  air,     \* air[c]: datagrams of channel c on their way to the host
  sock     \* sock[c]: datagrams waiting in handle->sockfd[c - 1]

vars == <<pc, call, left, nrecv, buf, got, result, toDev, air, sock>>
net == <<toDev, air, sock>>

Frame    == [ch : Channel, count : Counts, time : Time]
Datagram == [frame : Frame, off : Nat, len : Nat]
Request  == [op : Ops, chans : SUBSET Channel, count : Counts, time : Time]

Total(n) == HeaderLen + n
Shorter(x, y) == IF x < y THEN x ELSE y

(* The datagrams the device makes of a frame.                              *)
Pieces(f) ==
  LET total == Total(f.count)
  IN [i \in 1 .. (total + Mtu - 1) \div Mtu |->
        [frame |-> f, off |-> (i - 1) * Mtu, len |-> Shorter(Mtu, total - (i - 1) * Mtu)]]

Current(t) == CHOOSE c \in left[t] : \A d \in left[t] : c <= d

(* Mutant: recv uses one buffer for all channels.                          *)
BufferOfShared(t) == IF call[t].op = "recv2" THEN t ELSE 1

BufferOf(t) ==
  IF call[t].op = "recv2" THEN t ELSE IF call[t].op = "recv3" THEN 1 ELSE Current(t)

Init ==
  /\ pc = [t \in Thread |-> "idle"]
  /\ \E n \in Counts, v \in Time :
       call = [t \in Thread |-> [op |-> "recv", chans |-> {}, count |-> n, time |-> v]]
  /\ left = [t \in Thread |-> {}]
  /\ nrecv = [t \in Thread |-> 0]
  /\ buf = [b \in Channel \cup Thread |-> <<>>]
  /\ got = [t \in Thread |-> [c \in Channel |-> Null]]
  /\ result = [t \in Thread |-> "none"]
  /\ toDev = <<>>
  /\ air = [c \in Channel |-> <<>>]
  /\ sock = [c \in Channel |-> <<>>]

Return(t, ret) ==
  /\ pc' = [pc EXCEPT ![t] = "idle"]
  /\ result' = [result EXCEPT ![t] = ret]

Goto(t, next) ==
  /\ pc' = [pc EXCEPT ![t] = next]
  /\ UNCHANGED result

Call(t, op, chans, n, v) ==
  /\ op \in Modes[t]
  /\ pc[t] = "idle"
  /\ Len(toDev) + 1 <= MaxAir
  /\ \A c \in chans : Len(air[c]) + Len(sock[c]) <= MaxAir
  /\ call' = [call EXCEPT ![t] = [op |-> op, chans |-> chans, count |-> n, time |-> v]]
  /\ left' = [left EXCEPT ![t] = chans]
  /\ got' = [got EXCEPT ![t] = [c \in Channel |-> Null]]
  /\ pc' = [pc EXCEPT ![t] = "send"]
  /\ result' = [result EXCEPT ![t] = "none"]
  /\ UNCHANGED <<nrecv, buf, net>>

StreamRecv(t, c, n, v) == \E op \in {"recv", "recv2"} : Call(t, op, {c}, n, v)
StreamRecv3(t, chans, n, v) == Call(t, "recv3", chans, n, v)

(* A multi-port read of no channel is over when its request is sent.       *)
Sendto(t) ==
  /\ pc[t] = "send"
  /\ \/ /\ toDev' = Append(toDev, call[t])
        /\ IF left[t] = {} THEN Return(t, "ok") ELSE Goto(t, "select")
     \/ /\ MayFail
        /\ Return(t, "failed")
        /\ UNCHANGED toDev
  /\ UNCHANGED <<call, left, nrecv, buf, got, air, sock>>

(* The next frame is put together from the start of the buffer.            *)
Forget(t) ==
  /\ nrecv' = [nrecv EXCEPT ![t] = 0]
  /\ buf' = [buf EXCEPT ![BufferOf(t)] = <<>>]

SelectReady(t) ==
  /\ pc[t] = "select"
  /\ sock[Current(t)] # <<>>
  /\ Goto(t, "recv")
  /\ UNCHANGED <<call, left, nrecv, buf, got, net>>

Requested(c) == \E i \in 1 .. Len(toDev) : c \in toDev[i].chans
OnItsWay(c) == Requested(c) \/ air[c] # <<>>

(* Ten seconds without a datagram on the current channel end the call, the *)
(* other channels of a multi-port call unread.  On a sound channel ten     *)
(* seconds are enough for everything to arrive.                            *)
SelectTimeout(t) ==
  /\ pc[t] = "select"
  /\ LET c == Current(t) IN
       /\ sock[c] = <<>>
       /\ c \in Faulty \/ ~OnItsWay(c)
  /\ Return(t, "failed")
  /\ left' = [left EXCEPT ![t] = {}]
  /\ UNCHANGED <<call, nrecv, buf, got, net>>

(* Mutant: the first datagram is taken for the whole frame.                *)
CompleteAtOnce(t, n) == TRUE

(* Mutant: the loop never sees the end of the frame.                       *)
CompleteNever(t, n) == FALSE

Complete(t, n) == nrecv[t] + n = Total(call[t].count)

(* Mutant: recvfrom is always offered the length of a whole frame.         *)
RoomWhole(t) == Total(call[t].count)

(* The length offered to recvfrom, which cuts off what does not fit.       *)
Room(t) == Total(call[t].count) - nrecv[t]

(* recvfrom, which waits without a limit.                                  *)
Recvfrom(t) ==
  /\ pc[t] = "recv"
  /\ LET c == Current(t)
         b == BufferOf(t)
         d == Head(sock[c])
         n == Shorter(d.len, Room(t))
     IN  /\ sock[c] # <<>>
         /\ sock' = [sock EXCEPT ![c] = Tail(@)]
         /\ buf' = [buf EXCEPT ![b] = Append(@, [d EXCEPT !.len = n])]
         /\ nrecv' = [nrecv EXCEPT ![t] = @ + n]
         /\ Goto(t, IF Complete(t, n) THEN "copy" ELSE "recv")
  /\ UNCHANGED <<call, left, got, toDev, air>>

(* Any error but EINTR, after which the loop tries again.                  *)
RecvfromFails(t) ==
  /\ pc[t] = "recv"
  /\ Current(t) \in Faulty
  /\ Return(t, "failed")
  /\ Forget(t)
  /\ left' = [left EXCEPT ![t] = {}]
  /\ UNCHANGED <<call, got, net>>

(* Copy or convert the samples to the caller; recv2 has received into the  *)
(* caller's own buffer.                                                    *)
Copy(t) ==
  /\ pc[t] = "copy"
  /\ got' = [got EXCEPT ![t][Current(t)] = buf[BufferOf(t)]]
  /\ left' = [left EXCEPT ![t] = @ \ {Current(t)}]
  /\ IF left'[t] = {} THEN Return(t, "ok") ELSE Goto(t, "select")
  /\ Forget(t)
  /\ UNCHANGED <<call, net>>

(* The device answers a request with a frame on each of its channels.      *)
Device ==
  /\ toDev # <<>>
  /\ toDev' = Tail(toDev)
  /\ LET r == Head(toDev) IN
       air' = [c \in Channel |->
                 IF c \in r.chans
                 THEN air[c] \o Pieces([ch |-> c, count |-> r.count, time |-> r.time])
                 ELSE air[c]]
  /\ UNCHANGED <<pc, call, left, nrecv, buf, got, result, sock>>

Arrive(c) ==
  /\ air[c] # <<>>
  /\ sock' = [sock EXCEPT ![c] = Append(@, Head(air[c]))]
  /\ air' = [air EXCEPT ![c] = Tail(@)]
  /\ UNCHANGED <<pc, call, left, nrecv, buf, got, result, toDev>>

Lose ==
  /\ \/ /\ MayLose /\ toDev # <<>>
        /\ toDev' = Tail(toDev)
        /\ UNCHANGED air
     \/ /\ \E c \in Faulty : air[c] # <<>> /\ air' = [air EXCEPT ![c] = Tail(@)]
        /\ UNCHANGED toDev
  /\ UNCHANGED <<pc, call, left, nrecv, buf, got, result, sock>>

Step(t) ==
  Sendto(t) \/ SelectReady(t) \/ SelectTimeout(t) \/ Recvfrom(t) \/ RecvfromFails(t) \/ Copy(t)

Next ==
  \/ \E t \in Thread :
       \/ Step(t)
       \/ \E n \in Counts, v \in Time :
            \/ \E c \in Streams[t] : StreamRecv(t, c, n, v)
            \/ \E chans \in SUBSET Streams[t] : StreamRecv3(t, chans, n, v)
  \/ Device \/ Lose \/ \E c \in Channel : Arrive(c)

Spec == Init /\ [][Next]_vars

(* A thread inside a call keeps running, the device answers and datagrams  *)
(* that are not lost arrive.                                               *)
Fairness ==
  /\ WF_vars(Device)
  /\ \A c \in Channel : WF_vars(Arrive(c))
  /\ \A t \in Thread : WF_vars(Step(t))

FairSpec == Spec /\ Fairness

-----------------------------------------------------------------------------
(* Values stay in their types, and no read puts more words into a buffer   *)
(* than the frame it asked for has, whatever datagrams arrive: late ones,  *)
(* ones of another read with another length, or with a gap.                *)
TypeOK ==
  /\ pc \in [Thread -> {"idle", "send", "select", "recv", "copy"}]
  /\ call \in [Thread -> Request]
  /\ left \in [Thread -> SUBSET Channel]
  /\ nrecv \in [Thread -> Nat]
  /\ buf \in [Channel \cup Thread -> Seq(Datagram)]
  /\ got \in [Thread -> [Channel -> Seq(Datagram) \cup {Null}]]
  /\ result \in [Thread -> {"none", "ok", "failed"}]
  /\ toDev \in Seq(Request)
  /\ air \in [Channel -> Seq(Datagram)]
  /\ sock \in [Channel -> Seq(Datagram)]
  /\ \A t \in Thread : pc[t] \in {"recv", "copy"} => nrecv[t] <= Total(call[t].count)

(* Threads that read no faulty channel.                                    *)
Sound(t) == Streams[t] \cap Faulty = {}

(* A read that reports success has, on every channel it asked for, all the *)
(* datagrams of its own frame, in order and uncut, and none of another,    *)
(* whatever another thread's faulty channel does.                          *)
ReadWhole ==
  \A t \in Thread :
    Sound(t) /\ pc[t] = "idle" /\ result[t] = "ok" =>
      \A c \in call[t].chans :
        got[t][c] = Pieces([ch |-> c, count |-> call[t].count, time |-> call[t].time])

(* When no thread is reading a channel nothing is on its way to it, also   *)
(* after a multi-port read that gave up on its first channel: the next     *)
(* read cannot find what an earlier one left.                              *)
LeavesNothing ==
  \A c \in Channel \ Faulty :
    (\A t \in Thread : pc[t] = "idle" \/ c \notin left[t]) =>
      ~OnItsWay(c) /\ sock[c] = <<>>

(* Every read of sound channels ends, with its frames or by a time-out.     *)
ReadEnds == \A t \in Thread : Sound(t) => (pc[t] # "idle" ~> pc[t] = "idle")
=============================================================================
