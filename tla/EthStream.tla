----------------------------- MODULE EthStream -----------------------------
(***************************************************************************)
(* The receive streams of libyunsdr: yunsdr_enable_rx asks a device for    *)
(* frames of a number of samples, yunsdr_read_samples takes one frame out  *)
(* of the byte stream of a TCP connection.  How long a frame is it takes   *)
(* from nbyte_per_frame, one variable for all devices; one thread per      *)
(* device calls enable, read and disable.                                  *)
(***************************************************************************)
EXTENDS Integers, Sequences, FiniteSets

CONSTANTS
  Board,     \* devices
  Sizes,     \* lengths of a frame's samples
  MaxStream  \* bound: words a connection holds

VARIABLES
  nbyte_per_frame,
  sending,  \* sending[d]: length of the frames d sends, 0 while it sends none
  stream,   \* stream[d]: what was sent and not yet received
  closed,   \* closed[d]: d has closed the connection
  reading,  \* reading[d]: a read on d is past its select
  meta,     \* meta[d]: rx_meta, as far as the read has filled it
  outcome,  \* outcome[d]: what the last read returned
  sizes     \* the lengths the program has used so far

streamVars == <<nbyte_per_frame, sending, stream, closed, reading, meta, outcome, sizes>>

(* A frame: YUNSDR_META, one word here, and the samples.                   *)
Frame(len) == [i \in 1 .. len |-> IF i = 1 THEN "meta" ELSE "samples"]
OneSize    == Cardinality(sizes) <= 1

StreamInit ==
  /\ nbyte_per_frame = 0
  /\ sending = [d \in Board |-> 0]
  /\ stream = [d \in Board |-> <<>>]
  /\ closed = [d \in Board |-> FALSE]
  /\ reading = [d \in Board |-> FALSE]
  /\ meta = [d \in Board |-> <<>>]
  /\ outcome = [d \in Board |-> "none"]
  /\ sizes = {}

BytesPerFrame(n) == 1 + n

(* yunsdr_enable_rx; the length is set before the request is sent.         *)
Enable(d, n) ==
  /\ ~reading[d]
  /\ sizes' = sizes \cup {n}
  /\ nbyte_per_frame' = BytesPerFrame(n)
  /\ \/ sending' = [sending EXCEPT ![d] = 1 + n]
     \/ UNCHANGED sending
  /\ UNCHANGED <<stream, closed, reading, meta, outcome>>

(* yunsdr_disable_rx closes the socket, what was in it is gone.            *)
Disable(d) ==
  /\ ~reading[d] /\ sending[d] > 0
  /\ sending' = [sending EXCEPT ![d] = 0]
  /\ stream' = [stream EXCEPT ![d] = <<>>]
  /\ closed' = [closed EXCEPT ![d] = FALSE]
  /\ UNCHANGED <<nbyte_per_frame, reading, meta, outcome, sizes>>

(* wait_for_recv_ready: a closed connection is ready too.                  *)
Select(d) ==
  /\ ~reading[d] /\ sending[d] > 0
  /\ meta' = [meta EXCEPT ![d] = <<>>]
  /\ \/ /\ stream[d] # <<>> \/ closed[d]
        /\ reading' = [reading EXCEPT ![d] = TRUE]
        /\ outcome' = [outcome EXCEPT ![d] = "none"]
     \/ /\ stream[d] = <<>> /\ ~closed[d]
        /\ outcome' = [outcome EXCEPT ![d] = "timed_out"]
        /\ UNCHANGED reading
  /\ UNCHANGED <<nbyte_per_frame, sending, stream, closed, sizes>>

(* What recv may be given: the rest of the frame, but as much as there is  *)
(* when a device enabled meanwhile has made the frame shorter than what    *)
(* was read, since the difference wraps around.                            *)
Wanted(d) ==
  IF nbyte_per_frame < Len(meta[d]) THEN Len(stream[d]) ELSE nbyte_per_frame - Len(meta[d])

(* Mutant: the loop goes on until there is more than a frame.              *)
Beyond(count) == count > nbyte_per_frame

(* Mutant: the loop ends with the first bytes.                             *)
Anything(count) == count > 0

WholeFrame(count) == count = nbyte_per_frame

(* One recv, of some of what has arrived: MSG_WAITALL waits, but a signal  *)
(* cuts it short.  At the end of a closed stream it returns 0, again and   *)
(* again, which is no step here.                                           *)
Recv(d) ==
  /\ reading[d]
  /\ \E k \in 0 .. Len(stream[d]) :
       /\ k <= Wanted(d)
       /\ k > 0 \/ Wanted(d) = 0
       /\ meta' = [meta EXCEPT ![d] = @ \o SubSeq(stream[d], 1, k)]
       /\ stream' = [stream EXCEPT ![d] = SubSeq(@, k + 1, Len(@))]
       /\ IF WholeFrame(Len(meta[d]) + k)
            THEN /\ reading' = [reading EXCEPT ![d] = FALSE]
                 /\ outcome' = [outcome EXCEPT ![d] = "frame"]
            ELSE UNCHANGED <<reading, outcome>>
  /\ UNCHANGED <<nbyte_per_frame, sending, closed, sizes>>

(* recv fails and the code returns, whatever the loop has read so far.  It *)
(* is taken to fail only when the connection is lost (EINTR is retried):   *)
(* what the connection held is gone, and nothing more comes.               *)
RecvFails(d) ==
  /\ reading[d]
  /\ reading' = [reading EXCEPT ![d] = FALSE]
  /\ outcome' = [outcome EXCEPT ![d] = "failed"]
  /\ stream' = [stream EXCEPT ![d] = <<>>]
  /\ closed' = [closed EXCEPT ![d] = TRUE]
  /\ UNCHANGED <<nbyte_per_frame, sending, meta, sizes>>

(* The device sends a frame, or closes the connection.                     *)
SendFrame(d) ==
  /\ sending[d] > 0 /\ ~closed[d]
  /\ Len(stream[d]) + sending[d] <= MaxStream
  /\ stream' = [stream EXCEPT ![d] = @ \o Frame(sending[d])]
  /\ UNCHANGED <<nbyte_per_frame, sending, closed, reading, meta, outcome, sizes>>

CloseConnection(d) ==
  /\ sending[d] > 0 /\ ~closed[d]
  /\ closed' = [closed EXCEPT ![d] = TRUE]
  /\ UNCHANGED <<nbyte_per_frame, sending, stream, reading, meta, outcome, sizes>>

StreamNext ==
  \E d \in Board :
    \/ \E n \in Sizes : Enable(d, n)
    \/ Disable(d) \/ Select(d) \/ Recv(d) \/ RecvFails(d) \/ SendFrame(d) \/ CloseConnection(d)

(* A reader inside its loop runs on, and an enabled device keeps sending.  *)
StreamFairness == \A d \in Board : WF_streamVars(Recv(d)) /\ WF_streamVars(SendFrame(d))

StreamSpec == StreamInit /\ [][StreamNext]_streamVars /\ StreamFairness

-----------------------------------------------------------------------------
(* While the program uses one length of frame for all its devices, what a  *)
(* read returns is one frame from its header on: neither time-outs, short  *)
(* recvs, failed requests nor lost connections leave the reader in the     *)
(* middle of one.                                                          *)
ReadsOneFrame ==
  OneSize => \A d \in Board : outcome[d] = "frame" => meta[d] = Frame(nbyte_per_frame)

(* And every read ends, unless the device closes the connection: then the  *)
(* loop of yunsdr_read_samples goes on for ever.                           *)
StreamReadEnds ==
  \A d \in Board : reading[d] ~> ~reading[d] \/ closed[d] \/ ~OneSize
=============================================================================
