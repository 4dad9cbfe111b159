------------------------------ MODULE EthDevice ------------------------------
(***************************************************************************)
(* The life of an Ethernet device in libyunsdr: what yunsdr_open_device,   *)
(* enable and disable of the data links, and yunsdr_close_device do to the *)
(* sockets, the status word and the memory of the process.                 *)
(*                                                                         *)
(* A call is the list of the system calls it still has to make, so that    *)
(* calls of several threads, each on its own device, can interleave.       *)
(***************************************************************************)
EXTENDS Integers, Sequences

CONSTANTS
  Device,      \* devices the program uses, each from one thread
  Fd,          \* file descriptors the process may have
  Concurrent,  \* whether calls on two devices may overlap
  Faults,      \* what may fail: "socket", "hello", "connect", "memory"
  Free         \* the owner of a descriptor that is not open

DataPort == {"tx", "rx"}
Port     == DataPort \cup {"cmd"}
Block    == DataPort \cup {"desc", "transport"}   \* tx_meta and rx_meta by port
Unset    == 0    \* a socket of a descriptor fresh from calloc
NoSocket == -1

ASSUME EthDeviceAssumption ==
  /\ Fd \subseteq Nat \ {Unset}
  /\ Concurrent \in BOOLEAN
  /\ Faults \subseteq {"socket", "hello", "connect", "memory"}
  /\ Free \notin Device \X (Port \cup {"lost"})

VARIABLES
  todo,    \* todo[d]: the steps left of the call on d
  status,  \* status[d]: yunsdr->status, the ports whose bit is set
  sock,    \* sock[d][p]: cmd_sock, tx_sock, rx_sock
  owner,   \* owner[f]: the device and port that opened f, or Free
  heap     \* heap[d][b]: "none", "live", "freed" or "corrupt"

vars == <<todo, status, sock, owner, heap>>

Step   == [do : {"hello", "socket", "connect", "alloc", "check", "send", "deinit", "free"},
           on : Port \cup Block]
Do(s, x) == [do |-> s, on |-> x]
IsOpen(d) == heap[d]["desc"] = "live"

Init ==
  /\ todo = [d \in Device |-> <<>>]
  /\ status = [d \in Device |-> {}]
  /\ sock = [d \in Device |-> [p \in Port |-> Unset]]
  /\ owner = [f \in Fd |-> Free]
  /\ heap = [d \in Device |-> [b \in Block |-> "none"]]

-----------------------------------------------------------------------------
(* Calls.                                                                  *)

Call(d, steps) ==
  /\ todo[d] = <<>>
  /\ Concurrent \/ \A e \in Device : todo[e] = <<>>
  /\ todo' = [todo EXCEPT ![d] = steps]

Open(d) ==
  /\ ~IsOpen(d)
  /\ Call(d, <<Do("alloc", "transport"), Do("socket", "cmd"), Do("hello", "cmd")>>)
  /\ heap' = [heap EXCEPT ![d] = [b \in Block |-> IF b = "desc" THEN "live" ELSE "none"]]
  /\ status' = [status EXCEPT ![d] = {}]
  /\ sock' = [sock EXCEPT ![d] = [p \in Port |-> Unset]]
  /\ UNCHANGED owner

(* Connect, and allocate the frame buffer the first time.                  *)
EnableSteps(d, p) ==
  IF p \in status[d] THEN <<>>
  ELSE <<Do("connect", p)>> \o
       (IF heap[d][p] = "live" THEN <<>> ELSE <<Do("alloc", p)>>)

(* enable_rx asks for the stream and checks the size of a frame before;    *)
(* enable_tx sends only STOP_TX_LOOP.                                      *)
Enable(d, p) ==
  /\ IsOpen(d)
  /\ \E request \in {<<Do("check", "rx"), Do("send", "rx")>>, <<Do("send", "tx")>>, <<>>} :
       /\ (request = <<>> \/ Head(request).on = "tx") <=> p = "tx"
       /\ Call(d, EnableSteps(d, p) \o request)
  /\ UNCHANGED <<status, sock, owner, heap>>

(* Mutant: a link is taken down whether or not it is enabled.              *)
DisableStepsUnchecked(d, p) == <<Do("deinit", p)>>

(* Once for the status bit, and once more if the frame buffer exists.      *)
DisableSteps(d, p) ==
  IF p \in status[d]
  THEN <<Do("deinit", p)>> \o (IF heap[d][p] = "live" THEN <<Do("deinit", p)>> ELSE <<>>)
  ELSE <<>>

Disable(d, p) ==
  /\ IsOpen(d)
  /\ Call(d, DisableSteps(d, p))
  /\ UNCHANGED <<status, sock, owner, heap>>

FreeSteps(d, p) == IF heap[d][p] = "live" THEN <<Do("free", p)>> ELSE <<>>

(* Mutant: the transmit link is forgotten.                                 *)
CloseStepsNoTx(d) ==
  DisableSteps(d, "rx") \o FreeSteps(d, "tx") \o FreeSteps(d, "rx")
    \o <<Do("deinit", "cmd"), Do("free", "desc")>>

CloseSteps(d) ==
  DisableSteps(d, "rx") \o DisableSteps(d, "tx") \o FreeSteps(d, "tx") \o FreeSteps(d, "rx")
    \o <<Do("deinit", "cmd"), Do("free", "desc")>>

Close(d) ==
  /\ IsOpen(d)
  /\ Call(d, CloseSteps(d))
  /\ UNCHANGED <<status, sock, owner, heap>>

-----------------------------------------------------------------------------
(* Steps.                                                                  *)

Doing(d, s) == todo[d] # <<>> /\ Head(todo[d]).do = s
On(d) == Head(todo[d]).on
Then(d, steps) == todo' = [todo EXCEPT ![d] = steps]
Rest(d) == Then(d, Tail(todo[d]))

FreeBlock(h, b) == [h EXCEPT ![b] = IF @ = "live" THEN "freed" ELSE "corrupt"]

(* The operating system gives out the lowest free descriptor.              *)
OpenFd(f, d, p) ==
  /\ owner[f] = Free /\ \A g \in Fd : owner[g] = Free => f <= g
  /\ owner' = [owner EXCEPT ![f] = <<d, p>>]
NoneFree == \A f \in Fd : owner[f] # Free

Alloc(d) ==
  /\ Doing(d, "alloc")
  /\ \/ /\ heap' = [heap EXCEPT ![d][On(d)] = "live"]
        /\ Rest(d)
     \/ /\ "memory" \in Faults
        /\ Then(d, <<IF On(d) = "transport" THEN Do("free", "desc") ELSE Do("deinit", On(d))>>)
        /\ UNCHANGED heap
  /\ UNCHANGED <<status, sock, owner>>

(* yunsdr_init_cmd_socket; when it fails the transport is freed here and   *)
(* the descriptor by yunsdr_open_device.                                   *)
Socket(d) ==
  /\ Doing(d, "socket")
  /\ \/ /\ \E f \in Fd :
             OpenFd(f, d, "cmd") /\ sock' = [sock EXCEPT ![d]["cmd"] = f]
        /\ Rest(d)
     \/ /\ NoneFree \/ "socket" \in Faults
        /\ sock' = [sock EXCEPT ![d]["cmd"] = NoSocket]
        /\ Then(d, <<Do("free", "transport"), Do("free", "desc")>>)
        /\ UNCHANGED owner
  /\ UNCHANGED <<status, heap>>

(* Mutant: the transport is freed although the deinit does that.           *)
HelloFailsStepsTwice == <<Do("deinit", "cmd"), Do("free", "transport"), Do("free", "desc")>>

HelloFailsSteps == <<Do("deinit", "cmd"), Do("free", "desc")>>

Hello(d) ==
  /\ Doing(d, "hello")
  /\ \/ /\ status' = [status EXCEPT ![d] = {"cmd"}]
        /\ Rest(d)
     \/ /\ "hello" \in Faults
        /\ Then(d, HelloFailsSteps)
        /\ UNCHANGED status
  /\ UNCHANGED <<sock, owner, heap>>

(* Mutant: the bit is set before the socket is known to be good.           *)
ConnectFailsEnabled(d) ==
  /\ sock' = [sock EXCEPT ![d][On(d)] = NoSocket]
  /\ status' = [status EXCEPT ![d] = @ \cup {On(d)}]
  /\ Then(d, <<>>)

ConnectFails(d) ==
  /\ sock' = [sock EXCEPT ![d][On(d)] = NoSocket]
  /\ Then(d, <<>>)
  /\ UNCHANGED status

(* yunsdr_init_data_socket.  Where connect fails the new descriptor is     *)
(* forgotten, open.                                                        *)
Connect(d) ==
  /\ Doing(d, "connect")
  /\ \/ /\ \E f \in Fd :
             OpenFd(f, d, On(d)) /\ sock' = [sock EXCEPT ![d][On(d)] = f]
        /\ status' = [status EXCEPT ![d] = @ \cup {On(d)}]
        /\ Rest(d)
     \/ /\ "connect" \in Faults
        /\ \E f \in Fd : OpenFd(f, d, "lost")
        /\ ConnectFails(d)
     \/ /\ NoneFree \/ "socket" \in Faults
        /\ ConnectFails(d)
        /\ UNCHANGED owner
  /\ UNCHANGED heap

(* A frame that is too large ends enable_rx with the link left enabled.    *)
Check(d) ==
  /\ Doing(d, "check")
  /\ Rest(d) \/ Then(d, <<>>)
  /\ UNCHANGED <<status, sock, owner, heap>>

Send(d) ==
  /\ Doing(d, "send")
  /\ Rest(d)
  /\ UNCHANGED <<status, sock, owner, heap>>

(* __yunsdr_deinit_transport.  close() closes whatever the number denotes  *)
(* by now, and fails when it denotes nothing.                              *)
Deinit(d) ==
  /\ Doing(d, "deinit")
  /\ LET f == sock[d][On(d)] IN
       owner' = IF f \in Fd THEN [owner EXCEPT ![f] = Free] ELSE owner
  /\ status' = [status EXCEPT ![d] = @ \ {On(d)}]
  /\ heap' = IF status'[d] = {} THEN [heap EXCEPT ![d] = FreeBlock(@, "transport")] ELSE heap
  /\ Rest(d)
  /\ UNCHANGED sock

FreeStep(d) ==
  /\ Doing(d, "free")
  /\ heap' = [heap EXCEPT ![d] = FreeBlock(@, On(d))]
  /\ Rest(d)
  /\ UNCHANGED <<status, sock, owner>>

Next == \E d \in Device :
  \/ Open(d) \/ Close(d) \/ \E p \in DataPort : Enable(d, p) \/ Disable(d, p)
  \/ Alloc(d) \/ Socket(d) \/ Hello(d) \/ Connect(d) \/ Check(d) \/ Send(d)
  \/ Deinit(d) \/ FreeStep(d)

Spec == Init /\ [][Next]_vars

-----------------------------------------------------------------------------
(* Values stay in their types; a port whose bit is set has a socket, and a *)
(* link is enabled only on a connected device.                             *)
TypeOK ==
  /\ todo \in [Device -> Seq(Step)]
  /\ status \in [Device -> SUBSET Port]
  /\ sock \in [Device -> [Port -> Fd \cup {Unset, NoSocket}]]
  /\ owner \in [Fd -> (Device \X (Port \cup {"lost"})) \cup {Free}]
  /\ heap \in [Device -> [Block -> {"none", "live", "freed", "corrupt"}]]
  /\ \A d \in Device, p \in Port : p \in status[d] => sock[d][p] \in Fd /\ "cmd" \in status[d]

(* As long as calls do not overlap, a port whose status bit is set has its *)
(* own open socket: no sequence of calls on two devices, with whatever     *)
(* failures, closes the socket of an enabled link or lets two links share  *)
(* one, although yunsdr_disable_rx and _tx close the same number twice.    *)
SocketsOwned ==
  \A d \in Device, p \in Port : p \in status[d] => owner[sock[d][p]] = <<d, p>>

(* Nothing is freed twice, whichever step of open, enable or close fails.  *)
NoDoubleFree == \A d \in Device, b \in Block : heap[d][b] # "corrupt"

(* When a device is closed, or its open has failed, it has given back its  *)
(* memory and its descriptors, all but those whose connect failed.         *)
NothingLeft ==
  \A d \in Device : ~IsOpen(d) /\ todo[d] = <<>> =>
    /\ \A b \in Block : heap[d][b] # "live"
    /\ \A f \in Fd : owner[f] # Free /\ owner[f][1] = d => owner[f][2] = "lost"
=============================================================================
