------------------------------ MODULE SsDevice ------------------------------
(***************************************************************************)
(* The life of a device in libyunsdr_ss: yunsdr_open_device, the transport *)
(* and the interface it sets up, yunsdr_close_device, and what all devices *)
(* of the process share: strtok's pointer, the static devid and the spin   *)
(* lock around the commands of a PCIe device.                              *)
(*                                                                         *)
(* "kept" records which of two rules the program has kept to so far:       *)
(* "serial", one call of yunsdr_open_device at a time, and "single", one   *)
(* PCIe device at a time. What depends on a rule is stated under it.       *)
(***************************************************************************)
EXTENDS Integers

CONSTANTS
  Device,       \* descriptors the program uses
  User,         \* threads that issue commands
  Streams,      \* MAX_RF_STREAM
  NumFpgas,     \* boards the driver lists
  Address,      \* SFP addresses, by the number atoi makes of them
  Faults,       \* what may fail: "memory", "fpga", "socket", "command"
  None

Url == [type : {"pcie"}, at : -1 .. NumFpgas + 1] \cup [type : {"sfp"}, at : Address]
         \cup [type : {"gigabit", "other"}, at : {0}]

ASSUME SsDeviceAssumption ==
  /\ Streams \in Nat \ {0}
  /\ NumFpgas \in Nat
  /\ Address \subseteq Nat
  /\ Faults \subseteq {"memory", "fpga", "socket", "command"}
  /\ None \notin Device \cup User \cup Int \cup Url

VARIABLES
  pc,      \* pc[d]: where the last call on d is; "open": it may be used
  url,     \* url[d]: what d was opened with
  saved,   \* strtok's pointer: the descriptor whose url it points into
  devid,   \* the static devid of yunsdr_open_device
  peer,    \* peer[d]: the board or address in use, trans->app_opaque's target
  blocks,  \* blocks[d]: live heap blocks of d
  bufs,    \* bufs[d]: live buffers among rx_meta[] and tx_meta[]
  socks,   \* socks[d]: open sockets among cmd_sock and sockfd[]
  fpga,    \* fpga[d]: d holds an open board
  alive,   \* m_spinlock is initialised
  holder,  \* the user that holds m_spinlock
  inside,  \* inside[u]: the device in whose locked section u is
  kept     \* the rules kept since the process started

spin == <<alive, holder, inside>>
owns == <<blocks, bufs, socks, fpga>>
vars == <<pc, url, saved, devid, peer, owns, spin, kept>>

Idle       == {"closed", "failed"}
Opening(d) == pc[d] \notin Idle \cup {"open"}
Pcie(d)    == url[d] # None /\ url[d].type = "pcie" /\ pc[d] \notin Idle
Goto(d, l) == pc' = [pc EXCEPT ![d] = l]

Init ==
  /\ pc = [d \in Device |-> "closed"]
  /\ url = [d \in Device |-> None]
  /\ saved = None
  /\ devid = 0
  /\ peer = [d \in Device |-> None]
  /\ blocks = [d \in Device |-> {}]
  /\ bufs = [d \in Device |-> 0]
  /\ socks = [d \in Device |-> 0]
  /\ fpga = [d \in Device |-> FALSE]
  /\ alive = FALSE
  /\ holder = None
  /\ inside = [u \in User |-> None]
  /\ kept = {"serial", "single"}

-----------------------------------------------------------------------------
(* yunsdr_open_device.                                                     *)

Broken(d, u) ==
  {r \in {"serial"} : \E e \in Device : Opening(e)}
    \cup {r \in {"single"} : u.type = "pcie" /\ \E e \in Device \ {d} : Pcie(e)}

(* The two callocs; what an earlier attempt lost is forgotten.             *)
Open(d, u) ==
  /\ pc[d] \in Idle
  /\ kept' = kept \ Broken(d, u)
  /\ url' = [url EXCEPT ![d] = u]
  /\ peer' = [peer EXCEPT ![d] = None]
  /\ bufs' = [bufs EXCEPT ![d] = 0]
  /\ socks' = [socks EXCEPT ![d] = 0]
  /\ \/ /\ Goto(d, "prefix")
        /\ blocks' = [blocks EXCEPT ![d] = {"desc", "trans"}]
     \/ /\ "memory" \in Faults
        /\ Goto(d, "failed")
        /\ blocks' = [blocks EXCEPT ![d] = {}]
  /\ UNCHANGED <<saved, devid, fpga, spin>>

(* A failing open frees the transport and the descriptor, no more.         *)
Abandon(d) ==
  /\ Goto(d, "failed")
  /\ blocks' = [blocks EXCEPT ![d] = @ \ {"desc", "trans"}]
  /\ UNCHANGED <<bufs, socks, fpga>>

Prefix(d) ==
  /\ pc[d] = "prefix"
  /\ saved' = d
  /\ IF url[d].type = "other" THEN Abandon(d)
     ELSE Goto(d, "argument") /\ UNCHANGED owns
  /\ UNCHANGED <<url, devid, peer, spin, kept>>

(* Mutant: the number is kept from the first open on.                      *)
ArgumentOnce(d) ==
  /\ pc[d] = "argument" /\ saved # None
  /\ saved' = None
  /\ IF url[d].type = "pcie"
       THEN devid' = (IF devid = 0 THEN url[saved].at ELSE devid) /\ UNCHANGED peer
       ELSE peer' = [peer EXCEPT ![d] = url[saved].at] /\ UNCHANGED devid
  /\ Goto(d, "alloc")
  /\ UNCHANGED <<url, owns, spin, kept>>

(* strtok(NULL): the url the pointer is in, this call's or a later one's,  *)
(* and no second time (atoi would be given NULL).                          *)
Argument(d) ==
  /\ pc[d] = "argument" /\ saved # None
  /\ saved' = None
  /\ LET at == url[saved].at IN
       IF url[d].type = "pcie" THEN devid' = at /\ UNCHANGED peer
       ELSE peer' = [peer EXCEPT ![d] = at] /\ UNCHANGED devid
  /\ Goto(d, "alloc")
  /\ UNCHANGED <<url, owns, spin, kept>>

-----------------------------------------------------------------------------
(* __init_transport and the interfaces.                                    *)

(* Mutant: a failed allocation is not reported, as in the branch for       *)
(* Windows.                                                                *)
AllocMetaGoesOn(d) ==
  /\ pc[d] = "alloc"
  /\ \/ bufs' = [bufs EXCEPT ![d] = @ + 1]
     \/ "memory" \in Faults /\ UNCHANGED bufs
  /\ Goto(d, IF bufs[d] + 1 = 2 * Streams THEN "interface" ELSE "alloc")
  /\ UNCHANGED <<url, saved, devid, peer, blocks, socks, fpga, spin, kept>>

(* Mutant: the loop over the buffers goes one too far.                     *)
AllocMetaOneMore(d) ==
  /\ pc[d] = "alloc"
  /\ \/ /\ bufs' = [bufs EXCEPT ![d] = @ + 1]
        /\ Goto(d, IF bufs[d] = 2 * Streams THEN "interface" ELSE "alloc")
        /\ UNCHANGED <<blocks, socks, fpga>>
     \/ "memory" \in Faults /\ Abandon(d)
  /\ UNCHANGED <<url, saved, devid, peer, spin, kept>>

AllocMeta(d) ==
  /\ pc[d] = "alloc"
  /\ \/ /\ bufs' = [bufs EXCEPT ![d] = @ + 1]
        /\ Goto(d, IF bufs[d] + 1 = 2 * Streams THEN "interface" ELSE "alloc")
        /\ UNCHANGED <<blocks, socks, fpga>>
     \/ "memory" \in Faults /\ Abandon(d)
  /\ UNCHANGED <<url, saved, devid, peer, spin, kept>>

NotSupported(d) ==
  /\ pc[d] = "interface" /\ url[d].type = "gigabit"
  /\ Abandon(d)
  /\ UNCHANGED <<url, saved, devid, peer, spin, kept>>

InitHandle(d) ==
  /\ pc[d] = "interface"
  /\ blocks' = [blocks EXCEPT ![d] = @ \cup {"handle"}]
  /\ \/ /\ url[d].type = "pcie"
        /\ peer' = [peer EXCEPT ![d] = devid]
        /\ Goto(d, "board")
     \/ /\ url[d].type = "sfp"
        /\ Goto(d, "socket")
        /\ UNCHANGED peer
  /\ UNCHANGED <<url, saved, devid, bufs, socks, fpga, spin, kept>>

(* fpga_list, the check of the number, in which num_fpgas itself and every *)
(* negative number pass, and fpga_open, which is free to refuse.           *)
OpenBoard(d) ==
  /\ pc[d] = "board"
  /\ \/ /\ NumFpgas > 0 /\ peer[d] <= NumFpgas
        /\ fpga' = [fpga EXCEPT ![d] = TRUE]
        /\ Goto(d, "spin")
        /\ UNCHANGED <<blocks, bufs, socks>>
     \/ /\ NumFpgas = 0 \/ peer[d] \notin 0 .. NumFpgas - 1 \/ "fpga" \in Faults
        /\ Abandon(d)
  /\ UNCHANGED <<url, saved, devid, peer, spin, kept>>

(* spinlock_init sets the lock of the process free, whoever holds it.      *)
InitLock(d) ==
  /\ pc[d] = "spin"
  /\ alive' = TRUE
  /\ holder' = None
  /\ Goto(d, "open")
  /\ UNCHANGED <<url, saved, devid, peer, owns, inside, kept>>

(* Mutant: init_interface_sfp initialises the lock too.                    *)
OpenSocketInits(d) ==
  /\ pc[d] = "socket"
  /\ \/ /\ socks' = [socks EXCEPT ![d] = @ + 1]
        /\ Goto(d, IF socks[d] = Streams THEN "open" ELSE "socket")
        /\ alive' = TRUE /\ holder' = None
        /\ UNCHANGED <<blocks, bufs, fpga, inside>>
     \/ "socket" \in Faults /\ Abandon(d) /\ UNCHANGED spin
  /\ UNCHANGED <<url, saved, devid, peer, kept>>

OpenSocket(d) ==
  /\ pc[d] = "socket"
  /\ \/ /\ socks' = [socks EXCEPT ![d] = @ + 1]
        /\ Goto(d, IF socks[d] = Streams THEN "open" ELSE "socket")
        /\ UNCHANGED <<blocks, bufs, fpga>>
     \/ "socket" \in Faults /\ Abandon(d)
  /\ UNCHANGED <<url, saved, devid, peer, spin, kept>>

-----------------------------------------------------------------------------
(* A command of an open PCIe device, and yunsdr_close_device, which the    *)
(* program calls when no command runs on the device.                       *)

Lock(u, d) ==
  /\ pc[d] = "open" /\ Pcie(d)
  /\ inside[u] = None /\ holder = None
  /\ holder' = u
  /\ inside' = [inside EXCEPT ![u] = d]
  /\ UNCHANGED <<pc, url, saved, devid, peer, owns, alive, kept>>

Unlock(u) ==
  /\ inside[u] # None
  /\ holder' = None
  /\ inside' = [inside EXCEPT ![u] = None]
  /\ UNCHANGED <<pc, url, saved, devid, peer, owns, alive, kept>>

(* A command that fails returns without unlock().                          *)
CommandFails(u) ==
  /\ "command" \in Faults
  /\ inside[u] # None
  /\ inside' = [inside EXCEPT ![u] = None]
  /\ UNCHANGED <<pc, url, saved, devid, peer, owns, alive, holder, kept>>

Close(d) ==
  /\ pc[d] = "open"
  /\ \A u \in User : inside[u] # d
  /\ alive' = (alive /\ ~Pcie(d))
  /\ fpga' = [fpga EXCEPT ![d] = FALSE]
  /\ socks' = [socks EXCEPT ![d] = 0]
  /\ bufs' = [bufs EXCEPT ![d] = 0]
  /\ blocks' = [blocks EXCEPT ![d] = @ \ {"desc", "trans"}]
  /\ Goto(d, "closed")
  /\ UNCHANGED <<url, saved, devid, peer, holder, inside, kept>>

-----------------------------------------------------------------------------
Next ==
  \/ \E d \in Device :
       \/ \E u \in Url : Open(d, u)
       \/ Prefix(d) \/ Argument(d) \/ AllocMeta(d) \/ NotSupported(d)
       \/ InitHandle(d) \/ OpenBoard(d) \/ InitLock(d) \/ OpenSocket(d)
       \/ Close(d)
       \/ \E u \in User : Lock(u, d)
  \/ \E u \in User : Unlock(u) \/ CommandFails(u)

Spec == Init /\ [][Next]_vars

-----------------------------------------------------------------------------
(* Properties.                                                             *)

Label == Idle \cup {"prefix", "argument", "alloc", "interface", "board", "spin",
                    "socket", "open"}

(* Every variable has its type.                                            *)
TypeOK ==
  /\ pc \in [Device -> Label]
  /\ url \in [Device -> Url \cup {None}]
  /\ saved \in Device \cup {None}
  /\ devid \in Int
  /\ peer \in [Device -> Int \cup {None}]
  /\ blocks \in [Device -> SUBSET {"desc", "trans", "handle"}]
  /\ bufs \in [Device -> 0 .. 2 * Streams]
  /\ socks \in [Device -> 0 .. Streams + 1]
  /\ fpga \in [Device -> BOOLEAN]
  /\ alive \in BOOLEAN
  /\ holder \in User \cup {None}
  /\ inside \in [User -> Device \cup {None}]
  /\ kept \in SUBSET {"serial", "single"}

(* An open device talks to the board or the address of its own url, though *)
(* its number travels through two variables every open of the process      *)
(* writes: strtok's pointer and devid, read after all buffers are there.   *)
(* It needs opens that do not overlap.                                     *)
OwnPeer ==
  "serial" \in kept => \A d \in Device : pc[d] = "open" => peer[d] = url[d].at

(* What a device owns is what its last call says.  Open, everything: every *)
(* buffer, and every socket or the board, though the transport keeps no    *)
(* note of what failed.  Closed, the interface's handle and nothing else.  *)
(* After an open that failed neither descriptor, transport nor board; its  *)
(* buffers, sockets and handle are lost.                                   *)
Owned ==
  \A d \in Device :
    /\ pc[d] = "open" =>
         /\ bufs[d] = 2 * Streams
         /\ blocks[d] = {"desc", "trans", "handle"}
         /\ IF Pcie(d) THEN fpga[d] ELSE socks[d] = Streams + 1
    /\ pc[d] = "closed" =>
         blocks[d] \subseteq {"handle"} /\ bufs[d] = 0 /\ socks[d] = 0 /\ ~fpga[d]
    /\ pc[d] = "failed" => blocks[d] \subseteq {"handle"} /\ ~fpga[d]

(* As long as PCIe devices are used one after the other, the lock an open  *)
(* one takes around its commands is initialised and keeps two commands     *)
(* apart, also after one that failed and left it locked, and though every  *)
(* open initialises and every close destroys the only lock there is, and   *)
(* SFP devices come and go at the same time.                               *)
LockWorks ==
  "single" \in kept =>
    /\ \A d \in Device : pc[d] = "open" /\ Pcie(d) => alive
    /\ \A u, v \in User : inside[u] # None /\ inside[v] # None => u = v
=============================================================================
