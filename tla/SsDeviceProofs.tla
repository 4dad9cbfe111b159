--------------------------- MODULE SsDeviceProofs ---------------------------
(***************************************************************************)
(* What SsDevice guarantees for every number of descriptors, threads,      *)
(* boards and addresses, and whatever fails in an open.                    *)
(***************************************************************************)
EXTENDS SsDevice, TLAPS

(* What d owns at each step of an open, and which devices get there.       *)
Step(d) ==
  /\ pc[d] \notin Idle => url[d] \in Url
  /\ pc[d] \in {"prefix", "argument", "alloc", "interface"} =>
       blocks[d] = {"desc", "trans"} /\ socks[d] = 0 /\ ~fpga[d]
  /\ pc[d] \in {"prefix", "argument"} => bufs[d] = 0
  /\ pc[d] = "argument" => url[d].type # "other"
  /\ pc[d] = "alloc" => bufs[d] < 2 * Streams
  /\ pc[d] \in {"interface", "board", "spin", "socket", "open"} => bufs[d] = 2 * Streams
  /\ pc[d] \in {"board", "spin", "socket", "open"} => blocks[d] = {"desc", "trans", "handle"}
  /\ pc[d] \in {"board", "spin"} => url[d].type = "pcie"
  /\ pc[d] = "socket" => url[d].type = "sfp" /\ socks[d] <= Streams
  /\ pc[d] \in {"board", "socket"} => ~fpga[d]
  /\ pc[d] = "spin" => fpga[d]
  /\ pc[d] = "open" => IF url[d].type = "pcie" THEN fpga[d] ELSE socks[d] = Streams + 1
  /\ pc[d] = "closed" => blocks[d] \subseteq {"handle"} /\ bufs[d] = 0 /\ socks[d] = 0 /\ ~fpga[d]
  /\ pc[d] = "failed" => blocks[d] \subseteq {"handle"} /\ ~fpga[d]

Steps ==
  /\ saved # None => url[saved] \in Url
  /\ \A d \in Device : Step(d)

(* Where the number of d's url is on its way to peer[d].                   *)
Number(d) ==
  /\ pc[d] = "argument" => saved = d
  /\ pc[d] \in {"alloc", "interface"} =>
       IF url[d].type = "pcie" THEN devid = url[d].at ELSE peer[d] = url[d].at
  /\ pc[d] \in {"board", "spin", "socket", "open"} => peer[d] = url[d].at

Serial ==
  "serial" \in kept =>
    /\ \A d, e \in Device : Opening(d) /\ Opening(e) => d = e
    /\ \A d \in Device : Number(d)

Single ==
  "single" \in kept =>
    /\ \A d, e \in Device : Pcie(d) /\ Pcie(e) => d = e
    /\ \A d \in Device : pc[d] = "open" /\ Pcie(d) => alive
    /\ \A u \in User :
         inside[u] # None => holder = u /\ pc[inside[u]] = "open" /\ Pcie(inside[u])

IInv == TypeOK /\ Steps /\ Serial /\ Single

-----------------------------------------------------------------------------
(* A process that has opened nothing.                                      *)
LEMMA InitIInv == Init => IInv
<1> SUFFICES ASSUME Init PROVE IInv
  OBVIOUS
<1> USE SsDeviceAssumption DEF Init, Idle
<1>1. TypeOK
  <2>1. pc \in [Device -> Label]
    BY DEF Label
  <2>2. url \in [Device -> Url \cup {None}] /\ peer \in [Device -> Int \cup {None}]
    OBVIOUS
  <2>3. blocks \in [Device -> SUBSET {"desc", "trans", "handle"}]
    OBVIOUS
  <2>4. bufs \in [Device -> 0 .. 2 * Streams] /\ socks \in [Device -> 0 .. Streams + 1]
    OBVIOUS
  <2>5. fpga \in [Device -> BOOLEAN]
    OBVIOUS
  <2> QED BY <2>1, <2>2, <2>3, <2>4, <2>5 DEF TypeOK
<1>2. Steps
  BY DEF Steps, Step
<1>3. Serial
  BY DEF Serial, Number, Opening
<1>4. Single
  BY DEF Single, Pcie
<1> QED BY <1>1, <1>2, <1>3, <1>4 DEF IInv

(* A url has a type and a number.                                          *)
LEMMA UrlFields ==
  ASSUME NEW u \in Url
  PROVE  u.type \in {"pcie", "sfp", "gigabit", "other"} /\ u.at \in Int /\ u # None
<1>1. u # None
  BY SsDeviceAssumption
<1>2. CASE u \in [type : {"pcie"}, at : -1 .. NumFpgas + 1]
  BY <1>1, <1>2
<1>3. CASE u \in [type : {"sfp"}, at : Address]
  <2>1. u.at \in Nat
    BY <1>3, SsDeviceAssumption
  <2> QED BY <1>1, <1>3, <2>1
<1>4. CASE u \in [type : {"gigabit", "other"}, at : {0}]
  BY <1>1, <1>4
<1> QED BY <1>2, <1>3, <1>4 DEF Url

(* Every step keeps the types.                                             *)
LEMMA TypeOKStep == IInv /\ [Next]_vars => TypeOK'
<1> SUFFICES ASSUME IInv, [Next]_vars PROVE TypeOK'
  OBVIOUS
<1> USE SsDeviceAssumption DEF IInv, TypeOK, Goto
<1>1. ASSUME NEW d \in Device, NEW u \in Url, Open(d, u) PROVE TypeOK'
  <2>1. pc' \in [Device -> Label]
    BY <1>1 DEF Open, Label, Idle
  <2>5. blocks' \in [Device -> SUBSET {"desc", "trans", "handle"}]
    BY <1>1 DEF Open
  <2>2. url' \in [Device -> Url \cup {None}] /\ peer' \in [Device -> Int \cup {None}]
    BY <1>1 DEF Open
  <2>3. bufs' \in [Device -> 0 .. 2 * Streams] /\ socks' \in [Device -> 0 .. Streams + 1]
    BY <1>1 DEF Open
  <2>4. kept' \in SUBSET {"serial", "single"}
    BY <1>1 DEF Open
  <2> QED BY <1>1, <2>1, <2>2, <2>3, <2>4, <2>5 DEF Open, spin
<1>2. ASSUME NEW d \in Device, Prefix(d) PROVE TypeOK'
  BY <1>2 DEF Prefix, Abandon, Idle, Label, spin, owns
<1>3. ASSUME NEW d \in Device, Argument(d) PROVE TypeOK'
  <2>1. url[saved].at \in Int
    BY <1>3, UrlFields DEF Argument, Steps
  <2> QED BY <1>3, <2>1 DEF Argument, Idle, Label, spin, owns
<1>4. ASSUME NEW d \in Device, AllocMeta(d) PROVE TypeOK'
  <2>1. bufs[d] + 1 \in 0 .. 2 * Streams
    BY <1>4 DEF AllocMeta, Steps, Step
  <2> QED BY <1>4, <2>1 DEF AllocMeta, Abandon, Idle, Label, spin
<1>5. ASSUME NEW d \in Device, NotSupported(d) PROVE TypeOK'
  BY <1>5 DEF NotSupported, Abandon, Idle, Label, spin
<1>6. ASSUME NEW d \in Device, InitHandle(d) PROVE TypeOK'
  BY <1>6 DEF InitHandle, Idle, Label, spin
<1>7. ASSUME NEW d \in Device, OpenBoard(d) PROVE TypeOK'
  <2>1. pc' \in [Device -> Label]
    BY <1>7 DEF OpenBoard, Abandon, Label, Idle
  <2>3. blocks' \in [Device -> SUBSET {"desc", "trans", "handle"}]
    BY <1>7 DEF OpenBoard, Abandon
  <2>2. fpga' \in [Device -> BOOLEAN]
    BY <1>7 DEF OpenBoard, Abandon
  <2> QED BY <1>7, <2>1, <2>2, <2>3 DEF OpenBoard, Abandon, spin
<1>8. ASSUME NEW d \in Device, InitLock(d) PROVE TypeOK'
  BY <1>8 DEF InitLock, Idle, Label, spin, owns
<1>9. ASSUME NEW d \in Device, OpenSocket(d) PROVE TypeOK'
  <2>1. socks[d] + 1 \in 0 .. Streams + 1
    BY <1>9 DEF OpenSocket, Steps, Step
  <2> QED BY <1>9, <2>1 DEF OpenSocket, Abandon, Idle, Label, spin
<1>10. ASSUME NEW d \in Device, Close(d) PROVE TypeOK'
  BY <1>10 DEF Close, Idle, Label, spin
<1>11. ASSUME NEW d \in Device, NEW u \in User, Lock(u, d) PROVE TypeOK'
  BY <1>11 DEF Lock, owns
<1>12. ASSUME NEW u \in User, Unlock(u) \/ CommandFails(u) PROVE TypeOK'
  BY <1>12 DEF Unlock, CommandFails, owns
<1>13. CASE UNCHANGED vars
  BY <1>13 DEF vars, owns, spin
<1> QED
  BY <1>1, <1>2, <1>3, <1>4, <1>5, <1>6, <1>7, <1>8, <1>9, <1>10, <1>11, <1>12, <1>13
  DEF Next

(* Every step of a call moves the device on with what it owns.             *)
LEMMA StepsStep == IInv /\ [Next]_vars => Steps'
<1> SUFFICES ASSUME IInv, [Next]_vars PROVE Steps'
  OBVIOUS
<1> USE SsDeviceAssumption DEF IInv, TypeOK, Steps, Step, Goto, Idle
<1>1. ASSUME NEW d \in Device, NEW u \in Url, Open(d, u) PROVE Steps'
  BY <1>1 DEF Open, spin
<1>2. ASSUME NEW d \in Device, Prefix(d) PROVE Steps'
  BY <1>2 DEF Prefix, Abandon, spin, owns
<1>3. ASSUME NEW d \in Device, Argument(d) PROVE Steps'
  BY <1>3 DEF Argument, spin, owns
<1>4. ASSUME NEW d \in Device, AllocMeta(d) PROVE Steps'
  BY <1>4 DEF AllocMeta, Abandon, spin
<1>5. ASSUME NEW d \in Device, NotSupported(d) PROVE Steps'
  BY <1>5 DEF NotSupported, Abandon, spin
<1>6. ASSUME NEW d \in Device, InitHandle(d) PROVE Steps'
  BY <1>6 DEF InitHandle, spin
<1>7. ASSUME NEW d \in Device, OpenBoard(d) PROVE Steps'
  BY <1>7 DEF OpenBoard, Abandon, spin
<1>8. ASSUME NEW d \in Device, InitLock(d) PROVE Steps'
  BY <1>8 DEF InitLock, spin, owns
<1>9. ASSUME NEW d \in Device, OpenSocket(d) PROVE Steps'
  BY <1>9 DEF OpenSocket, Abandon, spin
<1>10. ASSUME NEW d \in Device, Close(d) PROVE Steps'
  BY <1>10 DEF Close, spin
<1>11. ASSUME NEW d \in Device, NEW u \in User, Lock(u, d) PROVE Steps'
  BY <1>11 DEF Lock, owns
<1>12. ASSUME NEW u \in User, Unlock(u) \/ CommandFails(u) PROVE Steps'
  BY <1>12 DEF Unlock, CommandFails, owns
<1>13. CASE UNCHANGED vars
  BY <1>13 DEF vars, owns, spin
<1> QED
  BY <1>1, <1>2, <1>3, <1>4, <1>5, <1>6, <1>7, <1>8, <1>9, <1>10, <1>11, <1>12, <1>13
  DEF Next

(* An open that has begun is the only one, so nothing it left in saved or  *)
(* devid is gone when it comes back for it.                                *)
LEMMA SerialStep == IInv /\ [Next]_vars => Serial'
<1> SUFFICES ASSUME IInv, [Next]_vars PROVE Serial'
  OBVIOUS
<1> SUFFICES ASSUME "serial" \in kept'
             PROVE  /\ \A d, e \in Device : (Opening(d) /\ Opening(e))' => d = e
                    /\ \A d \in Device : Number(d)'
  BY DEF Serial
<1> USE SsDeviceAssumption DEF IInv, TypeOK, Steps, Step, Serial, Number, Opening, Goto, Idle
<1>1. ASSUME NEW d \in Device, NEW u \in Url, Open(d, u) PROVE Serial'
  <2>1. "serial" \in kept /\ \A e \in Device : ~Opening(e)
    BY <1>1 DEF Open, Broken
  <2> QED BY <1>1, <2>1 DEF Open, spin
<1>2. ASSUME NEW d \in Device, Prefix(d) PROVE Serial'
  BY <1>2 DEF Prefix, Abandon, spin, owns
<1>3. ASSUME NEW d \in Device, Argument(d) PROVE Serial'
  BY <1>3 DEF Argument, spin, owns
<1>4. ASSUME NEW d \in Device, AllocMeta(d) PROVE Serial'
  BY <1>4 DEF AllocMeta, Abandon, spin
<1>5. ASSUME NEW d \in Device, NotSupported(d) PROVE Serial'
  BY <1>5 DEF NotSupported, Abandon, spin
<1>6. ASSUME NEW d \in Device, InitHandle(d) PROVE Serial'
  BY <1>6 DEF InitHandle, spin
<1>7. ASSUME NEW d \in Device, OpenBoard(d) PROVE Serial'
  BY <1>7 DEF OpenBoard, Abandon, spin
<1>8. ASSUME NEW d \in Device, InitLock(d) PROVE Serial'
  BY <1>8 DEF InitLock, spin, owns
<1>9. ASSUME NEW d \in Device, OpenSocket(d) PROVE Serial'
  BY <1>9 DEF OpenSocket, Abandon, spin
<1>10. ASSUME NEW d \in Device, Close(d) PROVE Serial'
  BY <1>10 DEF Close, spin
<1>11. ASSUME NEW d \in Device, NEW u \in User, Lock(u, d) PROVE Serial'
  BY <1>11 DEF Lock, owns
<1>12. ASSUME NEW u \in User, Unlock(u) \/ CommandFails(u) PROVE Serial'
  BY <1>12 DEF Unlock, CommandFails, owns
<1>13. CASE UNCHANGED vars
  BY <1>13 DEF vars, owns, spin
<1> QED
  BY <1>1, <1>2, <1>3, <1>4, <1>5, <1>6, <1>7, <1>8, <1>9, <1>10, <1>11, <1>12, <1>13
  DEF Next

(* The lock is initialised and destroyed by the one PCIe device there is,  *)
(* before its first command and after its last.                            *)
LEMMA SingleStep == IInv /\ [Next]_vars => Single'
<1> SUFFICES ASSUME IInv, [Next]_vars PROVE Single'
  OBVIOUS
<1> USE SsDeviceAssumption DEF IInv, TypeOK, Steps, Step, Single, Pcie, Goto, Idle
<1>1. ASSUME NEW d \in Device, NEW u \in Url, Open(d, u) PROVE Single'
  BY <1>1 DEF Open, Broken, spin
<1>2. ASSUME NEW d \in Device, Prefix(d) PROVE Single'
  BY <1>2 DEF Prefix, Abandon, spin, owns
<1>3. ASSUME NEW d \in Device, Argument(d) PROVE Single'
  BY <1>3 DEF Argument, spin, owns
<1>4. ASSUME NEW d \in Device, AllocMeta(d) PROVE Single'
  BY <1>4 DEF AllocMeta, Abandon, spin
<1>5. ASSUME NEW d \in Device, NotSupported(d) PROVE Single'
  BY <1>5 DEF NotSupported, Abandon, spin
<1>6. ASSUME NEW d \in Device, InitHandle(d) PROVE Single'
  BY <1>6 DEF InitHandle, spin
<1>7. ASSUME NEW d \in Device, OpenBoard(d) PROVE Single'
  BY <1>7 DEF OpenBoard, Abandon, spin
<1>8. ASSUME NEW d \in Device, InitLock(d) PROVE Single'
  BY <1>8 DEF InitLock, spin, owns
<1>9. ASSUME NEW d \in Device, OpenSocket(d) PROVE Single'
  BY <1>9 DEF OpenSocket, Abandon, spin
<1>10. ASSUME NEW d \in Device, Close(d) PROVE Single'
  BY <1>10 DEF Close, spin
<1>11. ASSUME NEW d \in Device, NEW u \in User, Lock(u, d) PROVE Single'
  BY <1>11 DEF Lock, owns
<1>12. ASSUME NEW u \in User, Unlock(u) \/ CommandFails(u) PROVE Single'
  BY <1>12 DEF Unlock, CommandFails, owns
<1>13. CASE UNCHANGED vars
  BY <1>13 DEF vars, owns, spin
<1> QED
  BY <1>1, <1>2, <1>3, <1>4, <1>5, <1>6, <1>7, <1>8, <1>9, <1>10, <1>11, <1>12, <1>13
  DEF Next

-----------------------------------------------------------------------------
(* The four parts together are inductive.                                  *)
LEMMA Inductive == Spec => []IInv
<1>1. IInv /\ [Next]_vars => IInv'
  BY TypeOKStep, StepsStep, SerialStep, SingleStep DEF IInv
<1> QED BY InitIInv, <1>1, PTL DEF Spec

(* Every variable has its type in every reachable state.                   *)
THEOREM SsTypeOK == Spec => []TypeOK
<1>1. IInv => TypeOK
  BY DEF IInv
<1> QED BY Inductive, <1>1, PTL

(* A device opened while no other open ran talks to the board or address   *)
(* its url names (yunsdr_open_device's strtok and devid).                  *)
THEOREM SsOwnPeer == Spec => []OwnPeer
<1>1. IInv => OwnPeer
  BY DEF IInv, Serial, Number, OwnPeer
<1> QED BY Inductive, <1>1, PTL

(* What a device owns after an open, a failed open and a close.            *)
THEOREM SsOwned == Spec => []Owned
<1>1. IInv => Owned
  <2> SUFFICES ASSUME IInv, NEW d \in Device
               PROVE  /\ pc[d] = "open" =>
                           /\ bufs[d] = 2 * Streams
                           /\ blocks[d] = {"desc", "trans", "handle"}
                           /\ IF Pcie(d) THEN fpga[d] ELSE socks[d] = Streams + 1
                      /\ pc[d] = "closed" =>
                           blocks[d] \subseteq {"handle"} /\ bufs[d] = 0 /\ socks[d] = 0 /\ ~fpga[d]
                      /\ pc[d] = "failed" => blocks[d] \subseteq {"handle"} /\ ~fpga[d]
    BY DEF Owned
  <2>1. Step(d)
    BY DEF IInv, Steps
  <2>2. pc[d] = "open" => (Pcie(d) <=> url[d].type = "pcie")
    BY <2>1, UrlFields DEF Step, Pcie, Idle
  <2> QED BY <2>1, <2>2 DEF Step
<1> QED BY Inductive, <1>1, PTL

(* One PCIe device at a time: its lock is initialised and excludes.        *)
THEOREM SsLockWorks == Spec => []LockWorks
<1>1. IInv => LockWorks
  <2> SUFFICES ASSUME IInv, "single" \in kept PROVE LockWorks
    BY DEF LockWorks
  <2> QED BY SsDeviceAssumption DEF IInv, Single, LockWorks
<1> QED BY Inductive, <1>1, PTL
=============================================================================
