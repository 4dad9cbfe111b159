-------------------------- MODULE EthDeviceProofs --------------------------
(***************************************************************************)
(* Proofs about EthDevice: what open, enable, disable and close of the     *)
(* Ethernet devices keep true of memory and descriptors, for any number of *)
(* devices and descriptors and any choice of what may fail.                *)
(*                                                                         *)
(* The invariant says where in its calls a device can be (Place), that an  *)
(* open descriptor is known to the device that opened it (Known) and, when *)
(* calls do not overlap, that a device's sockets are its own (Private).    *)
(***************************************************************************)
EXTENDS EthDevice, SequenceTheorems, TLAPS

(* What is in a list of steps, and in it once.                             *)
Has(q, x)  == \E i \in DOMAIN q : q[i] = x
Once(q, x) == \A i, j \in DOMAIN q : q[i] = x /\ q[j] = x => i = j

(* What is called for a link that has been connected.                      *)
Request(p) == IF p = "rx" THEN <<Do("check", "rx"), Do("send", "rx")>> ELSE <<Do("send", "tx")>>

(* The command socket is open and its status bit not set.                  *)
Greetings   == {<<Do("hello", "cmd")>>, HelloFailsSteps}
Greeting(d) == "cmd" \notin status[d] /\ todo[d] \in Greetings

(* Where a device can be: closed, in an open or what undoes a failed one,  *)
(* open, with a link on its way up or down, or in a close.                 *)
Closed(d) ==
  todo[d] = <<>> /\ status[d] = {} /\ \A b \in Block : heap[d][b] # "live"

Opening(d) ==
  /\ IsOpen(d) /\ status[d] = {} /\ \A p \in DataPort : heap[d][p] # "live"
  /\ \/ /\ heap[d]["transport"] # "live"
        /\ todo[d] \in {<<Do("alloc", "transport"), Do("socket", "cmd"), Do("hello", "cmd")>>,
                        <<Do("free", "desc")>>}
     \/ /\ heap[d]["transport"] = "live"
        /\ todo[d] \in {<<Do("socket", "cmd"), Do("hello", "cmd")>>,
                        <<Do("free", "transport"), Do("free", "desc")>>}
     \/ /\ heap[d]["transport"] = "live" /\ sock[d]["cmd"] \in Fd
        /\ todo[d] \in Greetings

Working(d) ==
  /\ IsOpen(d) /\ heap[d]["transport"] = "live" /\ "cmd" \in status[d]
  /\ \E p \in DataPort :
       \/ /\ p \notin status[d] /\ heap[d][p] = "live"
          /\ \E r \in {Request(p), <<>>} : todo[d] = <<Do("connect", p)>> \o r
       \/ /\ p \notin status[d] /\ heap[d][p] # "live"
          /\ \E r \in {Request(p), <<>>} : todo[d] = <<Do("connect", p), Do("alloc", p)>> \o r
       \/ /\ p \in status[d] /\ heap[d][p] # "live"
          /\ \E r \in {Request(p), <<>>} : todo[d] = <<Do("alloc", p)>> \o r
       \/ p \in status[d] /\ todo[d] = <<Do("deinit", p), Do("deinit", p)>>
       \/ todo[d] \in {<<>>, Request(p), <<Do("send", p)>>, <<Do("deinit", p)>>}

(* A close takes down the links and frees their buffers first.             *)
Early == {Do(s, p) : s \in {"deinit", "free"}, p \in DataPort}

EarlyLeft(d, q) ==
  \A p \in DataPort :
    /\ p \in status[d] => Has(q, Do("deinit", p))
    /\ heap[d][p] = "live" <=> Has(q, Do("free", p))
    /\ Once(q, Do("free", p))

Closing(d) ==
  /\ IsOpen(d) /\ heap[d]["transport"] = "live" /\ "cmd" \in status[d]
  /\ \E q \in Seq(Early) : todo[d] = q \o HelloFailsSteps /\ EarlyLeft(d, q)

Here(d) == Closed(d) \/ Opening(d) \/ Working(d) \/ Closing(d)

Place == \A d \in Device : Here(d)

(* An open descriptor is known to the device that opened it.               *)
KnownAt(d) ==
  \A f \in Fd, p \in Port :
    owner[f] = <<d, p>> =>
      sock[d][p] = f /\ (p \in status[d] \/ (p = "cmd" /\ Greeting(d)))

Known == \A d \in Device : KnownAt(d)

(* What the device takes for its socket is its own; a link that is taken   *)
(* down twice has closed its own before.                                   *)
OwnAt(d) ==
  /\ \A p \in Port : p \in status[d] => owner[sock[d][p]] = <<d, p>>
  /\ Greeting(d) => owner[sock[d]["cmd"]] = <<d, "cmd">>
  /\ \A p \in DataPort :
       Has(todo[d], Do("deinit", p)) /\ p \notin status[d] =>
         sock[d][p] \notin Fd \/ owner[sock[d][p]] = Free

(* One call at a time.                                                     *)
Alone == \A d, e \in Device : todo[d] # <<>> /\ todo[e] # <<>> => d = e

Private == Alone /\ \A d \in Device : OwnAt(d)

IInv == TypeOK /\ NoDoubleFree /\ Place /\ Known /\ (~Concurrent => Private)

-----------------------------------------------------------------------------
(* Lists of steps.                                                         *)

(* A step names what it does.                                              *)
LEMMA DoStep ==
  /\ \A s, x : Do(s, x).do = s /\ Do(s, x).on = x
  /\ \A s, x, u, y : Do(s, x) = Do(u, y) <=> s = u /\ x = y
  /\ \A x \in Port \cup Block :
       \A s \in {"hello", "socket", "connect", "alloc", "check", "send", "deinit", "free"} :
         Do(s, x) \in Step
<1>1. \A s, x : Do(s, x).do = s /\ Do(s, x).on = x
  BY DEF Do
<1>2. \A s, x, u, y : Do(s, x) = Do(u, y) <=> s = u /\ x = y
  BY <1>1
<1> QED BY <1>1, <1>2 DEF Do, Step

(* The first of several steps, and the rest.                               *)
LEMMA HasTail ==
  ASSUME NEW S, NEW q \in Seq(S), q # <<>>
  PROVE  /\ \A x : Has(q, x) <=> x = Head(q) \/ Has(Tail(q), x)
         /\ \A x : Once(q, x) => Once(Tail(q), x) /\ (x = Head(q) => ~Has(Tail(q), x))
<1>1. PICK p : p = Tail(q)
  OBVIOUS
<1>2. /\ Len(q) \in Nat \ {0} /\ DOMAIN q = 1 .. Len(q) /\ DOMAIN p = 1 .. Len(q) - 1
      /\ \A i \in 1 .. Len(q) - 1 : p[i] = q[i + 1]
      /\ Head(q) = q[1]
  <2>1. p \in Seq(S) /\ Len(p) = Len(q) - 1
    BY <1>1, HeadTailProperties
  <2>2. Len(q) \in Nat \ {0} /\ Head(q) = q[1]
    BY EmptySeq
  <2> QED BY <1>1, <2>1, <2>2, HeadTailProperties, LenProperties
<1>3. ASSUME NEW x PROVE Has(q, x) <=> x = q[1] \/ Has(p, x)
  <2>1. ASSUME NEW i \in 1 .. Len(q) - 1, p[i] = x PROVE i + 1 \in 1 .. Len(q) /\ q[i + 1] = x
    BY <1>2, <2>1
  <2>2. ASSUME NEW i \in 1 .. Len(q), q[i] = x, i # 1 PROVE i - 1 \in 1 .. Len(q) - 1 /\ p[i - 1] = x
    <3>1. i - 1 \in 1 .. Len(q) - 1 /\ (i - 1) + 1 = i
      BY <1>2, <2>2
    <3> QED BY <1>2, <2>2, <3>1
  <2>3. Has(p, x) => Has(q, x)
    BY <1>2, <2>1 DEF Has
  <2>4. q[1] = x => Has(q, x)
    BY <1>2 DEF Has
  <2>5. ASSUME Has(q, x), q[1] # x PROVE Has(p, x)
    <3>1. PICK i \in 1 .. Len(q) : q[i] = x
      BY <1>2, <2>5 DEF Has
    <3> QED BY <1>2, <2>2, <2>5, <3>1 DEF Has
  <2> QED BY <2>3, <2>4, <2>5
<1>4. ASSUME NEW x, Once(q, x) PROVE Once(p, x) /\ (x = q[1] => ~Has(p, x))
  <2>1. ASSUME NEW i \in 1 .. Len(q) - 1, p[i] = x
        PROVE  i + 1 \in 1 .. Len(q) /\ q[i + 1] = x /\ i + 1 # 1
    BY <1>2, <2>1
  <2>2. ASSUME NEW i \in 1 .. Len(q) - 1, NEW j \in 1 .. Len(q) - 1, p[i] = x, p[j] = x
        PROVE  i = j
    <3>1. i + 1 = j + 1
      BY <1>2, <1>4, <2>1, <2>2 DEF Once
    <3> QED BY <1>2, <3>1
  <2>3. x = q[1] => ~Has(p, x)
    BY <1>2, <1>4, <2>1 DEF Once, Has
  <2> QED BY <1>2, <2>2, <2>3 DEF Once
<1> QED BY <1>1, <1>2, <1>3, <1>4

(* Two lists, one after the other.                                         *)
LEMMA HasConcat ==
  ASSUME NEW S, NEW a \in Seq(S), NEW b \in Seq(S)
  PROVE  /\ \A x : Has(a \o b, x) <=> Has(a, x) \/ Has(b, x)
         /\ \A x : Once(a, x) /\ ~Has(b, x) => Once(a \o b, x)
         /\ \A x : Once(b, x) /\ ~Has(a, x) => Once(a \o b, x)
<1>1. PICK c, m, n : c = a \o b /\ m = Len(a) /\ n = Len(b)
  OBVIOUS
<1>2. /\ m \in Nat /\ n \in Nat
      /\ DOMAIN a = 1 .. m /\ DOMAIN b = 1 .. n /\ DOMAIN c = 1 .. m + n
      /\ \A i \in 1 .. m + n : c[i] = IF i <= m THEN a[i] ELSE b[i - m]
  BY <1>1, ConcatProperties, LenProperties
<1>3. \A i \in 1 .. m : i \in 1 .. m + n /\ c[i] = a[i]
  BY <1>2
<1>4. \A i \in 1 .. n : m + i \in 1 .. m + n /\ c[m + i] = b[i]
  <2> SUFFICES ASSUME NEW i \in 1 .. n PROVE m + i \in 1 .. m + n /\ c[m + i] = b[i]
    OBVIOUS
  <2>1. m + i \in 1 .. m + n /\ ~(m + i <= m) /\ (m + i) - m = i
    BY <1>2
  <2> QED BY <1>2, <2>1
<1>5. \A i \in 1 .. m + n : i \in 1 .. m \/ (i - m \in 1 .. n /\ i = m + (i - m))
  BY <1>2
<1>6. ASSUME NEW x PROVE Has(c, x) <=> Has(a, x) \/ Has(b, x)
  <2>1. ASSUME Has(c, x) PROVE Has(a, x) \/ Has(b, x)
    <3>1. PICK i \in 1 .. m + n : c[i] = x
      BY <1>2, <2>1 DEF Has
    <3>2. CASE i \in 1 .. m
      BY <1>2, <1>3, <3>1, <3>2 DEF Has
    <3>3. CASE i - m \in 1 .. n /\ i = m + (i - m)
      BY <1>2, <1>4, <3>1, <3>3 DEF Has
    <3> QED BY <1>5, <3>2, <3>3
  <2>2. Has(a, x) => Has(c, x)
    BY <1>2, <1>3 DEF Has
  <2>3. Has(b, x) => Has(c, x)
    <3>1. ASSUME NEW i \in 1 .. n, b[i] = x PROVE m + i \in 1 .. m + n /\ c[m + i] = x
      BY <1>4, <3>1
    <3> QED BY <1>2, <3>1 DEF Has
  <2> QED BY <2>1, <2>2, <2>3
<1>7. ASSUME NEW x, Once(a, x), ~Has(b, x) PROVE Once(c, x)
  <2>1. \A i \in 1 .. m + n : c[i] = x => i \in 1 .. m /\ a[i] = x
    <3> SUFFICES ASSUME NEW i \in 1 .. m + n, c[i] = x PROVE i \in 1 .. m /\ a[i] = x
      OBVIOUS
    <3>1. ~(i - m \in 1 .. n /\ i = m + (i - m))
      BY <1>2, <1>4, <1>7 DEF Has
    <3> QED BY <1>3, <1>5, <3>1
  <2> QED BY <1>2, <1>7, <2>1 DEF Once
<1>8. ASSUME NEW x, Once(b, x), ~Has(a, x) PROVE Once(c, x)
  <2>1. ASSUME NEW i \in 1 .. m + n, c[i] = x
        PROVE  i - m \in 1 .. n /\ b[i - m] = x /\ i = m + (i - m)
    <3>1. i \notin 1 .. m
      BY <1>2, <1>3, <1>8, <2>1 DEF Has
    <3>2. i - m \in 1 .. n /\ i = m + (i - m)
      BY <1>5, <3>1
    <3> QED BY <1>4, <2>1, <3>2
  <2>2. ASSUME NEW i \in 1 .. m + n, NEW j \in 1 .. m + n, c[i] = x, c[j] = x PROVE i = j
    <3>1. i - m = j - m
      BY <1>2, <1>8, <2>1, <2>2 DEF Once
    <3> QED BY <1>2, <3>1
  <2> QED BY <1>2, <2>2 DEF Once
<1> QED BY <1>1, <1>6, <1>7, <1>8

(* The first step of two lists is that of the first one.                   *)
LEMMA ConcatHead ==
  ASSUME NEW S, NEW a \in Seq(S), NEW b \in Seq(S), a # <<>>
  PROVE  a \o b # <<>> /\ Head(a \o b) = Head(a) /\ Tail(a \o b) = Tail(a) \o b
<1>1. PICK h, t : h = Head(a) /\ t = Tail(a)
  OBVIOUS
<1>2. h \in S /\ t \in Seq(S) /\ Len(t) = Len(a) - 1 /\ Len(a) \in Nat \ {0} /\ h = a[1]
      /\ \A i \in 1 .. Len(a) - 1 : t[i] = a[i + 1]
  BY <1>1, HeadTailProperties, EmptySeq
<1>3. PICK c : c = a \o b
  OBVIOUS
<1>4. /\ c \in Seq(S) /\ Len(c) = Len(a) + Len(b) /\ Len(b) \in Nat
      /\ \A i \in 1 .. Len(a) + Len(b) : c[i] = IF i <= Len(a) THEN a[i] ELSE b[i - Len(a)]
  BY <1>3, ConcatProperties, LenProperties
<1>5. c # <<>> /\ Head(c) = c[1] /\ c[1] = a[1]
  BY <1>2, <1>4
<1>6. Tail(c) \in Seq(S) /\ Len(Tail(c)) = Len(c) - 1
      /\ \A i \in 1 .. Len(c) - 1 : Tail(c)[i] = c[i + 1]
  BY <1>4, <1>5, HeadTailProperties
<1>7. t \o b \in Seq(S) /\ Len(t \o b) = Len(t) + Len(b)
      /\ \A i \in 1 .. Len(t) + Len(b) : (t \o b)[i] = IF i <= Len(t) THEN t[i] ELSE b[i - Len(t)]
  BY <1>2, ConcatProperties
<1>8. ASSUME NEW i \in 1 .. Len(c) - 1 PROVE Tail(c)[i] = (t \o b)[i]
  <2>1. i + 1 \in 1 .. Len(a) + Len(b) /\ i \in 1 .. Len(t) + Len(b)
        /\ (i + 1) - Len(a) = i - Len(t) /\ (i + 1 <= Len(a) <=> i <= Len(t))
    BY <1>2, <1>4
  <2>2. i <= Len(t) => t[i] = a[i + 1]
    BY <1>2, <1>4
  <2> QED BY <1>4, <1>6, <1>7, <2>1, <2>2
<1>9. Tail(c) = t \o b
  BY <1>2, <1>4, <1>6, <1>7, <1>8, SeqEqual
<1> QED BY <1>1, <1>2, <1>3, <1>5, <1>9

-----------------------------------------------------------------------------
(* What a device does next, and what it has to do then.                    *)

Does(d, x, rest) == todo[d] # <<>> /\ Head(todo[d]) = x /\ Tail(todo[d]) = rest

(* The ends of short lists.                                                *)
LEMMA Lists ==
  /\ \A x : <<x>> # <<>> /\ Head(<<x>>) = x /\ Tail(<<x>>) = <<>>
  /\ \A x, y : <<x, y>> # <<>> /\ Head(<<x, y>>) = x /\ Tail(<<x, y>>) = <<y>>
  /\ \A x, y, z :
       <<x, y, z>> # <<>> /\ Head(<<x, y, z>>) = x /\ Tail(<<x, y, z>>) = <<y, z>>
<1>1. \A x : <<x>> # <<>> /\ Head(<<x>>) = x /\ Tail(<<x>>) = <<>>
  OBVIOUS
<1>2. \A x, y : <<x, y>> # <<>> /\ Head(<<x, y>>) = x /\ Tail(<<x, y>>) = <<y>>
  OBVIOUS
<1>3. \A x, y, z :
        <<x, y, z>> # <<>> /\ Head(<<x, y, z>>) = x /\ Tail(<<x, y, z>>) = <<y, z>>
  OBVIOUS
<1> QED BY <1>1, <1>2, <1>3

(* A device with one of these lists makes its first step next.             *)
LEMMA NextIs ==
  ASSUME NEW d \in Device
  PROVE  /\ \A x : todo[d] = <<x>> => Does(d, x, <<>>)
         /\ \A x, y : todo[d] = <<x, y>> => Does(d, x, <<y>>)
         /\ \A x, y, z : todo[d] = <<x, y, z>> => Does(d, x, <<y, z>>)
<1>1. ASSUME NEW x, todo[d] = <<x>> PROVE Does(d, x, <<>>)
  BY <1>1, Lists DEF Does
<1>2. ASSUME NEW x, NEW y, todo[d] = <<x, y>> PROVE Does(d, x, <<y>>)
  BY <1>2, Lists DEF Does
<1>3. ASSUME NEW x, NEW y, NEW z, todo[d] = <<x, y, z>> PROVE Does(d, x, <<y, z>>)
  BY <1>3, Lists DEF Does
<1> QED BY <1>1, <1>2, <1>3

(* What an open, or what undoes a failed one, does next.                   *)
LEMMA OpeningFirst ==
  ASSUME NEW d \in Device, Opening(d)
  PROVE  \/ /\ heap[d]["transport"] # "live"
            /\ Does(d, Do("alloc", "transport"), <<Do("socket", "cmd"), Do("hello", "cmd")>>)
         \/ heap[d]["transport"] # "live" /\ Does(d, Do("free", "desc"), <<>>)
         \/ heap[d]["transport"] = "live" /\ Does(d, Do("socket", "cmd"), <<Do("hello", "cmd")>>)
         \/ heap[d]["transport"] = "live" /\ Does(d, Do("free", "transport"), <<Do("free", "desc")>>)
         \/ /\ heap[d]["transport"] = "live" /\ sock[d]["cmd"] \in Fd /\ Greeting(d)
            /\ Does(d, Do("hello", "cmd"), <<>>)
         \/ /\ heap[d]["transport"] = "live" /\ sock[d]["cmd"] \in Fd /\ Greeting(d)
            /\ Does(d, Do("deinit", "cmd"), <<Do("free", "desc")>>)
<1>1. status[d] = {}
  BY DEF Opening
<1>2. todo[d] \in Greetings => Greeting(d)
  BY <1>1 DEF Greeting
<1>3. CASE /\ heap[d]["transport"] # "live"
           /\ todo[d] \in {<<Do("alloc", "transport"), Do("socket", "cmd"), Do("hello", "cmd")>>,
                           <<Do("free", "desc")>>}
  BY <1>3, NextIs
<1>4. CASE /\ heap[d]["transport"] = "live"
           /\ todo[d] \in {<<Do("socket", "cmd"), Do("hello", "cmd")>>,
                           <<Do("free", "transport"), Do("free", "desc")>>}
  BY <1>4, NextIs
<1>5. CASE /\ heap[d]["transport"] = "live" /\ sock[d]["cmd"] \in Fd
           /\ todo[d] \in Greetings
  BY <1>2, <1>5, NextIs DEF HelloFailsSteps, Greetings
<1> QED BY <1>3, <1>4, <1>5 DEF Opening

(* What enable_rx and enable_tx ask of the device.                         *)
LEMMA RequestIs ==
  ASSUME NEW p \in DataPort
  PROVE  /\ Request(p) \in {<<Do("check", p), Do("send", p)>>, <<Do("send", p)>>}
         /\ Request(p) \in Seq(Step)
         /\ Do("connect", p) \in Step /\ Do("alloc", p) \in Step /\ Do("send", p) \in Step
         /\ Do("check", p) \in Step /\ Do("deinit", p) \in Step
<1>1. p \in {"rx", "tx"} /\ p \in Port \cup Block
  BY DEF DataPort, Port
<1>2. Request(p) \in {<<Do("check", p), Do("send", p)>>, <<Do("send", p)>>}
  BY <1>1 DEF Request
<1>3. /\ Do("connect", p) \in Step /\ Do("alloc", p) \in Step /\ Do("send", p) \in Step
      /\ Do("check", p) \in Step /\ Do("deinit", p) \in Step
  BY <1>1, DoStep
<1>4. \A a, b \in Step : <<a>> \in Seq(Step) /\ <<a, b>> \in Seq(Step)
  OBVIOUS
<1> QED BY <1>2, <1>3, <1>4

(* A step and then a list.                                                 *)
LEMMA StepThen ==
  ASSUME NEW x \in Step, NEW y \in Step, NEW r \in Seq(Step)
  PROVE  /\ <<x>> \o r # <<>> /\ Head(<<x>> \o r) = x /\ Tail(<<x>> \o r) = r
         /\ <<x, y>> \o r # <<>> /\ Head(<<x, y>> \o r) = x /\ Tail(<<x, y>> \o r) = <<y>> \o r
<1>1. /\ <<x>> \in Seq(Step) /\ <<x>> # <<>> /\ Head(<<x>>) = x /\ Tail(<<x>>) = <<>>
      /\ <<x, y>> \in Seq(Step) /\ <<x, y>> # <<>> /\ Head(<<x, y>>) = x /\ Tail(<<x, y>>) = <<y>>
  OBVIOUS
<1>2. <<>> \o r = r
  BY ConcatEmptySeq
<1> QED BY <1>1, <1>2, ConcatHead

LinkNext(d, p) ==
  \/ /\ p \notin status[d] /\ heap[d][p] = "live"
     /\ \E r \in {Request(p), <<>>} : Does(d, Do("connect", p), r)
  \/ /\ p \notin status[d] /\ heap[d][p] # "live"
     /\ \E r \in {Request(p), <<>>} : Does(d, Do("connect", p), <<Do("alloc", p)>> \o r)
  \/ /\ p \in status[d] /\ heap[d][p] # "live"
     /\ \E r \in {Request(p), <<>>} : Does(d, Do("alloc", p), r)
  \/ p \in status[d] /\ Does(d, Do("deinit", p), <<Do("deinit", p)>>)
  \/ Does(d, Do("check", p), <<Do("send", p)>>)
  \/ Does(d, Do("send", p), <<>>)
  \/ Does(d, Do("deinit", p), <<>>)

(* A device with a link on its way up or down has a step to make for it.   *)
LEMMA WorkingFirst ==
  ASSUME NEW d \in Device, Working(d), todo[d] # <<>>
  PROVE  \E p \in DataPort : LinkNext(d, p)
<1>1. PICK p \in DataPort :
       \/ /\ p \notin status[d] /\ heap[d][p] = "live"
          /\ \E r \in {Request(p), <<>>} : todo[d] = <<Do("connect", p)>> \o r
       \/ /\ p \notin status[d] /\ heap[d][p] # "live"
          /\ \E r \in {Request(p), <<>>} : todo[d] = <<Do("connect", p), Do("alloc", p)>> \o r
       \/ /\ p \in status[d] /\ heap[d][p] # "live"
          /\ \E r \in {Request(p), <<>>} : todo[d] = <<Do("alloc", p)>> \o r
       \/ p \in status[d] /\ todo[d] = <<Do("deinit", p), Do("deinit", p)>>
       \/ todo[d] \in {<<>>, Request(p), <<Do("send", p)>>, <<Do("deinit", p)>>}
  BY DEF Working
<1>2. \A r \in {Request(p), <<>>} : r \in Seq(Step)
  BY RequestIs, EmptySeq
<1>3. \A r \in {Request(p), <<>>} :
        /\ <<Do("connect", p)>> \o r # <<>> /\ Head(<<Do("connect", p)>> \o r) = Do("connect", p)
        /\ Tail(<<Do("connect", p)>> \o r) = r
  BY <1>2, RequestIs, StepThen
<1>4. \A r \in {Request(p), <<>>} :
        /\ <<Do("connect", p), Do("alloc", p)>> \o r # <<>>
        /\ Head(<<Do("connect", p), Do("alloc", p)>> \o r) = Do("connect", p)
        /\ Tail(<<Do("connect", p), Do("alloc", p)>> \o r) = <<Do("alloc", p)>> \o r
  BY <1>2, RequestIs, StepThen
<1>5. \A r \in {Request(p), <<>>} :
        /\ <<Do("alloc", p)>> \o r # <<>> /\ Head(<<Do("alloc", p)>> \o r) = Do("alloc", p)
        /\ Tail(<<Do("alloc", p)>> \o r) = r
  BY <1>2, RequestIs, StepThen
<1>6. Request(p) \in {<<Do("check", p), Do("send", p)>>, <<Do("send", p)>>}
  BY RequestIs
<1>7. ASSUME todo[d] # <<>>, todo[d] \in {<<>>, Request(p), <<Do("send", p)>>, <<Do("deinit", p)>>}
      PROVE  \/ Does(d, Do("check", p), <<Do("send", p)>>)
             \/ Does(d, Do("send", p), <<>>)
             \/ Does(d, Do("deinit", p), <<>>)
  BY <1>6, <1>7, NextIs
<1>8. CASE p \in status[d] /\ todo[d] = <<Do("deinit", p), Do("deinit", p)>>
  BY <1>8, NextIs DEF LinkNext
<1>9. \A r \in {Request(p), <<>>} :
        /\ todo[d] = <<Do("connect", p)>> \o r => Does(d, Do("connect", p), r)
        /\ todo[d] = <<Do("connect", p), Do("alloc", p)>> \o r =>
             Does(d, Do("connect", p), <<Do("alloc", p)>> \o r)
        /\ todo[d] = <<Do("alloc", p)>> \o r => Does(d, Do("alloc", p), r)
  BY <1>3, <1>4, <1>5 DEF Does
<1> QED BY <1>1, <1>7, <1>8, <1>9 DEF LinkNext

(* What a close does next: the links first, the command socket at the end. *)
LEMMA ClosingFirst ==
  ASSUME NEW d \in Device, Closing(d)
  PROVE  \/ EarlyLeft(d, <<>>) /\ Does(d, Do("deinit", "cmd"), <<Do("free", "desc")>>)
         \/ \E q \in Seq(Early) :
              /\ q # <<>> /\ EarlyLeft(d, q) /\ Head(q) \in Early /\ Tail(q) \in Seq(Early)
              /\ Does(d, Head(q), Tail(q) \o HelloFailsSteps)
<1>1. PICK q \in Seq(Early) : todo[d] = q \o HelloFailsSteps /\ EarlyLeft(d, q)
  BY DEF Closing
<1>2. HelloFailsSteps \in Seq(Step) /\ HelloFailsSteps # <<>> /\ q \in Seq(Step)
  <2>1. Early \subseteq Step
    BY DoStep DEF Early, Port
  <2>2. Do("deinit", "cmd") \in Step /\ Do("free", "desc") \in Step
    BY DoStep DEF Port, Block
  <2> QED BY <2>1, <2>2 DEF HelloFailsSteps
<1>3. CASE q = <<>>
  <2>1. todo[d] = HelloFailsSteps
    BY <1>1, <1>2, <1>3, ConcatEmptySeq
  <2> QED BY <1>1, <1>3, <2>1 DEF HelloFailsSteps, Does
<1>4. CASE q # <<>>
  <2>1. todo[d] # <<>> /\ Head(todo[d]) = Head(q) /\ Tail(todo[d]) = Tail(q) \o HelloFailsSteps
    BY <1>1, <1>2, <1>4, ConcatHead
  <2>2. Head(q) \in Early /\ Tail(q) \in Seq(Early)
    BY <1>4, HeadTailProperties
  <2> QED BY <1>1, <1>4, <2>1, <2>2 DEF Does
<1> QED BY <1>3, <1>4

-----------------------------------------------------------------------------
(* Every call and every step leaves its device in one of the places.       *)

Fine(d) ==
  /\ todo[d] \in Seq(Step) /\ status[d] \in SUBSET Port
  /\ sock[d] \in [Port -> Fd \cup {Unset, NoSocket}]
  /\ heap[d] \in [Block -> {"none", "live", "freed"}]
  /\ \A p \in status[d] : sock[d][p] \in Fd /\ "cmd" \in status[d]

(* A step changes the state of its own device alone.                       *)
OnlyAt(d) ==
  /\ todo' = [todo EXCEPT ![d] = todo'[d]] /\ status' = [status EXCEPT ![d] = status'[d]]
  /\ sock' = [sock EXCEPT ![d] = sock'[d]] /\ heap' = [heap EXCEPT ![d] = heap'[d]]

(* In every state so far each device is fine.                              *)
LEMMA AllFine ==
  ASSUME TypeOK, NoDoubleFree, NEW d \in Device
  PROVE  Fine(d)
<1>1. heap[d] \in [Block -> {"none", "live", "freed"}]
  BY DEF TypeOK, NoDoubleFree
<1> QED BY <1>1 DEF TypeOK, Fine

(* A step that leaves its own device fine and in a place leaves all so.    *)
LEMMA StaysFine ==
  ASSUME TypeOK, NoDoubleFree, Place, NEW d \in Device, OnlyAt(d), Fine(d)', Here(d)',
         owner' \in [Fd -> (Device \X (Port \cup {"lost"})) \cup {Free}]
  PROVE  TypeOK' /\ NoDoubleFree' /\ Place'
<1>1. ASSUME NEW e \in Device, e # d PROVE Fine(e)' /\ Here(e)'
  <2>1. todo'[e] = todo[e] /\ status'[e] = status[e] /\ sock'[e] = sock[e] /\ heap'[e] = heap[e]
    BY <1>1 DEF OnlyAt, TypeOK
  <2>2. Fine(e)'
    BY <2>1, AllFine DEF Fine
  <2>3. Here(e)'
    <3>1. Closed(e) => Closed(e)'
      BY <2>1 DEF Closed
    <3>2. Opening(e) => Opening(e)'
      BY <2>1 DEF Opening, IsOpen
    <3>3. Working(e) => Working(e)'
      BY <2>1 DEF Working, IsOpen
    <3>4. Closing(e) => Closing(e)'
      <4>1. \A q : EarlyLeft(e, q) => EarlyLeft(e, q)'
        BY <2>1 DEF EarlyLeft
      <4> QED BY <2>1, <4>1 DEF Closing, IsOpen
    <3> QED BY <3>1, <3>2, <3>3, <3>4 DEF Place, Here
  <2> QED BY <2>2, <2>3
<1>2. \A e \in Device : Fine(e)' /\ Here(e)'
  BY <1>1
<1>3. /\ todo' \in [Device -> Seq(Step)] /\ status' \in [Device -> SUBSET Port]
      /\ sock' \in [Device -> [Port -> Fd \cup {Unset, NoSocket}]]
  BY <1>2 DEF OnlyAt, TypeOK, Fine
<1>4. heap' \in [Device -> [Block -> {"none", "live", "freed"}]]
  <2>1. heap'[d] \in [Block -> {"none", "live", "freed"}]
    BY <1>2 DEF Fine
  <2>2. heap \in [Device -> [Block -> {"none", "live", "freed"}]]
    BY AllFine DEF Fine, TypeOK
  <2> QED BY <2>1, <2>2 DEF OnlyAt
<1>5. [Block -> {"none", "live", "freed"}] \subseteq [Block -> {"none", "live", "freed", "corrupt"}]
  OBVIOUS
<1>6. TypeOK'
  BY <1>2, <1>3, <1>4, <1>5 DEF TypeOK, Fine
<1>7. NoDoubleFree'
  BY <1>4 DEF NoDoubleFree
<1> QED BY <1>2, <1>6, <1>7 DEF Place

(* A new call on a device.                                                 *)
LEMMA CallFine ==
  ASSUME TypeOK, NoDoubleFree, Place, NEW d \in Device, NEW q \in Seq(Step), Call(d, q),
         UNCHANGED <<status, sock, owner, heap>>
  PROVE  /\ todo[d] = <<>> /\ todo'[d] = q /\ OnlyAt(d) /\ Fine(d)'
         /\ status'[d] = status[d] /\ sock'[d] = sock[d] /\ heap'[d] = heap[d]
<1>1. todo' = [todo EXCEPT ![d] = q] /\ todo[d] = <<>>
  BY DEF Call
<1>2. Fine(d)
  BY AllFine
<1>3. todo'[d] = q
  BY <1>1 DEF TypeOK
<1>4. OnlyAt(d)
  BY <1>1, <1>3 DEF OnlyAt, TypeOK
<1> QED BY <1>1, <1>2, <1>3, <1>4 DEF Fine

(* An open begins with the transport to be allocated.                      *)
LEMMA OpenPlace ==
  ASSUME TypeOK, NoDoubleFree, Place, NEW d \in Device, Open(d)
  PROVE  OnlyAt(d) /\ Fine(d)' /\ Here(d)'
<1> DEFINE q == <<Do("alloc", "transport"), Do("socket", "cmd"), Do("hello", "cmd")>>
           h == [b \in Block |-> IF b = "desc" THEN "live" ELSE "none"]
           k == [p \in Port |-> Unset]
<1>1. q \in Seq(Step)
  <2>1. Do("alloc", "transport") \in Step /\ Do("socket", "cmd") \in Step /\ Do("hello", "cmd") \in Step
    BY DoStep DEF Block, Port
  <2> QED BY <2>1
<1>2. todo'[d] = q /\ heap'[d] = h /\ status'[d] = {} /\ sock'[d] = k
  BY DEF Open, Call, TypeOK
<1>3. OnlyAt(d)
  BY <1>2 DEF Open, Call, TypeOK, OnlyAt
<1>4. h \in [Block -> {"none", "live", "freed"}] /\ k \in [Port -> Fd \cup {Unset, NoSocket}]
  OBVIOUS
<1>5. Fine(d)'
  BY <1>1, <1>2, <1>4 DEF Fine
<1>6. h["desc"] = "live" /\ h["transport"] # "live" /\ \A p \in DataPort : h[p] # "live"
  BY DEF Block, DataPort
<1>7. Opening(d)'
  BY <1>2, <1>6 DEF Opening, IsOpen
<1> QED BY <1>3, <1>5, <1>7 DEF Here

(* A device that is asked for something is open and has nothing to do.     *)
LEMMA AtRest ==
  ASSUME NEW d \in Device, IsOpen(d), Here(d), todo[d] = <<>>
  PROVE  Working(d) /\ heap[d]["transport"] = "live" /\ "cmd" \in status[d]
<1>1. ~Closed(d)
  BY DEF Closed, IsOpen, Block
<1>2. ~Opening(d)
  BY OpeningFirst DEF Does
<1>3. ~Closing(d)
  BY ClosingFirst DEF Does
<1> QED BY <1>1, <1>2, <1>3 DEF Here, Working

-----------------------------------------------------------------------------
(* When each of the steps is made, and what is left to do after it.        *)

(* What is left to do after the step that is made now.                     *)
Left(d, rest) == Tail(todo[d]) = rest

(* A step that is made is the first one on the list.                       *)
LEMMA DoingIs ==
  ASSUME NEW d \in Device
  PROVE  \A a, x, rest : Does(d, Do(a, x), rest) =>
           /\ \A s : Doing(d, s) => s = a
           /\ On(d) = x /\ Left(d, rest)
<1> SUFFICES ASSUME NEW a, NEW x, NEW rest, Does(d, Do(a, x), rest)
             PROVE  (\A s : Doing(d, s) => s = a) /\ On(d) = x /\ Left(d, rest)
  OBVIOUS
<1>1. Head(todo[d]) = Do(a, x) /\ Left(d, rest)
  BY DEF Does, Left
<1> QED BY <1>1, DoStep DEF Doing, On

(* Where a device is that allocates, asks for a socket or says hello.      *)
LEMMA OpenStep ==
  ASSUME NEW d \in Device, Here(d)
  PROVE  /\ Doing(d, "alloc") =>
              \/ /\ Opening(d) /\ heap[d]["transport"] # "live" /\ On(d) = "transport"
                 /\ Left(d, <<Do("socket", "cmd"), Do("hello", "cmd")>>)
              \/ \E p \in DataPort :
                   /\ Working(d) /\ p \in status[d] /\ heap[d][p] # "live" /\ On(d) = p
                   /\ (Left(d, Request(p)) \/ Left(d, <<>>))
         /\ Doing(d, "socket") =>
              /\ Opening(d) /\ heap[d]["transport"] = "live"
              /\ Left(d, <<Do("hello", "cmd")>>)
         /\ Doing(d, "hello") =>
              /\ Opening(d) /\ heap[d]["transport"] = "live" /\ sock[d]["cmd"] \in Fd
              /\ Greeting(d) /\ Left(d, <<>>)
<1>1. ASSUME Doing(d, "alloc") \/ Doing(d, "socket") \/ Doing(d, "hello")
      PROVE  todo[d] # <<>> /\ ~Closed(d) /\ ~Closing(d)
  <2>1. todo[d] # <<>> /\ ~Closed(d)
    BY <1>1 DEF Doing, Closed
  <2>2. ASSUME Closing(d) PROVE FALSE
    <3>1. ASSUME NEW q, NEW rest, q \in Early, Does(d, q, rest) PROVE FALSE
      BY <1>1, <3>1, DoingIs DEF Early
    <3>2. ASSUME Does(d, Do("deinit", "cmd"), <<Do("free", "desc")>>) PROVE FALSE
      BY <1>1, <3>2, DoingIs
    <3> QED BY <2>2, <3>1, <3>2, ClosingFirst
  <2> QED BY <2>1, <2>2
<1>2. ASSUME Opening(d), Doing(d, "alloc")
      PROVE  /\ heap[d]["transport"] # "live" /\ On(d) = "transport"
             /\ Left(d, <<Do("socket", "cmd"), Do("hello", "cmd")>>)
  BY <1>2, OpeningFirst, DoingIs
<1>3. ASSUME Opening(d), Doing(d, "socket")
      PROVE  heap[d]["transport"] = "live" /\ Left(d, <<Do("hello", "cmd")>>)
  BY <1>3, OpeningFirst, DoingIs
<1>4. ASSUME Opening(d), Doing(d, "hello")
      PROVE  /\ heap[d]["transport"] = "live" /\ sock[d]["cmd"] \in Fd /\ Greeting(d)
             /\ Left(d, <<>>)
  BY <1>4, OpeningFirst, DoingIs
<1>5. ASSUME Working(d), Doing(d, "alloc") \/ Doing(d, "socket") \/ Doing(d, "hello")
      PROVE  \E p \in DataPort :
               /\ p \in status[d] /\ heap[d][p] # "live" /\ On(d) = p
               /\ (Left(d, Request(p)) \/ Left(d, <<>>)) /\ Doing(d, "alloc")
               /\ ~Doing(d, "socket") /\ ~Doing(d, "hello")
  <2>1. PICK p \in DataPort : LinkNext(d, p)
    BY <1>1, <1>5, WorkingFirst
  <2> QED BY <1>5, <2>1, DoingIs DEF LinkNext
<1>6. ASSUME Working(d), Doing(d, "socket") \/ Doing(d, "hello") PROVE FALSE
  BY <1>5, <1>6
<1>7. ASSUME Doing(d, "alloc") PROVE Opening(d) \/ Working(d)
  BY <1>1, <1>7 DEF Here
<1>8. ASSUME Doing(d, "socket") \/ Doing(d, "hello") PROVE Opening(d)
  BY <1>1, <1>6, <1>8 DEF Here
<1> QED BY <1>2, <1>3, <1>4, <1>5, <1>7, <1>8

(* Where a device is that connects a link, checks it or sends on it.       *)
LEMMA LinkStep ==
  ASSUME NEW d \in Device, Here(d)
  PROVE  /\ Doing(d, "connect") =>
              \E p \in DataPort :
                /\ Working(d) /\ p \notin status[d] /\ On(d) = p
                /\ \E r \in {Request(p), <<>>} :
                     \/ heap[d][p] = "live" /\ Left(d, r)
                     \/ heap[d][p] # "live" /\ Left(d, <<Do("alloc", p)>> \o r)
         /\ Doing(d, "check") =>
              Working(d) /\ \E p \in DataPort : Left(d, <<Do("send", p)>>)
         /\ Doing(d, "send") => Working(d) /\ Left(d, <<>>)
<1>1. ASSUME Doing(d, "connect") \/ Doing(d, "check") \/ Doing(d, "send")
      PROVE  todo[d] # <<>> /\ Working(d)
  <2>1. todo[d] # <<>> /\ ~Closed(d)
    BY <1>1 DEF Doing, Closed
  <2>2. ASSUME Closing(d) PROVE FALSE
    <3>1. ASSUME NEW q, NEW rest, q \in Early, Does(d, q, rest) PROVE FALSE
      BY <1>1, <3>1, DoingIs DEF Early
    <3>2. ASSUME Does(d, Do("deinit", "cmd"), <<Do("free", "desc")>>) PROVE FALSE
      BY <1>1, <3>2, DoingIs
    <3> QED BY <2>2, <3>1, <3>2, ClosingFirst
  <2>3. ASSUME Opening(d) PROVE FALSE
    BY <1>1, <2>3, OpeningFirst, DoingIs
  <2> QED BY <2>1, <2>2, <2>3 DEF Here
<1>2. ASSUME Doing(d, "connect")
      PROVE  \E p \in DataPort :
                /\ p \notin status[d] /\ On(d) = p
                /\ \E r \in {Request(p), <<>>} :
                     \/ heap[d][p] = "live" /\ Left(d, r)
                     \/ heap[d][p] # "live" /\ Left(d, <<Do("alloc", p)>> \o r)
  <2>1. PICK p \in DataPort : LinkNext(d, p)
    BY <1>1, <1>2, WorkingFirst
  <2> QED BY <1>2, <2>1, DoingIs DEF LinkNext
<1>3. ASSUME Doing(d, "check") PROVE \E p \in DataPort : Left(d, <<Do("send", p)>>)
  <2>1. PICK p \in DataPort : LinkNext(d, p)
    BY <1>1, <1>3, WorkingFirst
  <2> QED BY <1>3, <2>1, DoingIs DEF LinkNext
<1>4. ASSUME Doing(d, "send") PROVE Left(d, <<>>)
  <2>1. PICK p \in DataPort : LinkNext(d, p)
    BY <1>1, <1>4, WorkingFirst
  <2> QED BY <1>4, <2>1, DoingIs DEF LinkNext
<1> QED BY <1>1, <1>2, <1>3, <1>4

(* Where a device is that takes a port down or frees memory.               *)
LEMMA CloseStep ==
  ASSUME NEW d \in Device, Here(d)
  PROVE  /\ Doing(d, "deinit") =>
              \/ /\ Opening(d) /\ heap[d]["transport"] = "live" /\ sock[d]["cmd"] \in Fd
                 /\ Greeting(d) /\ On(d) = "cmd" /\ Left(d, <<Do("free", "desc")>>)
              \/ \E p \in DataPort :
                   /\ Working(d) /\ On(d) = p
                   /\ \/ p \in status[d] /\ Left(d, <<Do("deinit", p)>>)
                      \/ Left(d, <<>>)
              \/ /\ Closing(d) /\ EarlyLeft(d, <<>>) /\ On(d) = "cmd"
                 /\ Left(d, <<Do("free", "desc")>>)
              \/ \E p \in DataPort, q \in Seq(Early) :
                   /\ Closing(d) /\ q # <<>> /\ EarlyLeft(d, q) /\ On(d) = p
                   /\ Head(q) = Do("deinit", p) /\ Tail(q) \in Seq(Early)
                   /\ Left(d, Tail(q) \o HelloFailsSteps)
         /\ Doing(d, "free") =>
              \/ /\ Opening(d) /\ heap[d]["transport"] # "live" /\ On(d) = "desc"
                 /\ Left(d, <<>>)
              \/ /\ Opening(d) /\ heap[d]["transport"] = "live" /\ On(d) = "transport"
                 /\ Left(d, <<Do("free", "desc")>>)
              \/ \E p \in DataPort, q \in Seq(Early) :
                   /\ Closing(d) /\ q # <<>> /\ EarlyLeft(d, q) /\ On(d) = p
                   /\ Head(q) = Do("free", p) /\ Tail(q) \in Seq(Early)
                   /\ Left(d, Tail(q) \o HelloFailsSteps)
<1>1. ASSUME Doing(d, "deinit") \/ Doing(d, "free")
      PROVE  todo[d] # <<>> /\ (Opening(d) \/ Working(d) \/ Closing(d))
  BY <1>1 DEF Doing, Closed, Here
<1>2. ASSUME Doing(d, "deinit"), Opening(d)
      PROVE  /\ heap[d]["transport"] = "live" /\ sock[d]["cmd"] \in Fd
             /\ Greeting(d) /\ On(d) = "cmd" /\ Left(d, <<Do("free", "desc")>>)
  BY <1>2, OpeningFirst, DoingIs
<1>3. ASSUME Doing(d, "free"), Opening(d)
      PROVE  \/ heap[d]["transport"] # "live" /\ On(d) = "desc" /\ Left(d, <<>>)
             \/ /\ heap[d]["transport"] = "live" /\ On(d) = "transport"
                /\ Left(d, <<Do("free", "desc")>>)
  BY <1>3, OpeningFirst, DoingIs
<1>4. ASSUME Doing(d, "deinit"), Working(d)
      PROVE  \E p \in DataPort :
               /\ On(d) = p
               /\ \/ p \in status[d] /\ Left(d, <<Do("deinit", p)>>)
                  \/ Left(d, <<>>)
  <2>1. PICK p \in DataPort : LinkNext(d, p)
    BY <1>1, <1>4, WorkingFirst
  <2> QED BY <1>4, <2>1, DoingIs DEF LinkNext
<1>5. ASSUME Doing(d, "free"), Working(d) PROVE FALSE
  <2>1. PICK p \in DataPort : LinkNext(d, p)
    BY <1>1, <1>5, WorkingFirst
  <2> QED BY <1>5, <2>1, DoingIs DEF LinkNext
<1>6. ASSUME Closing(d), NEW q \in Seq(Early), q # <<>>, Head(q) \in Early,
             Does(d, Head(q), Tail(q) \o HelloFailsSteps)
      PROVE  \E p \in DataPort :
               /\ On(d) = p /\ Left(d, Tail(q) \o HelloFailsSteps)
               /\ Doing(d, "deinit") => Head(q) = Do("deinit", p)
               /\ Doing(d, "free") => Head(q) = Do("free", p)
  <2>1. PICK s \in {"deinit", "free"}, p \in DataPort : Head(q) = Do(s, p)
    BY <1>6 DEF Early
  <2>2. /\ \A a : Doing(d, a) => a = s
        /\ On(d) = p /\ Left(d, Tail(q) \o HelloFailsSteps)
    BY <1>6, <2>1, DoingIs
  <2> QED BY <2>1, <2>2
<1>7. ASSUME Doing(d, "deinit"), Closing(d)
      PROVE  \/ EarlyLeft(d, <<>>) /\ On(d) = "cmd" /\ Left(d, <<Do("free", "desc")>>)
             \/ \E p \in DataPort, q \in Seq(Early) :
                  /\ q # <<>> /\ EarlyLeft(d, q) /\ On(d) = p
                  /\ Head(q) = Do("deinit", p) /\ Tail(q) \in Seq(Early)
                  /\ Left(d, Tail(q) \o HelloFailsSteps)
  <2>1. CASE EarlyLeft(d, <<>>) /\ Does(d, Do("deinit", "cmd"), <<Do("free", "desc")>>)
    BY <2>1, DoingIs
  <2>2. CASE \E q \in Seq(Early) :
               /\ q # <<>> /\ EarlyLeft(d, q) /\ Head(q) \in Early /\ Tail(q) \in Seq(Early)
               /\ Does(d, Head(q), Tail(q) \o HelloFailsSteps)
    BY <1>6, <1>7, <2>2
  <2> QED BY <1>7, <2>1, <2>2, ClosingFirst
<1>8. ASSUME Doing(d, "free"), Closing(d)
      PROVE  \E p \in DataPort, q \in Seq(Early) :
               /\ q # <<>> /\ EarlyLeft(d, q) /\ On(d) = p
               /\ Head(q) = Do("free", p) /\ Tail(q) \in Seq(Early)
               /\ Left(d, Tail(q) \o HelloFailsSteps)
  <2>1. ASSUME Does(d, Do("deinit", "cmd"), <<Do("free", "desc")>>) PROVE FALSE
    BY <1>8, <2>1, DoingIs
  <2>2. CASE \E q \in Seq(Early) :
               /\ q # <<>> /\ EarlyLeft(d, q) /\ Head(q) \in Early /\ Tail(q) \in Seq(Early)
               /\ Does(d, Head(q), Tail(q) \o HelloFailsSteps)
    BY <1>6, <1>8, <2>2
  <2> QED BY <1>8, <2>1, <2>2, ClosingFirst
<1>9. Doing(d, "deinit") =>
        \/ /\ Opening(d) /\ heap[d]["transport"] = "live" /\ sock[d]["cmd"] \in Fd
           /\ Greeting(d) /\ On(d) = "cmd" /\ Left(d, <<Do("free", "desc")>>)
        \/ \E p \in DataPort :
             /\ Working(d) /\ On(d) = p
             /\ \/ p \in status[d] /\ Left(d, <<Do("deinit", p)>>)
                \/ Left(d, <<>>)
        \/ /\ Closing(d) /\ EarlyLeft(d, <<>>) /\ On(d) = "cmd"
           /\ Left(d, <<Do("free", "desc")>>)
        \/ \E p \in DataPort, q \in Seq(Early) :
             /\ Closing(d) /\ q # <<>> /\ EarlyLeft(d, q) /\ On(d) = p
             /\ Head(q) = Do("deinit", p) /\ Tail(q) \in Seq(Early)
             /\ Left(d, Tail(q) \o HelloFailsSteps)
  BY <1>1, <1>2, <1>4, <1>7
<1> QED BY <1>1, <1>3, <1>5, <1>8, <1>9

-----------------------------------------------------------------------------
(* The calls leave their device in one of its places.                      *)

(* Lists of the steps there are.                                           *)
LEMMA StepLists ==
  /\ <<>> \in Seq(Step)
  /\ \A p \in DataPort :
       /\ Request(p) \in Seq(Step) /\ <<Do("send", p)>> \in Seq(Step)
       /\ <<Do("deinit", p)>> \in Seq(Step) /\ <<Do("deinit", p), Do("deinit", p)>> \in Seq(Step)
       /\ \A r \in {Request(p), <<>>} :
            /\ <<Do("connect", p)>> \o r \in Seq(Step) /\ <<Do("alloc", p)>> \o r \in Seq(Step)
            /\ <<Do("connect", p), Do("alloc", p)>> \o r \in Seq(Step)
  /\ <<Do("hello", "cmd")>> \in Seq(Step) /\ HelloFailsSteps \in Seq(Step)
  /\ <<Do("socket", "cmd"), Do("hello", "cmd")>> \in Seq(Step)
  /\ <<Do("free", "desc")>> \in Seq(Step)
  /\ <<Do("free", "transport"), Do("free", "desc")>> \in Seq(Step)
<1>1. \A x, y \in Step : <<x>> \in Seq(Step) /\ <<x, y>> \in Seq(Step)
  OBVIOUS
<1>2. <<>> \in Seq(Step)
  OBVIOUS
<1>3. \A a, b \in Seq(Step) : a \o b \in Seq(Step)
  BY ConcatProperties
<1>4. /\ Do("hello", "cmd") \in Step /\ Do("socket", "cmd") \in Step /\ Do("deinit", "cmd") \in Step
      /\ Do("free", "desc") \in Step /\ Do("free", "transport") \in Step
  BY DoStep DEF Port, Block
<1>5. ASSUME NEW p \in DataPort
      PROVE  /\ Request(p) \in Seq(Step) /\ <<Do("send", p)>> \in Seq(Step)
             /\ <<Do("deinit", p)>> \in Seq(Step)
             /\ <<Do("deinit", p), Do("deinit", p)>> \in Seq(Step)
             /\ <<Do("connect", p)>> \in Seq(Step) /\ <<Do("alloc", p)>> \in Seq(Step)
             /\ <<Do("connect", p), Do("alloc", p)>> \in Seq(Step)
  BY <1>1, RequestIs
<1>6. ASSUME NEW p \in DataPort, NEW r \in {Request(p), <<>>}
      PROVE  /\ <<Do("connect", p)>> \o r \in Seq(Step) /\ <<Do("alloc", p)>> \o r \in Seq(Step)
             /\ <<Do("connect", p), Do("alloc", p)>> \o r \in Seq(Step)
  <2>1. r \in Seq(Step)
    BY <1>2, <1>5
  <2> QED BY <1>3, <1>5, <2>1
<1> QED BY <1>1, <1>2, <1>4, <1>5, <1>6 DEF HelloFailsSteps

(* A list of one step, alone and with one after it.                        *)
LEMMA Pair ==
  ASSUME NEW S, NEW x \in S, NEW y \in S
  PROVE  <<x>> \o <<>> = <<x>> /\ <<x>> \o <<y>> = <<x, y>>
<1>1. <<x>> \o <<>> = <<x>>
  OBVIOUS
<1>2. PICK a, b, c, e : a = <<x>> /\ b = <<y>> /\ c = a \o b /\ e = <<x, y>>
  OBVIOUS
<1>3. a \in Seq(S) /\ b \in Seq(S) /\ Len(a) = 1 /\ Len(b) = 1 /\ a[1] = x /\ b[1] = y
  BY <1>2
<1>4. /\ c \in Seq(S) /\ Len(c) = 2
      /\ \A i \in 1 .. 2 : c[i] = IF i <= 1 THEN a[i] ELSE b[i - 1]
  BY <1>2, <1>3, ConcatProperties
<1>5. c[1] = x /\ c[2] = y
  BY <1>3, <1>4
<1>6. e \in Seq(S) /\ Len(e) = 2 /\ e[1] = x /\ e[2] = y
  BY <1>2
<1>7. \A i \in 1 .. 2 : c[i] = e[i]
  BY <1>5, <1>6
<1>8. c = e
  BY <1>4, <1>6, <1>7, SeqEqual
<1> QED BY <1>1, <1>2, <1>8

(* An enable connects a link that is down, and only that.                  *)
LEMMA EnablePlace ==
  ASSUME TypeOK, NoDoubleFree, Place, NEW d \in Device, NEW p \in DataPort, Enable(d, p)
  PROVE  OnlyAt(d) /\ Fine(d)' /\ Here(d)'
<1>1. IsOpen(d) /\ UNCHANGED <<status, sock, owner, heap>> /\ todo[d] = <<>>
  BY DEF Enable, Call
<1>2. Working(d) /\ heap[d]["transport"] = "live" /\ "cmd" \in status[d]
  BY <1>1, AtRest DEF Place
<1>3. PICK r \in {Request(p), <<>>} : Call(d, EnableSteps(d, p) \o r)
  <2>1. PICK request \in {<<Do("check", "rx"), Do("send", "rx")>>, <<Do("send", "tx")>>, <<>>} :
          /\ (request = <<>> \/ Head(request).on = "tx") <=> p = "tx"
          /\ Call(d, EnableSteps(d, p) \o request)
    BY DEF Enable
  <2>2. p \in {"rx", "tx"}
    BY DEF DataPort
  <2>3. CASE request = <<Do("check", "rx"), Do("send", "rx")>>
    <3>1. request # <<>> /\ Head(request).on = "rx"
      BY <2>3, Lists, DoStep
    <3> QED BY <2>1, <2>2, <2>3, <3>1 DEF Request
  <2>4. CASE request = <<Do("send", "tx")>>
    <3>1. Head(request).on = "tx"
      BY <2>4, Lists, DoStep
    <3> QED BY <2>1, <2>4, <3>1 DEF Request
  <2>5. CASE request = <<>>
    BY <2>1, <2>5
  <2> QED BY <2>1, <2>3, <2>4, <2>5
<1>4. PICK q : q = EnableSteps(d, p) \o r
  OBVIOUS
<1>5. \/ p \in status[d] /\ q = r
      \/ p \notin status[d] /\ heap[d][p] = "live" /\ q = <<Do("connect", p)>> \o r
      \/ /\ p \notin status[d] /\ heap[d][p] # "live"
         /\ q = <<Do("connect", p), Do("alloc", p)>> \o r
  <2>1. <<>> \o r = r
    BY <1>3, StepLists, ConcatEmptySeq
  <2>2. <<Do("connect", p)>> \o <<>> = <<Do("connect", p)>>
    OBVIOUS
  <2>3. <<Do("connect", p)>> \o <<Do("alloc", p)>> = <<Do("connect", p), Do("alloc", p)>>
    BY RequestIs, Pair
  <2>4. CASE p \in status[d]
    BY <1>4, <2>1, <2>4 DEF EnableSteps
  <2>5. CASE p \notin status[d] /\ heap[d][p] = "live"
    BY <1>4, <2>2, <2>5 DEF EnableSteps
  <2>6. CASE p \notin status[d] /\ heap[d][p] # "live"
    BY <1>4, <2>3, <2>6 DEF EnableSteps
  <2> QED BY <2>4, <2>5, <2>6
<1>6. q \in Seq(Step)
  BY <1>3, <1>5, StepLists
<1>7. /\ todo'[d] = q /\ OnlyAt(d) /\ Fine(d)'
      /\ status'[d] = status[d] /\ heap'[d] = heap[d]
  BY <1>1, <1>3, <1>4, <1>6, CallFine
<1>8. Working(d)'
  BY <1>2, <1>3, <1>5, <1>7 DEF Working, IsOpen
<1> QED BY <1>7, <1>8 DEF Here

(* A disable takes a link down that is up, once or twice.                  *)
LEMMA DisablePlace ==
  ASSUME TypeOK, NoDoubleFree, Place, NEW d \in Device, NEW p \in DataPort, Disable(d, p)
  PROVE  OnlyAt(d) /\ Fine(d)' /\ Here(d)'
<1>1. /\ IsOpen(d) /\ UNCHANGED <<status, sock, owner, heap>> /\ todo[d] = <<>>
      /\ Call(d, DisableSteps(d, p))
  BY DEF Disable, Call
<1>2. Working(d) /\ heap[d]["transport"] = "live" /\ "cmd" \in status[d]
  BY <1>1, AtRest DEF Place
<1>3. PICK q : q = DisableSteps(d, p)
  OBVIOUS
<1>4. \/ q = <<>>
      \/ q = <<Do("deinit", p)>>
      \/ p \in status[d] /\ q = <<Do("deinit", p), Do("deinit", p)>>
  <2>1. /\ <<Do("deinit", p)>> \o <<>> = <<Do("deinit", p)>>
        /\ <<Do("deinit", p)>> \o <<Do("deinit", p)>> = <<Do("deinit", p), Do("deinit", p)>>
    BY RequestIs, Pair
  <2> QED BY <1>3, <2>1 DEF DisableSteps
<1>5. q \in Seq(Step)
  BY <1>4, StepLists
<1>6. /\ todo'[d] = q /\ OnlyAt(d) /\ Fine(d)'
      /\ status'[d] = status[d] /\ heap'[d] = heap[d]
  BY <1>1, <1>3, <1>5, CallFine
<1>7. Working(d)'
  BY <1>2, <1>4, <1>6 DEF Working, IsOpen
<1> QED BY <1>6, <1>7 DEF Here

(* The steps that take a link down and free a buffer.                      *)
LEMMA DownSteps ==
  ASSUME NEW d \in Device, NEW p \in DataPort
  PROVE  /\ DisableSteps(d, p) \in Seq(Early) /\ FreeSteps(d, p) \in Seq(Early)
         /\ \A x : Has(DisableSteps(d, p), x) <=> x = Do("deinit", p) /\ p \in status[d]
         /\ \A x : Has(FreeSteps(d, p), x) <=> x = Do("free", p) /\ heap[d][p] = "live"
         /\ \A x : Once(FreeSteps(d, p), x)
<1>1. Do("deinit", p) \in Early /\ Do("free", p) \in Early
  BY DEF Early
<1>2. \/ p \notin status[d] /\ DisableSteps(d, p) = <<>>
      \/ p \in status[d] /\ DisableSteps(d, p) = <<Do("deinit", p)>>
      \/ p \in status[d] /\ DisableSteps(d, p) = <<Do("deinit", p), Do("deinit", p)>>
  <2>1. /\ <<Do("deinit", p)>> \o <<>> = <<Do("deinit", p)>>
        /\ <<Do("deinit", p)>> \o <<Do("deinit", p)>> = <<Do("deinit", p), Do("deinit", p)>>
    BY RequestIs, Pair
  <2> QED BY <2>1 DEF DisableSteps
<1>3. \/ heap[d][p] = "live" /\ FreeSteps(d, p) = <<Do("free", p)>>
      \/ heap[d][p] # "live" /\ FreeSteps(d, p) = <<>>
  BY DEF FreeSteps
<1>4. \A x \in Early : <<x>> \in Seq(Early) /\ <<x, x>> \in Seq(Early)
  OBVIOUS
<1>5. <<>> \in Seq(Early)
  OBVIOUS
<1>6. /\ \A x : ~Has(<<>>, x) /\ Once(<<>>, x)
      /\ \A x, y : Has(<<y>>, x) <=> x = y
      /\ \A x, y : Has(<<y, y>>, x) <=> x = y
      /\ \A x, y : Once(<<y>>, x)
  <2>1. \A x : ~Has(<<>>, x) /\ Once(<<>>, x)
    BY DEF Has, Once
  <2>2. \A y : DOMAIN <<y>> = {1} /\ <<y>>[1] = y
    OBVIOUS
  <2>3. \A y : DOMAIN <<y, y>> = {1, 2} /\ <<y, y>>[1] = y /\ <<y, y>>[2] = y
    OBVIOUS
  <2> QED BY <2>1, <2>2, <2>3 DEF Has, Once
<1>7. DisableSteps(d, p) \in Seq(Early) /\ FreeSteps(d, p) \in Seq(Early)
  BY <1>1, <1>2, <1>3, <1>4, <1>5
<1>8. \A x : Has(DisableSteps(d, p), x) <=> x = Do("deinit", p) /\ p \in status[d]
  BY <1>2, <1>6
<1>9. /\ \A x : Has(FreeSteps(d, p), x) <=> x = Do("free", p) /\ heap[d][p] = "live"
      /\ \A x : Once(FreeSteps(d, p), x)
  BY <1>3, <1>6
<1> QED BY <1>7, <1>8, <1>9

(* A close has every link to take down and every buffer to free, once.     *)
LEMMA ClosePlace ==
  ASSUME TypeOK, NoDoubleFree, Place, NEW d \in Device, Close(d)
  PROVE  OnlyAt(d) /\ Fine(d)' /\ Here(d)'
<1>1. /\ IsOpen(d) /\ UNCHANGED <<status, sock, owner, heap>> /\ todo[d] = <<>>
      /\ Call(d, CloseSteps(d))
  BY DEF Close, Call
<1>2. Working(d) /\ heap[d]["transport"] = "live" /\ "cmd" \in status[d]
  BY <1>1, AtRest DEF Place
<1>3. PICK dr, dt, ft, fr : /\ dr = DisableSteps(d, "rx") /\ dt = DisableSteps(d, "tx")
                            /\ ft = FreeSteps(d, "tx") /\ fr = FreeSteps(d, "rx")
  OBVIOUS
<1>4. /\ dr \in Seq(Early) /\ dt \in Seq(Early) /\ ft \in Seq(Early) /\ fr \in Seq(Early)
      /\ \A x : Has(dr, x) <=> x = Do("deinit", "rx") /\ "rx" \in status[d]
      /\ \A x : Has(dt, x) <=> x = Do("deinit", "tx") /\ "tx" \in status[d]
      /\ \A x : Has(ft, x) <=> x = Do("free", "tx") /\ heap[d]["tx"] = "live"
      /\ \A x : Has(fr, x) <=> x = Do("free", "rx") /\ heap[d]["rx"] = "live"
      /\ \A x : Once(ft, x) /\ Once(fr, x)
  BY <1>3, DownSteps DEF DataPort
<1>5. PICK a : a = dr \o dt
  OBVIOUS
<1>6. PICK b : b = a \o ft
  OBVIOUS
<1>7. PICK q : q = b \o fr
  OBVIOUS
<1>8. a \in Seq(Early) /\ b \in Seq(Early) /\ q \in Seq(Early)
  BY <1>4, <1>5, <1>6, <1>7, ConcatProperties
<1>9. /\ \A x : Has(a, x) <=> Has(dr, x) \/ Has(dt, x)
      /\ \A x : Has(b, x) <=> Has(a, x) \/ Has(ft, x)
      /\ \A x : Has(q, x) <=> Has(b, x) \/ Has(fr, x)
      /\ \A x : Once(ft, x) /\ ~Has(a, x) => Once(b, x)
      /\ \A x : Once(b, x) /\ ~Has(fr, x) => Once(q, x)
      /\ \A x : Once(fr, x) /\ ~Has(b, x) => Once(q, x)
  <2>1. \A x : Has(a, x) <=> Has(dr, x) \/ Has(dt, x)
    BY <1>4, <1>5, HasConcat
  <2>2. /\ \A x : Has(b, x) <=> Has(a, x) \/ Has(ft, x)
        /\ \A x : Once(ft, x) /\ ~Has(a, x) => Once(b, x)
    BY <1>4, <1>6, <1>8, HasConcat
  <2>3. /\ \A x : Has(q, x) <=> Has(b, x) \/ Has(fr, x)
        /\ \A x : Once(b, x) /\ ~Has(fr, x) => Once(q, x)
        /\ \A x : Once(fr, x) /\ ~Has(b, x) => Once(q, x)
    BY <1>4, <1>7, <1>8, HasConcat
  <2> QED BY <2>1, <2>2, <2>3
<1>10. \A s, x, u, y : Do(s, x) = Do(u, y) <=> s = u /\ x = y
  BY DoStep
<1>11. ASSUME NEW p \in DataPort
       PROVE  /\ p \in status[d] => Has(q, Do("deinit", p))
              /\ heap[d][p] = "live" <=> Has(q, Do("free", p))
              /\ Once(q, Do("free", p))
  <2>1. CASE p = "rx"
    <3>1. ~Has(b, Do("free", "rx"))
      BY <1>4, <1>9, <1>10
    <3> QED BY <1>4, <1>9, <1>10, <2>1, <3>1
  <2>2. CASE p = "tx"
    <3>1. ~Has(a, Do("free", "tx")) /\ ~Has(fr, Do("free", "tx"))
      BY <1>4, <1>9, <1>10
    <3> QED BY <1>4, <1>9, <1>10, <2>2, <3>1
  <2> QED BY <2>1, <2>2 DEF DataPort
<1>12. EarlyLeft(d, q)
  BY <1>11 DEF EarlyLeft
<1>13. CloseSteps(d) = q \o HelloFailsSteps
  BY <1>3, <1>5, <1>6, <1>7 DEF CloseSteps, HelloFailsSteps
<1>14. q \o HelloFailsSteps \in Seq(Step)
  <2>1. Early \subseteq Step
    BY DoStep DEF Early, Port
  <2>2. q \in Seq(Step)
    BY <1>8, <2>1
  <2> QED BY <2>2, StepLists, ConcatProperties
<1>15. /\ todo'[d] = q \o HelloFailsSteps /\ OnlyAt(d) /\ Fine(d)'
       /\ status'[d] = status[d] /\ heap'[d] = heap[d]
  BY <1>1, <1>13, <1>14, CallFine
<1>16. EarlyLeft(d, q)'
  BY <1>12, <1>15 DEF EarlyLeft
<1>17. Closing(d)'
  BY <1>2, <1>8, <1>1, <1>15, <1>16 DEF Closing, IsOpen
<1> QED BY <1>15, <1>17 DEF Here

-----------------------------------------------------------------------------
(* The steps leave their device in one of its places.                      *)

(* What changes when the list of a device does, and what does not when a   *)
(* variable is left alone.                                                 *)
LEMMA StepAt ==
  ASSUME TypeOK, NEW d \in Device
  PROVE  /\ \A q : Then(d, q) => todo'[d] = q /\ todo' = [todo EXCEPT ![d] = todo'[d]]
         /\ UNCHANGED status => status'[d] = status[d] /\ status' = [status EXCEPT ![d] = status'[d]]
         /\ UNCHANGED sock => sock'[d] = sock[d] /\ sock' = [sock EXCEPT ![d] = sock'[d]]
         /\ UNCHANGED heap => heap'[d] = heap[d] /\ heap' = [heap EXCEPT ![d] = heap'[d]]
BY DEF Then, TypeOK

(* The rest of the list is what is left.                                   *)
LEMMA RestIs ==
  ASSUME TypeOK, NEW d \in Device, NEW q, Left(d, q), Rest(d)
  PROVE  todo'[d] = q /\ todo' = [todo EXCEPT ![d] = todo'[d]]
BY DEF Rest, Then, Left, TypeOK

(* An allocation leads on, or to what undoes the call.                     *)
LEMMA AllocPlace ==
  ASSUME TypeOK, NoDoubleFree, Place, NEW d \in Device, Alloc(d)
  PROVE  OnlyAt(d) /\ Fine(d)' /\ Here(d)' /\ UNCHANGED owner
<1>1. Fine(d) /\ Here(d)
  BY AllFine DEF Place
<1>2. /\ status'[d] = status[d] /\ status' = [status EXCEPT ![d] = status'[d]]
      /\ sock'[d] = sock[d] /\ sock' = [sock EXCEPT ![d] = sock'[d]] /\ UNCHANGED owner
  BY StepAt DEF Alloc
<1>3. \/ heap' = [heap EXCEPT ![d][On(d)] = "live"] /\ Rest(d)
      \/ /\ heap' = heap
         /\ Then(d, <<IF On(d) = "transport" THEN Do("free", "desc") ELSE Do("deinit", On(d))>>)
  BY DEF Alloc
<1>4. CASE /\ Opening(d) /\ heap[d]["transport"] # "live" /\ On(d) = "transport"
           /\ Left(d, <<Do("socket", "cmd"), Do("hello", "cmd")>>)
  <2>1. CASE heap' = [heap EXCEPT ![d][On(d)] = "live"] /\ Rest(d)
    <3>1. /\ todo'[d] = <<Do("socket", "cmd"), Do("hello", "cmd")>>
          /\ todo' = [todo EXCEPT ![d] = todo'[d]]
      BY <1>4, <2>1, RestIs
    <3>2. heap'[d] = [heap[d] EXCEPT !["transport"] = "live"] /\ heap' = [heap EXCEPT ![d] = heap'[d]]
      BY <1>4, <2>1 DEF TypeOK
    <3>3. /\ heap'[d]["transport"] = "live" /\ heap'[d]["desc"] = heap[d]["desc"]
          /\ \A p \in DataPort : heap'[d][p] = heap[d][p]
          /\ heap'[d] \in [Block -> {"none", "live", "freed"}]
      BY <1>1, <3>2 DEF Fine, Block, DataPort
    <3>4. Fine(d)'
      BY <1>1, <1>2, <3>1, <3>3, StepLists DEF Fine
    <3>5. Opening(d)'
      BY <1>2, <1>4, <3>1, <3>3 DEF Opening, Greetings, IsOpen
    <3> QED BY <1>2, <3>1, <3>2, <3>4, <3>5 DEF OnlyAt, Here
  <2>2. CASE heap' = heap /\ Then(d, <<Do("free", "desc")>>)
    <3>1. /\ todo'[d] = <<Do("free", "desc")>> /\ todo' = [todo EXCEPT ![d] = todo'[d]]
          /\ heap'[d] = heap[d] /\ heap' = [heap EXCEPT ![d] = heap'[d]]
      BY <2>2, StepAt
    <3>2. Fine(d)'
      BY <1>1, <1>2, <3>1, StepLists DEF Fine
    <3>3. Opening(d)'
      BY <1>2, <1>4, <3>1 DEF Opening, Greetings, IsOpen
    <3> QED BY <1>2, <3>1, <3>2, <3>3 DEF OnlyAt, Here
  <2> QED BY <1>3, <1>4, <2>1, <2>2
<1>5. ASSUME NEW p \in DataPort, Working(d), p \in status[d], heap[d][p] # "live", On(d) = p,
             Left(d, Request(p)) \/ Left(d, <<>>)
      PROVE  OnlyAt(d) /\ Fine(d)' /\ Here(d)'
  <2>1. CASE heap' = [heap EXCEPT ![d][On(d)] = "live"] /\ Rest(d)
    <3>1. todo'[d] \in {Request(p), <<>>} /\ todo' = [todo EXCEPT ![d] = todo'[d]]
      BY <1>5, <2>1, RestIs
    <3>2. heap'[d] = [heap[d] EXCEPT ![p] = "live"] /\ heap' = [heap EXCEPT ![d] = heap'[d]]
      BY <1>5, <2>1 DEF TypeOK
    <3>3. /\ heap'[d]["transport"] = heap[d]["transport"] /\ heap'[d]["desc"] = heap[d]["desc"]
          /\ heap'[d] \in [Block -> {"none", "live", "freed"}]
      BY <1>1, <1>5, <3>2 DEF Fine, Block, DataPort
    <3>4. Fine(d)'
      BY <1>1, <1>2, <3>1, <3>3, StepLists DEF Fine
    <3>5. Working(d)'
      BY <1>2, <1>5, <3>1, <3>3 DEF Working, IsOpen
    <3> QED BY <1>2, <3>1, <3>2, <3>4, <3>5 DEF OnlyAt, Here
  <2>2. CASE heap' = heap /\ Then(d, <<Do("deinit", p)>>)
    <3>1. /\ todo'[d] = <<Do("deinit", p)>> /\ todo' = [todo EXCEPT ![d] = todo'[d]]
          /\ heap'[d] = heap[d] /\ heap' = [heap EXCEPT ![d] = heap'[d]]
      BY <2>2, StepAt
    <3>2. Fine(d)'
      BY <1>1, <1>2, <3>1, StepLists DEF Fine
    <3>3. Working(d)'
      BY <1>2, <1>5, <3>1 DEF Working, IsOpen
    <3> QED BY <1>2, <3>1, <3>2, <3>3 DEF OnlyAt, Here
  <2>3. p # "transport"
    BY DEF DataPort
  <2> QED BY <1>3, <1>5, <2>1, <2>2, <2>3
<1> QED BY <1>1, <1>2, <1>4, <1>5, OpenStep DEF Alloc

(* The command socket leads to the hello, or to what undoes the open.      *)
LEMMA SocketPlace ==
  ASSUME TypeOK, NoDoubleFree, Place, NEW d \in Device, Socket(d)
  PROVE  OnlyAt(d) /\ Fine(d)' /\ Here(d)'
<1>1. /\ Fine(d) /\ Opening(d) /\ heap[d]["transport"] = "live"
      /\ Left(d, <<Do("hello", "cmd")>>)
  BY AllFine, OpenStep DEF Place, Socket
<1>2. /\ status'[d] = status[d] /\ status' = [status EXCEPT ![d] = status'[d]]
      /\ heap'[d] = heap[d] /\ heap' = [heap EXCEPT ![d] = heap'[d]]
  BY StepAt DEF Socket
<1>3. \/ \E f \in Fd : sock' = [sock EXCEPT ![d]["cmd"] = f] /\ Rest(d)
      \/ /\ sock' = [sock EXCEPT ![d]["cmd"] = NoSocket]
         /\ Then(d, <<Do("free", "transport"), Do("free", "desc")>>)
  BY DEF Socket
<1>4. PICK f \in Fd \cup {NoSocket} :
        /\ sock' = [sock EXCEPT ![d]["cmd"] = f]
        /\ \/ f \in Fd /\ Rest(d)
           \/ Then(d, <<Do("free", "transport"), Do("free", "desc")>>)
  BY <1>3
<1>5. /\ sock'[d] = [sock[d] EXCEPT !["cmd"] = f] /\ sock' = [sock EXCEPT ![d] = sock'[d]]
      /\ sock'[d] \in [Port -> Fd \cup {Unset, NoSocket}] /\ sock'[d]["cmd"] = f
  <2>1. sock'[d] = [sock[d] EXCEPT !["cmd"] = f] /\ sock' = [sock EXCEPT ![d] = sock'[d]]
    BY <1>4 DEF TypeOK
  <2> QED BY <1>1, <2>1 DEF Fine, Port
<1>6. status[d] = {}
  BY <1>1 DEF Opening
<1>7. CASE f \in Fd /\ Rest(d)
  <2>1. todo'[d] = <<Do("hello", "cmd")>> /\ todo' = [todo EXCEPT ![d] = todo'[d]]
    BY <1>1, <1>7, RestIs
  <2>2. Fine(d)'
    BY <1>1, <1>2, <1>5, <1>6, <2>1, StepLists DEF Fine
  <2>3. Opening(d)'
    BY <1>1, <1>2, <1>5, <1>7, <2>1 DEF Opening, Greetings, IsOpen
  <2> QED BY <1>2, <1>5, <2>1, <2>2, <2>3 DEF OnlyAt, Here
<1>8. CASE Then(d, <<Do("free", "transport"), Do("free", "desc")>>)
  <2>1. /\ todo'[d] = <<Do("free", "transport"), Do("free", "desc")>>
        /\ todo' = [todo EXCEPT ![d] = todo'[d]]
    BY <1>8, StepAt
  <2>2. Fine(d)'
    BY <1>1, <1>2, <1>5, <1>6, <2>1, StepLists DEF Fine
  <2>3. Opening(d)'
    BY <1>1, <1>2, <1>5, <2>1 DEF Opening, Greetings, IsOpen
  <2> QED BY <1>2, <1>5, <2>1, <2>2, <2>3 DEF OnlyAt, Here
<1> QED BY <1>4, <1>7, <1>8

(* A hello opens the device, or leads to what undoes the open.             *)
LEMMA HelloPlace ==
  ASSUME TypeOK, NoDoubleFree, Place, NEW d \in Device, Hello(d)
  PROVE  OnlyAt(d) /\ Fine(d)' /\ Here(d)' /\ UNCHANGED owner
<1>1. /\ Fine(d) /\ Opening(d) /\ heap[d]["transport"] = "live" /\ sock[d]["cmd"] \in Fd
      /\ Left(d, <<>>)
  BY AllFine, OpenStep DEF Place, Hello
<1>2. /\ sock'[d] = sock[d] /\ sock' = [sock EXCEPT ![d] = sock'[d]] /\ UNCHANGED owner
      /\ heap'[d] = heap[d] /\ heap' = [heap EXCEPT ![d] = heap'[d]]
  BY StepAt DEF Hello
<1>3. CASE status' = [status EXCEPT ![d] = {"cmd"}] /\ Rest(d)
  <2>1. todo'[d] = <<>> /\ todo' = [todo EXCEPT ![d] = todo'[d]]
    BY <1>1, <1>3, RestIs
  <2>2. status'[d] = {"cmd"} /\ status' = [status EXCEPT ![d] = status'[d]]
    BY <1>3 DEF TypeOK
  <2>3. Fine(d)'
    BY <1>1, <1>2, <2>1, <2>2, StepLists DEF Fine, Port
  <2>4. Working(d)'
    BY <1>1, <1>2, <2>1, <2>2 DEF Working, Opening, IsOpen, DataPort
  <2> QED BY <1>2, <2>1, <2>2, <2>3, <2>4 DEF OnlyAt, Here
<1>4. CASE status' = status /\ Then(d, HelloFailsSteps)
  <2>1. /\ todo'[d] = HelloFailsSteps /\ todo' = [todo EXCEPT ![d] = todo'[d]]
        /\ status'[d] = status[d] /\ status' = [status EXCEPT ![d] = status'[d]]
    BY <1>4, StepAt
  <2>2. Fine(d)'
    BY <1>1, <1>2, <2>1, StepLists DEF Fine
  <2>3. Opening(d)'
    BY <1>1, <1>2, <2>1 DEF Opening, Greetings, IsOpen
  <2> QED BY <1>2, <2>1, <2>2, <2>3 DEF OnlyAt, Here
<1> QED BY <1>3, <1>4 DEF Hello

(* A link that is connected is enabled; one that is not ends the call.     *)
LEMMA ConnectPlace ==
  ASSUME TypeOK, NoDoubleFree, Place, NEW d \in Device, Connect(d)
  PROVE  OnlyAt(d) /\ Fine(d)' /\ Here(d)'
<1>1. Fine(d) /\ Here(d)
  BY AllFine DEF Place
<1>2. heap'[d] = heap[d] /\ heap' = [heap EXCEPT ![d] = heap'[d]]
  BY StepAt DEF Connect
<1>3. PICK p \in DataPort :
        /\ Working(d) /\ p \notin status[d] /\ On(d) = p
        /\ \E r \in {Request(p), <<>>} :
             \/ heap[d][p] = "live" /\ Left(d, r)
             \/ heap[d][p] # "live" /\ Left(d, <<Do("alloc", p)>> \o r)
  BY <1>1, OpenStep, LinkStep DEF Connect
<1>4. p \in Port /\ "cmd" \in status[d]
  BY <1>3 DEF Working, Port
<1>5. ASSUME NEW f \in Fd \cup {NoSocket}, sock' = [sock EXCEPT ![d][p] = f]
      PROVE  /\ sock' = [sock EXCEPT ![d] = sock'[d]] /\ sock'[d] = [sock[d] EXCEPT ![p] = f]
             /\ sock'[d] \in [Port -> Fd \cup {Unset, NoSocket}] /\ sock'[d][p] = f
             /\ \A s \in status[d] : sock'[d][s] \in Fd
  <2>1. sock' = [sock EXCEPT ![d] = sock'[d]] /\ sock'[d] = [sock[d] EXCEPT ![p] = f]
    BY <1>4, <1>5 DEF TypeOK
  <2>2. sock'[d] \in [Port -> Fd \cup {Unset, NoSocket}] /\ sock'[d][p] = f
    BY <1>1, <1>4, <2>1 DEF Fine
  <2>3. \A s \in status[d] : s # p /\ s \in Port /\ sock[d][s] \in Fd
    BY <1>1, <1>3 DEF Fine
  <2>4. \A s \in status[d] : sock'[d][s] = sock[d][s]
    BY <1>1, <2>1, <2>3 DEF Fine
  <2> QED BY <2>1, <2>2, <2>3, <2>4
<1>6. ASSUME NEW f \in Fd, sock' = [sock EXCEPT ![d][p] = f],
             status' = [status EXCEPT ![d] = @ \cup {p}], Rest(d)
      PROVE  OnlyAt(d) /\ Fine(d)' /\ Here(d)'
  <2>1. PICK r \in {Request(p), <<>>} :
          \/ heap[d][p] = "live" /\ Left(d, r)
          \/ heap[d][p] # "live" /\ Left(d, <<Do("alloc", p)>> \o r)
    BY <1>3
  <2>2. \/ heap[d][p] = "live" /\ todo'[d] = r
        \/ heap[d][p] # "live" /\ todo'[d] = <<Do("alloc", p)>> \o r
    BY <1>6, <2>1, RestIs
  <2>3. todo' = [todo EXCEPT ![d] = todo'[d]]
    BY <1>6, <2>1, RestIs
  <2>4. status'[d] = status[d] \cup {p} /\ status' = [status EXCEPT ![d] = status'[d]]
    BY <1>6 DEF TypeOK
  <2>5. todo'[d] \in Seq(Step)
    BY <2>1, <2>2, StepLists
  <2>6. Fine(d)'
    <3>1. /\ sock'[d] \in [Port -> Fd \cup {Unset, NoSocket}] /\ sock'[d][p] \in Fd
          /\ \A s \in status[d] : sock'[d][s] \in Fd
      BY <1>5, <1>6
    <3> QED BY <1>1, <1>2, <1>4, <2>4, <2>5, <3>1 DEF Fine
  <2>7. Working(d)'
    BY <1>2, <1>3, <2>2, <2>4 DEF Working, IsOpen
  <2> QED BY <1>2, <1>5, <1>6, <2>3, <2>4, <2>6, <2>7 DEF OnlyAt, Here
<1>7. ASSUME ConnectFails(d)
      PROVE  OnlyAt(d) /\ Fine(d)' /\ Here(d)'
  <2>1. /\ sock' = [sock EXCEPT ![d][p] = NoSocket] /\ todo'[d] = <<>>
        /\ todo' = [todo EXCEPT ![d] = todo'[d]]
        /\ status'[d] = status[d] /\ status' = [status EXCEPT ![d] = status'[d]]
    BY <1>3, <1>7, StepAt DEF ConnectFails
  <2>2. Fine(d)'
    BY <1>1, <1>2, <1>5, <2>1, StepLists DEF Fine
  <2>3. Working(d)'
    BY <1>2, <1>3, <2>1 DEF Working, IsOpen
  <2> QED BY <1>2, <1>5, <2>1, <2>2, <2>3 DEF OnlyAt, Here
<1>8. \/ /\ \E f \in Fd : sock' = [sock EXCEPT ![d][On(d)] = f]
         /\ status' = [status EXCEPT ![d] = @ \cup {On(d)}] /\ Rest(d)
      \/ ConnectFails(d)
  BY DEF Connect
<1> QED BY <1>3, <1>6, <1>7, <1>8

(* Checking the frame size and sending leave the link enabled.             *)
LEMMA CheckPlace ==
  ASSUME TypeOK, NoDoubleFree, Place, NEW d \in Device, Check(d) \/ Send(d)
  PROVE  OnlyAt(d) /\ Fine(d)' /\ Here(d)' /\ UNCHANGED owner
<1>1. Fine(d) /\ Here(d)
  BY AllFine DEF Place
<1>2. /\ status'[d] = status[d] /\ status' = [status EXCEPT ![d] = status'[d]]
      /\ sock'[d] = sock[d] /\ sock' = [sock EXCEPT ![d] = sock'[d]] /\ UNCHANGED owner
      /\ heap'[d] = heap[d] /\ heap' = [heap EXCEPT ![d] = heap'[d]]
  BY StepAt DEF Check, Send
<1>3. Working(d) /\ (Rest(d) \/ Then(d, <<>>))
      /\ (Left(d, <<>>) \/ \E p \in DataPort : Left(d, <<Do("send", p)>>))
  BY <1>1, LinkStep DEF Check, Send
<1>4. (todo'[d] = <<>> \/ \E p \in DataPort : todo'[d] = <<Do("send", p)>>)
      /\ todo' = [todo EXCEPT ![d] = todo'[d]]
  <2>1. CASE Then(d, <<>>)
    BY <2>1, StepAt
  <2>2. CASE Rest(d) /\ Left(d, <<>>)
    BY <2>2, RestIs
  <2>3. ASSUME NEW p \in DataPort, Rest(d), Left(d, <<Do("send", p)>>)
        PROVE  todo'[d] = <<Do("send", p)>> /\ todo' = [todo EXCEPT ![d] = todo'[d]]
    BY <2>3, RestIs
  <2> QED BY <1>3, <2>1, <2>2, <2>3
<1>5. Fine(d)'
  BY <1>1, <1>2, <1>4, StepLists DEF Fine
<1>6. Working(d)'
  <2>1. "rx" \in DataPort
    BY DEF DataPort
  <2> QED BY <1>2, <1>3, <1>4, <2>1 DEF Working, IsOpen
<1> QED BY <1>2, <1>4, <1>5, <1>6 DEF OnlyAt, Here

(* What is left of a close after its first step.                           *)
LEMMA ClosingGoesOn ==
  ASSUME TypeOK, NoDoubleFree, NEW d \in Device, NEW q \in Seq(Early), q # <<>>, Tail(q) \in Seq(Early),
         Left(d, Tail(q) \o HelloFailsSteps), Rest(d)
  PROVE  /\ todo'[d] \in Seq(Step) /\ todo'[d] = Tail(q) \o HelloFailsSteps
         /\ todo' = [todo EXCEPT ![d] = todo'[d]]
<1>1. PICK t : t = Tail(q) \o HelloFailsSteps
  OBVIOUS
<1>2. t \in Seq(Step)
  <2>1. Early \subseteq Step
    BY DoStep DEF Early, Port
  <2>2. Tail(q) \in Seq(Step)
    BY <2>1
  <2> QED BY <1>1, <2>2, StepLists, ConcatProperties
<1>3. Left(d, t)
  BY <1>1
<1>4. todo'[d] = t /\ todo' = [todo EXCEPT ![d] = todo'[d]]
  BY <1>3, RestIs
<1> QED BY <1>1, <1>2, <1>4

(* The transport is freed with the last status bit, while it is allocated. *)
LEMMA DeinitPlace ==
  ASSUME TypeOK, NoDoubleFree, Place, NEW d \in Device, Deinit(d)
  PROVE  OnlyAt(d) /\ Fine(d)' /\ Here(d)'
<1>1. Fine(d) /\ Here(d) /\ Rest(d) /\ Doing(d, "deinit")
  BY AllFine DEF Place, Deinit
<1>2. /\ sock'[d] = sock[d] /\ sock' = [sock EXCEPT ![d] = sock'[d]]
      /\ status'[d] = status[d] \ {On(d)} /\ status' = [status EXCEPT ![d] = status'[d]]
  BY StepAt DEF Deinit, TypeOK
<1>3. /\ status'[d] # {} => heap'[d] = heap[d] /\ heap' = [heap EXCEPT ![d] = heap'[d]]
      /\ status'[d] = {} /\ heap[d]["transport"] = "live" =>
           /\ heap'[d] = [heap[d] EXCEPT !["transport"] = "freed"]
           /\ heap' = [heap EXCEPT ![d] = heap'[d]]
  <2>1. CASE status'[d] # {}
    BY <2>1, StepAt DEF Deinit
  <2>2. CASE status'[d] = {} /\ heap[d]["transport"] = "live"
    <3>1. heap' = [heap EXCEPT ![d] = FreeBlock(heap[d], "transport")]
      BY <2>2 DEF Deinit
    <3>2. FreeBlock(heap[d], "transport") = [heap[d] EXCEPT !["transport"] = "freed"]
      BY <2>2 DEF FreeBlock
    <3> QED BY <2>2, <3>1, <3>2 DEF TypeOK
  <2> QED BY <2>1, <2>2
<1>4. CASE /\ IsOpen(d) /\ heap[d]["transport"] = "live" /\ On(d) = "cmd"
           /\ status[d] \subseteq {"cmd"} /\ \A p \in DataPort : heap[d][p] # "live"
           /\ Left(d, <<Do("free", "desc")>>)
  <2>1. todo'[d] = <<Do("free", "desc")>> /\ todo' = [todo EXCEPT ![d] = todo'[d]]
    BY <1>1, <1>4, RestIs
  <2>2. status'[d] = {}
    BY <1>2, <1>4
  <2>3. /\ heap'[d] = [heap[d] EXCEPT !["transport"] = "freed"]
        /\ heap' = [heap EXCEPT ![d] = heap'[d]]
    BY <1>3, <1>4, <2>2
  <2>4. /\ heap'[d]["transport"] # "live" /\ heap'[d]["desc"] = heap[d]["desc"]
        /\ \A p \in DataPort : heap'[d][p] = heap[d][p]
        /\ heap'[d] \in [Block -> {"none", "live", "freed"}]
    BY <1>1, <2>3 DEF Fine, Block, DataPort
  <2>5. Fine(d)'
    BY <1>1, <1>2, <2>1, <2>2, <2>4, StepLists DEF Fine
  <2>6. Opening(d)'
    BY <1>4, <2>1, <2>2, <2>4 DEF Opening, IsOpen
  <2> QED BY <1>2, <2>1, <2>3, <2>5, <2>6 DEF OnlyAt, Here
<1>5. ASSUME NEW p \in DataPort, On(d) = p, "cmd" \in status[d], todo'[d] \in Seq(Step),
             todo' = [todo EXCEPT ![d] = todo'[d]]
      PROVE  /\ OnlyAt(d) /\ Fine(d)' /\ "cmd" \in status'[d] /\ heap'[d] = heap[d]
             /\ status'[d] = status[d] \ {p}
  <2>1. "cmd" \in status'[d] /\ status'[d] = status[d] \ {p}
    BY <1>2, <1>5 DEF DataPort
  <2>2. heap'[d] = heap[d] /\ heap' = [heap EXCEPT ![d] = heap'[d]]
    BY <1>3, <2>1
  <2>3. Fine(d)'
    BY <1>1, <1>2, <1>5, <2>1, <2>2 DEF Fine
  <2> QED BY <1>2, <1>5, <2>1, <2>2, <2>3 DEF OnlyAt
<1>6. ASSUME NEW p \in DataPort, Working(d), On(d) = p,
             Left(d, <<Do("deinit", p)>>) \/ Left(d, <<>>)
      PROVE  OnlyAt(d) /\ Fine(d)' /\ Here(d)'
  <2>1. (todo'[d] = <<Do("deinit", p)>> \/ todo'[d] = <<>>) /\ todo' = [todo EXCEPT ![d] = todo'[d]]
    <3>1. CASE Left(d, <<Do("deinit", p)>>)
      BY <1>1, <3>1, RestIs
    <3>2. CASE Left(d, <<>>)
      BY <1>1, <3>2, RestIs
    <3> QED BY <1>6, <3>1, <3>2
  <2>2. todo'[d] \in Seq(Step)
    BY <2>1, StepLists
  <2>3. "cmd" \in status[d]
    BY <1>6 DEF Working
  <2>4. OnlyAt(d) /\ Fine(d)' /\ "cmd" \in status'[d] /\ heap'[d] = heap[d]
    BY <1>5, <1>6, <2>1, <2>2, <2>3
  <2>5. Working(d)'
    BY <1>6, <2>1, <2>4 DEF Working, IsOpen
  <2> QED BY <2>4, <2>5 DEF Here
<1>7. ASSUME NEW p \in DataPort, NEW q \in Seq(Early), Closing(d), q # <<>>, EarlyLeft(d, q),
             On(d) = p, Head(q) = Do("deinit", p), Tail(q) \in Seq(Early),
             Left(d, Tail(q) \o HelloFailsSteps)
      PROVE  OnlyAt(d) /\ Fine(d)' /\ Here(d)'
  <2>1. /\ todo'[d] \in Seq(Step) /\ todo'[d] = Tail(q) \o HelloFailsSteps
        /\ todo' = [todo EXCEPT ![d] = todo'[d]]
    BY <1>1, <1>7, ClosingGoesOn
  <2>2. "cmd" \in status[d]
    BY <1>7 DEF Closing
  <2>3. /\ OnlyAt(d) /\ Fine(d)' /\ "cmd" \in status'[d] /\ heap'[d] = heap[d]
        /\ status'[d] = status[d] \ {p}
    BY <1>5, <1>7, <2>1, <2>2
  <2>4. PICK t \in Seq(Early) : t = Tail(q)
    BY <1>7
  <2>5. /\ \A x : Has(q, x) <=> x = Do("deinit", p) \/ Has(t, x)
        /\ \A x : Once(q, x) => Once(t, x)
    BY <1>7, <2>4, HasTail
  <2>6. \A s \in DataPort : Do("deinit", s) = Do("deinit", p) <=> s = p
    BY DoStep
  <2>7. \A s \in DataPort : Do("free", s) # Do("deinit", p)
    BY DoStep
  <2>8. EarlyLeft(d, t)'
    BY <1>7, <2>3, <2>5, <2>6, <2>7 DEF EarlyLeft
  <2>9. Closing(d)'
    BY <1>7, <2>1, <2>3, <2>4, <2>8 DEF Closing, IsOpen
  <2> QED BY <2>3, <2>9 DEF Here
<1>8. ASSUME Opening(d), heap[d]["transport"] = "live", On(d) = "cmd", Left(d, <<Do("free", "desc")>>)
      PROVE  OnlyAt(d) /\ Fine(d)' /\ Here(d)'
  BY <1>4, <1>8 DEF Opening
<1>9. ASSUME Closing(d), EarlyLeft(d, <<>>), On(d) = "cmd", Left(d, <<Do("free", "desc")>>)
      PROVE  OnlyAt(d) /\ Fine(d)' /\ Here(d)'
  <2>1. \A x : ~Has(<<>>, x)
    BY DEF Has
  <2>2. status[d] \subseteq {"cmd"} /\ \A p \in DataPort : heap[d][p] # "live"
    BY <1>1, <1>9, <2>1 DEF EarlyLeft, Fine, Port
  <2> QED BY <1>4, <1>9, <2>2 DEF Closing
<1> QED BY <1>1, <1>6, <1>7, <1>8, <1>9, CloseStep

(* What is freed is allocated.                                             *)
LEMMA FreePlace ==
  ASSUME TypeOK, NoDoubleFree, Place, NEW d \in Device, FreeStep(d)
  PROVE  OnlyAt(d) /\ Fine(d)' /\ Here(d)' /\ UNCHANGED owner
<1>1. Fine(d) /\ Here(d) /\ Rest(d) /\ Doing(d, "free")
  BY AllFine DEF Place, FreeStep
<1>2. /\ sock'[d] = sock[d] /\ sock' = [sock EXCEPT ![d] = sock'[d]] /\ UNCHANGED owner
      /\ status'[d] = status[d] /\ status' = [status EXCEPT ![d] = status'[d]]
  BY StepAt DEF FreeStep
<1>3. ASSUME NEW b \in Block, On(d) = b, heap[d][b] = "live"
      PROVE  /\ heap' = [heap EXCEPT ![d] = heap'[d]]
             /\ heap'[d][b] = "freed" /\ \A c \in Block \ {b} : heap'[d][c] = heap[d][c]
             /\ heap'[d] \in [Block -> {"none", "live", "freed"}]
  <2>1. heap' = [heap EXCEPT ![d] = FreeBlock(heap[d], b)]
    BY <1>3 DEF FreeStep
  <2>2. FreeBlock(heap[d], b) = [heap[d] EXCEPT ![b] = "freed"]
    BY <1>3 DEF FreeBlock
  <2>3. heap' = [heap EXCEPT ![d] = heap'[d]] /\ heap'[d] = [heap[d] EXCEPT ![b] = "freed"]
    BY <2>1, <2>2 DEF TypeOK
  <2> QED BY <1>1, <2>3 DEF Fine
<1>4. Opening(d) => heap[d]["desc"] = "live" /\ status[d] = {}
  BY DEF Opening, IsOpen
<1>5. CASE Opening(d) /\ heap[d]["transport"] # "live" /\ On(d) = "desc" /\ Left(d, <<>>)
  <2>1. todo'[d] = <<>> /\ todo' = [todo EXCEPT ![d] = todo'[d]]
    BY <1>1, <1>5, RestIs
  <2>2. /\ heap' = [heap EXCEPT ![d] = heap'[d]]
        /\ heap'[d]["desc"] = "freed" /\ \A c \in Block \ {"desc"} : heap'[d][c] = heap[d][c]
        /\ heap'[d] \in [Block -> {"none", "live", "freed"}]
    BY <1>3, <1>4, <1>5 DEF Block
  <2>3. Closed(d)'
    BY <1>2, <1>4, <1>5, <2>1, <2>2 DEF Closed, Opening, Block
  <2>4. Fine(d)'
    BY <1>1, <1>2, <2>1, <2>2, StepLists DEF Fine
  <2> QED BY <1>2, <2>1, <2>2, <2>3, <2>4 DEF OnlyAt, Here
<1>6. CASE /\ Opening(d) /\ heap[d]["transport"] = "live" /\ On(d) = "transport"
           /\ Left(d, <<Do("free", "desc")>>)
  <2>1. todo'[d] = <<Do("free", "desc")>> /\ todo' = [todo EXCEPT ![d] = todo'[d]]
    BY <1>1, <1>6, RestIs
  <2>2. /\ heap' = [heap EXCEPT ![d] = heap'[d]] /\ heap'[d]["transport"] = "freed"
        /\ \A c \in Block \ {"transport"} : heap'[d][c] = heap[d][c]
        /\ heap'[d] \in [Block -> {"none", "live", "freed"}]
    BY <1>3, <1>6 DEF Block
  <2>3. Opening(d)'
    BY <1>2, <1>6, <2>1, <2>2 DEF Opening, IsOpen, Block, DataPort
  <2>4. Fine(d)'
    BY <1>1, <1>2, <2>1, <2>2, StepLists DEF Fine
  <2> QED BY <1>2, <2>1, <2>2, <2>3, <2>4 DEF OnlyAt, Here
<1>7. ASSUME NEW p \in DataPort, NEW q \in Seq(Early), Closing(d), q # <<>>, EarlyLeft(d, q),
             On(d) = p, Head(q) = Do("free", p), Tail(q) \in Seq(Early),
             Left(d, Tail(q) \o HelloFailsSteps)
      PROVE  OnlyAt(d) /\ Fine(d)' /\ Here(d)'
  <2>1. /\ todo'[d] \in Seq(Step) /\ todo'[d] = Tail(q) \o HelloFailsSteps
        /\ todo' = [todo EXCEPT ![d] = todo'[d]]
    BY <1>1, <1>7, ClosingGoesOn
  <2>2. PICK t \in Seq(Early) : t = Tail(q)
    BY <1>7
  <2>3. /\ \A x : Has(q, x) <=> x = Do("free", p) \/ Has(t, x)
        /\ \A x : Once(q, x) => Once(t, x) /\ (x = Do("free", p) => ~Has(t, x))
    BY <1>7, <2>2, HasTail
  <2>4. heap[d][p] = "live"
    BY <1>7, <2>3 DEF EarlyLeft
  <2>5. p \in Block /\ p # "desc" /\ p # "transport" /\ DataPort \subseteq Block
    BY DEF Block, DataPort
  <2>6. /\ heap' = [heap EXCEPT ![d] = heap'[d]] /\ heap'[d][p] = "freed"
        /\ \A c \in Block \ {p} : heap'[d][c] = heap[d][c]
        /\ heap'[d] \in [Block -> {"none", "live", "freed"}]
    BY <1>3, <1>7, <2>4, <2>5
  <2>7. /\ \A s \in DataPort : Do("free", s) = Do("free", p) <=> s = p
        /\ \A s \in DataPort : Do("deinit", s) # Do("free", p)
    BY DoStep
  <2>8. EarlyLeft(d, t)'
    BY <1>2, <1>7, <2>3, <2>5, <2>6, <2>7 DEF EarlyLeft
  <2>9. heap'[d]["desc"] = heap[d]["desc"] /\ heap'[d]["transport"] = heap[d]["transport"]
    BY <2>5, <2>6 DEF Block
  <2>10. Closing(d)'
    BY <1>2, <1>7, <2>1, <2>2, <2>8, <2>9 DEF Closing, IsOpen
  <2>11. Fine(d)'
    BY <1>1, <1>2, <2>1, <2>6 DEF Fine
  <2> QED BY <1>2, <2>1, <2>6, <2>10, <2>11 DEF OnlyAt, Here
<1> QED BY <1>1, <1>2, <1>5, <1>6, <1>7, CloseStep

-----------------------------------------------------------------------------
(* An open descriptor is known to its device.                              *)

(* A step opens descriptors only for its own device.                       *)
Moves(d) ==
  \A f \in Fd :
    owner'[f] \in {owner[f], Free} \/ \E x \in Port \cup {"lost"} : owner'[f] = <<d, x>>

(* A device says hello first or takes its command socket down.             *)
LEMMA GreetingFirst ==
  ASSUME NEW d \in Device
  PROVE  /\ Greeting(d) => todo[d] # <<>> /\ On(d) = "cmd" /\ (Doing(d, "hello") \/ Doing(d, "deinit"))
         /\ Greeting(d) /\ Doing(d, "hello") => todo[d] = <<Do("hello", "cmd")>>
<1>1. CASE todo[d] = <<Do("hello", "cmd")>>
  <2>1. todo[d] # <<>> /\ Head(todo[d]) = Do("hello", "cmd")
    BY <1>1, Lists
  <2> QED BY <1>1, <2>1, DoStep DEF Greeting, Greetings, Doing, On
<1>2. CASE todo[d] = HelloFailsSteps
  <2>1. todo[d] # <<>> /\ Head(todo[d]) = Do("deinit", "cmd")
    BY <1>2, Lists DEF HelloFailsSteps
  <2> QED BY <2>1, DoStep DEF Greeting, Greetings, Doing, On
<1> QED BY <1>1, <1>2 DEF Greeting, Greetings

(* The descriptors of the other devices stay known to them.                *)
LEMMA KnownElsewhere ==
  ASSUME TypeOK, Known, NEW d \in Device, OnlyAt(d), Moves(d), KnownAt(d)'
  PROVE  Known'
<1> SUFFICES ASSUME NEW e \in Device, e # d PROVE KnownAt(e)'
  BY DEF Known
<1>1. todo'[e] = todo[e] /\ status'[e] = status[e] /\ sock'[e] = sock[e]
  BY DEF OnlyAt, TypeOK
<1>2. Greeting(e) => Greeting(e)'
  BY <1>1 DEF Greeting
<1>3. ASSUME NEW f \in Fd, NEW p \in Port, owner'[f] = <<e, p>> PROVE owner[f] = <<e, p>>
  <2>1. Free # <<e, p>> /\ \A x : <<d, x>> # <<e, p>>
    BY EthDeviceAssumption
  <2> QED BY <1>3, <2>1 DEF Moves
<1> QED BY <1>1, <1>2, <1>3 DEF Known, KnownAt

(* A step that leaves the sockets alone, and is not the end of a greeting. *)
LEMMA KnownSame ==
  ASSUME TypeOK, Known, NEW d \in Device, ~Greeting(d),
         sock'[d] = sock[d], status[d] \subseteq status'[d], UNCHANGED owner
  PROVE  Moves(d) /\ KnownAt(d)'
BY DEF Known, KnownAt, Moves

(* A device that is opened owns no descriptor yet.                         *)
LEMMA OpenKnown ==
  ASSUME TypeOK, Place, Known, NEW d \in Device, Open(d)
  PROVE  Moves(d) /\ KnownAt(d)'
<1>1. ~IsOpen(d) /\ UNCHANGED owner
  BY DEF Open
<1>2. status[d] = {} /\ todo[d] = <<>>
  BY <1>1 DEF Place, Here, Closed, Opening, Working, Closing
<1>3. \A f \in Fd, p \in Port : owner[f] # <<d, p>>
  BY <1>2, GreetingFirst DEF Known, KnownAt
<1> QED BY <1>1, <1>3 DEF Moves, KnownAt

(* Enable, disable and close only make a list.                             *)
LEMMA CallKnown ==
  ASSUME TypeOK, Place, Known, NEW d \in Device,
         Close(d) \/ \E p \in DataPort : Enable(d, p) \/ Disable(d, p)
  PROVE  Moves(d) /\ KnownAt(d)'
<1>1. todo[d] = <<>> /\ UNCHANGED <<status, sock, owner, heap>>
  BY DEF Close, Enable, Disable, Call
<1>2. ~Greeting(d)
  BY <1>1, GreetingFirst
<1> QED BY <1>1, <1>2, KnownSame

(* Steps that touch no socket.                                             *)
LEMMA QuietKnown ==
  ASSUME TypeOK, Known, NEW d \in Device, Alloc(d) \/ Check(d) \/ Send(d) \/ FreeStep(d)
  PROVE  Moves(d) /\ KnownAt(d)'
<1>1. UNCHANGED <<status, sock, owner>> /\ \E s \in {"alloc", "check", "send", "free"} : Doing(d, s)
  BY DEF Alloc, Check, Send, FreeStep
<1>2. ~Greeting(d)
  BY <1>1, GreetingFirst DEF Doing
<1> QED BY <1>1, <1>2, KnownSame

(* The command socket is known while its hello is to come.                 *)
LEMMA SocketKnown ==
  ASSUME TypeOK, Place, Known, NEW d \in Device, Socket(d)
  PROVE  Moves(d) /\ KnownAt(d)'
<1>1. /\ status[d] = {} /\ status' = status /\ Doing(d, "socket")
      /\ Left(d, <<Do("hello", "cmd")>>)
  BY OpenStep DEF Place, Socket, Opening
<1>2. \A f \in Fd, p \in Port : owner[f] # <<d, p>>
  <2>1. ~Greeting(d)
    BY <1>1, GreetingFirst DEF Doing
  <2> QED BY <1>1, <2>1 DEF Known, KnownAt
<1>3. CASE UNCHANGED owner
  BY <1>2, <1>3 DEF Moves, KnownAt
<1>4. ASSUME NEW f \in Fd, OpenFd(f, d, "cmd"), sock' = [sock EXCEPT ![d]["cmd"] = f], Rest(d)
      PROVE  Moves(d) /\ KnownAt(d)'
  <2>1. "cmd" \in Port
    BY DEF Port
  <2>2. /\ owner'[f] = <<d, "cmd">> /\ \A g \in Fd : g # f => owner'[g] = owner[g]
        /\ sock'[d]["cmd"] = f
    BY <1>4, <2>1 DEF OpenFd, TypeOK
  <2>3. todo'[d] = <<Do("hello", "cmd")>>
    BY <1>1, <1>4, RestIs
  <2>4. Greeting(d)'
    BY <1>1, <2>1, <2>3 DEF Greeting, Greetings
  <2>5. Moves(d)
    BY <2>1, <2>2 DEF Moves
  <2>6. ASSUME NEW g \in Fd, NEW p \in Port, owner'[g] = <<d, p>> PROVE g = f /\ p = "cmd"
    BY <1>2, <2>2, <2>6
  <2> QED BY <2>2, <2>4, <2>5, <2>6 DEF KnownAt
<1> QED BY <1>3, <1>4 DEF Socket

(* The hello sets the bit of the socket it was sent on.                    *)
LEMMA HelloKnown ==
  ASSUME TypeOK, Place, Known, NEW d \in Device, Hello(d)
  PROVE  Moves(d) /\ KnownAt(d)'
<1>1. status[d] = {} /\ UNCHANGED <<sock, owner>> /\ Left(d, <<>>)
  BY OpenStep DEF Place, Hello, Opening
<1>2. \A f \in Fd, p \in Port : owner[f] = <<d, p>> => sock[d][p] = f /\ p = "cmd"
  BY <1>1 DEF Known, KnownAt
<1>3. "cmd" \in status'[d] \/ Greeting(d)'
  <2>1. CASE status' = [status EXCEPT ![d] = {"cmd"}]
    BY <2>1 DEF TypeOK
  <2>2. CASE status' = status /\ Then(d, HelloFailsSteps)
    <3>1. todo'[d] = HelloFailsSteps /\ "cmd" \notin status'[d]
      BY <1>1, <2>2, StepAt
    <3> QED BY <3>1 DEF Greeting, Greetings
  <2> QED BY <2>1, <2>2 DEF Hello
<1> QED BY <1>1, <1>2, <1>3 DEF KnownAt, Moves

(* A link that is connected is known; a forgotten descriptor is no port's. *)
LEMMA ConnectKnown ==
  ASSUME TypeOK, Place, Known, NEW d \in Device, Connect(d)
  PROVE  Moves(d) /\ KnownAt(d)'
<1>1. PICK p \in DataPort : p \notin status[d] /\ On(d) = p
  BY LinkStep DEF Place, Connect
<1>2. p \in Port /\ ~Greeting(d)
  BY GreetingFirst DEF Connect, Doing, DataPort, Port
<1>3. \A f \in Fd, s \in Port : owner[f] = <<d, s>> => sock[d][s] = f /\ s \in status[d] /\ s # p
  BY <1>1, <1>2 DEF Known, KnownAt
<1>4. \A f : sock' = [sock EXCEPT ![d][p] = f] =>
        sock'[d][p] = f /\ \A s \in Port : s # p => sock'[d][s] = sock[d][s]
  BY <1>2 DEF TypeOK
<1>5. ASSUME NEW f \in Fd, NEW x \in Port \cup {"lost"}, OpenFd(f, d, x)
      PROVE  Moves(d) /\ owner'[f] = <<d, x>> /\ \A g \in Fd : g # f => owner'[g] = owner[g]
  <2>1. owner'[f] = <<d, x>> /\ \A g \in Fd : g # f => owner'[g] = owner[g]
    BY <1>5 DEF OpenFd, TypeOK
  <2> QED BY <2>1 DEF Moves
<1>6. ASSUME NEW f \in Fd, OpenFd(f, d, p), sock' = [sock EXCEPT ![d][p] = f],
             status' = [status EXCEPT ![d] = @ \cup {p}]
      PROVE  Moves(d) /\ KnownAt(d)'
  <2>1. Moves(d) /\ owner'[f] = <<d, p>> /\ \A g \in Fd : g # f => owner'[g] = owner[g]
    BY <1>2, <1>5, <1>6
  <2>2. status'[d] = status[d] \cup {p}
    BY <1>6 DEF TypeOK
  <2>3. ASSUME NEW g \in Fd, NEW s \in Port, owner'[g] = <<d, s>>
        PROVE  sock'[d][s] = g /\ s \in status'[d]
    <3>1. CASE g = f
      <4>1. s = p
        BY <2>1, <2>3, <3>1
      <4> QED BY <1>4, <1>6, <2>2, <3>1, <4>1
    <3>2. CASE g # f
      <4>1. sock[d][s] = g /\ s \in status[d] /\ s # p
        BY <1>3, <2>1, <2>3, <3>2
      <4> QED BY <1>4, <1>6, <2>2, <4>1
    <3> QED BY <3>1, <3>2
  <2> QED BY <2>1, <2>3 DEF KnownAt
<1>7. ASSUME ConnectFails(d), UNCHANGED owner \/ \E f \in Fd : OpenFd(f, d, "lost")
      PROVE  Moves(d) /\ KnownAt(d)'
  <2>1. sock' = [sock EXCEPT ![d][p] = NoSocket] /\ status' = status
    BY <1>1, <1>7 DEF ConnectFails
  <2>2. \A s \in Port : s # p => sock'[d][s] = sock[d][s]
    BY <1>4, <2>1
  <2>3. Moves(d) /\ \A g \in Fd, s \in Port : owner'[g] = <<d, s>> => owner[g] = <<d, s>>
    <3>1. CASE UNCHANGED owner
      BY <3>1 DEF Moves
    <3>2. ASSUME NEW f \in Fd, OpenFd(f, d, "lost")
          PROVE  Moves(d) /\ \A g \in Fd, s \in Port : owner'[g] = <<d, s>> => owner[g] = <<d, s>>
      <4>1. /\ Moves(d) /\ owner'[f] = <<d, "lost">>
            /\ \A g \in Fd : g # f => owner'[g] = owner[g]
        BY <1>5, <3>2
      <4>2. "lost" \notin Port
        BY DEF Port, DataPort
      <4>3. \A s \in Port : owner'[f] # <<d, s>>
        BY <4>1, <4>2
      <4> QED BY <4>1, <4>3
    <3> QED BY <1>7, <3>1, <3>2
  <2> QED BY <1>3, <2>1, <2>2, <2>3 DEF KnownAt
<1> QED BY <1>1, <1>6, <1>7 DEF Connect

(* What a device takes down it has closed.                                 *)
LEMMA DeinitKnown ==
  ASSUME TypeOK, Place, Known, NEW d \in Device, Deinit(d)
  PROVE  Moves(d) /\ KnownAt(d)'
<1>1. /\ owner' = IF sock[d][On(d)] \in Fd THEN [owner EXCEPT ![sock[d][On(d)]] = Free] ELSE owner
      /\ UNCHANGED sock
  BY DEF Deinit
<1>2. status'[d] = status[d] \ {On(d)}
  BY DEF Deinit, TypeOK
<1>3. \A f \in Fd : owner'[f] = owner[f] \/ owner'[f] = Free
  BY <1>1 DEF TypeOK
<1>4. sock[d][On(d)] \in Fd => owner'[sock[d][On(d)]] = Free
  BY <1>1 DEF TypeOK
<1>5. ASSUME NEW f \in Fd, NEW p \in Port, owner'[f] = <<d, p>>
      PROVE  sock[d][p] = f /\ p \in status'[d]
  <2>1. owner[f] = <<d, p>> /\ <<d, p>> # Free
    BY <1>3, <1>5, EthDeviceAssumption
  <2>2. sock[d][p] = f /\ (p \in status[d] \/ (p = "cmd" /\ Greeting(d)))
    BY <2>1 DEF Known, KnownAt
  <2>3. On(d) # p
    BY <1>4, <1>5, <2>1, <2>2
  <2> QED BY <1>2, <2>2, <2>3, GreetingFirst
<1> QED BY <1>1, <1>3, <1>5 DEF Moves, KnownAt

-----------------------------------------------------------------------------
(* When calls do not overlap, a socket is its device's own.                *)

(* A step closes descriptors of its own device only.                       *)
Spares(d) ==
  \A f \in Fd :
    owner'[f] # owner[f] => owner[f] = Free \/ \E p \in Port : owner[f] = <<d, p>>

(* The other devices have nothing to do, before the step and after it.     *)
Idle(d) == \A e \in Device : e # d => todo[e] = <<>>

(* A step leaves to the other devices what is theirs.                      *)
LEMMA PrivateElsewhere ==
  ASSUME TypeOK, Private, NEW d \in Device, OnlyAt(d), Spares(d), Idle(d), OwnAt(d)'
  PROVE  Private'
<1>1. ASSUME NEW e \in Device, e # d
      PROVE  /\ todo'[e] = todo[e] /\ status'[e] = status[e] /\ sock'[e] = sock[e]
             /\ todo[e] = <<>>
  BY <1>1 DEF OnlyAt, TypeOK, Idle
<1>2. Alone'
  BY <1>1 DEF Alone
<1>3. ASSUME NEW e \in Device, e # d PROVE OwnAt(e)'
  <2>1. ASSUME NEW p \in Port, p \in status'[e] PROVE owner'[sock'[e][p]] = <<e, p>>
    <3>1. owner[sock[e][p]] = <<e, p>> /\ sock[e][p] \in Fd
      BY <1>1, <1>3, <2>1 DEF Private, OwnAt, TypeOK
    <3>2. <<e, p>> # Free /\ \A x : <<e, p>> # <<d, x>>
      BY <1>3, EthDeviceAssumption
    <3>3. PICK f \in Fd : f = sock[e][p]
      BY <3>1
    <3>4. owner'[f] = owner[f]
      BY <3>1, <3>2, <3>3 DEF Spares
    <3> QED BY <1>1, <1>3, <3>1, <3>3, <3>4
  <2>2. ~Greeting(e)'
    <3>1. ~Greeting(e)
      BY <1>1, <1>3, GreetingFirst
    <3> QED BY <1>1, <1>3, <3>1 DEF Greeting
  <2>3. \A x : ~Has(todo'[e], x)
    <3>1. \A x : ~Has(<<>>, x)
      BY DEF Has
    <3> QED BY <1>1, <1>3, <3>1
  <2> QED BY <2>1, <2>2, <2>3 DEF OwnAt
<1> QED BY <1>2, <1>3 DEF Private

(* Who makes a call, or the next step of one, is alone.                    *)
LEMMA CallAlone ==
  ASSUME ~Concurrent, NEW d \in Device
  PROVE  /\ \A q : Call(d, q) => Idle(d)
         /\ Private /\ todo[d] # <<>> => Idle(d)
BY DEF Call, Idle, Private, Alone

(* No step of these lists takes a link down.                               *)
LEMMA NoDeinit ==
  /\ \A x : ~Has(<<>>, x)
  /\ \A x, y : Has(<<y>>, x) <=> x = y
  /\ \A x, y, z : Has(<<y, z>>, x) <=> x = y \/ x = z
  /\ \A x, y, z, u : Has(<<y, z, u>>, x) <=> x = y \/ x = z \/ x = u
<1>1. \A x : ~Has(<<>>, x)
  BY DEF Has
<1>2. \A y : DOMAIN <<y>> = {1} /\ <<y>>[1] = y
  OBVIOUS
<1>3. \A y, z : DOMAIN <<y, z>> = {1, 2} /\ <<y, z>>[1] = y /\ <<y, z>>[2] = z
  OBVIOUS
<1>4. \A y, z, u : /\ DOMAIN <<y, z, u>> = {1, 2, 3} /\ <<y, z, u>>[1] = y
                   /\ <<y, z, u>>[2] = z /\ <<y, z, u>>[3] = u
  OBVIOUS
<1>5. \A x, y : Has(<<y>>, x) <=> x = y
  BY <1>2 DEF Has
<1>6. \A x, y, z : Has(<<y, z>>, x) <=> x = y \/ x = z
  BY <1>3 DEF Has
<1>7. \A x, y, z, u : Has(<<y, z, u>>, x) <=> x = y \/ x = z \/ x = u
  BY <1>4 DEF Has
<1> QED BY <1>1, <1>5, <1>6, <1>7

(* A list that begins neither with a hello nor with a deinit is no         *)
(* greeting.                                                               *)
LEMMA NotGreeting ==
  /\ <<>> \notin Greetings
  /\ <<Do("free", "desc")>> \notin Greetings
  /\ <<Do("free", "transport"), Do("free", "desc")>> \notin Greetings
  /\ <<Do("socket", "cmd"), Do("hello", "cmd")>> \notin Greetings
  /\ <<Do("alloc", "transport"), Do("socket", "cmd"), Do("hello", "cmd")>> \notin Greetings
<1>1. \A q \in Greetings : q # <<>> /\ Head(q) \in {Do("hello", "cmd"), Do("deinit", "cmd")}
  BY Lists DEF Greetings, HelloFailsSteps
<1>2. \A s, x : Do(s, x) \in {Do("hello", "cmd"), Do("deinit", "cmd")} => s \in {"hello", "deinit"}
  BY DoStep
<1>3. <<>> \notin Greetings
  BY <1>1
<1>4. <<Do("free", "desc")>> \notin Greetings
  BY <1>1, <1>2, Lists
<1>5. <<Do("free", "transport"), Do("free", "desc")>> \notin Greetings
  BY <1>1, <1>2, Lists
<1>6. <<Do("socket", "cmd"), Do("hello", "cmd")>> \notin Greetings
  BY <1>1, <1>2, Lists
<1>7. <<Do("alloc", "transport"), Do("socket", "cmd"), Do("hello", "cmd")>> \notin Greetings
  BY <1>1, <1>2, Lists
<1> QED BY <1>3, <1>4, <1>5, <1>6, <1>7

(* An open takes nothing down.                                             *)
LEMMA OpenOwn ==
  ASSUME ~Concurrent, TypeOK, Place, Known, Private, NEW d \in Device, Open(d)
  PROVE  Spares(d) /\ Idle(d) /\ OwnAt(d)'
<1>1. UNCHANGED owner /\ Idle(d)
  BY CallAlone DEF Open
<1>2. /\ todo'[d] = <<Do("alloc", "transport"), Do("socket", "cmd"), Do("hello", "cmd")>>
      /\ status'[d] = {}
  BY DEF Open, Call, TypeOK
<1>3. ~Greeting(d)'
  BY <1>2, NotGreeting DEF Greeting
<1>4. \A p : ~Has(todo'[d], Do("deinit", p))
  <2>1. \A p : /\ Do("deinit", p) # Do("alloc", "transport") /\ Do("deinit", p) # Do("socket", "cmd")
               /\ Do("deinit", p) # Do("hello", "cmd")
    BY DoStep
  <2> QED BY <1>2, <2>1, NoDeinit
<1> QED BY <1>1, <1>2, <1>3, <1>4 DEF Spares, OwnAt

(* A call takes down only links that are enabled.                          *)
LEMMA CallOwn ==
  ASSUME ~Concurrent, TypeOK, Place, Private, NEW d \in Device, NEW q, IsOpen(d), Call(d, q),
         UNCHANGED <<status, sock, owner, heap>>,
         \A p \in DataPort : Has(q, Do("deinit", p)) => p \in status[d]
  PROVE  Spares(d) /\ Idle(d) /\ OwnAt(d)'
<1>1. Idle(d) /\ todo[d] = <<>> /\ todo'[d] = q
  BY CallAlone DEF Call, TypeOK
<1>2. "cmd" \in status[d]
  BY <1>1, AtRest DEF Place
<1> QED BY <1>1, <1>2 DEF Spares, OwnAt, Private, Greeting

(* An enable takes nothing down.                                           *)
LEMMA EnableOwn ==
  ASSUME ~Concurrent, TypeOK, NoDoubleFree, Place, Private, NEW d \in Device,
         NEW p \in DataPort, Enable(d, p)
  PROVE  Spares(d) /\ Idle(d) /\ OwnAt(d)'
<1>1. IsOpen(d) /\ UNCHANGED <<status, sock, owner, heap>>
  BY DEF Enable
<1>2. PICK r \in {<<Do("check", "rx"), Do("send", "rx")>>, <<Do("send", "tx")>>, <<>>} :
        Call(d, EnableSteps(d, p) \o r)
  BY DEF Enable
<1>3. PICK a : a = EnableSteps(d, p)
  OBVIOUS
<1>4. /\ \A x, y : Do("deinit", x) # Do("check", y) /\ Do("deinit", x) # Do("send", y)
      /\ \A x, y : Do("deinit", x) # Do("connect", y) /\ Do("deinit", x) # Do("alloc", y)
  BY DoStep
<1>5. a \in Seq(Step) /\ \A x : ~Has(a, Do("deinit", x))
  <2>1. a \in {<<>>, <<Do("connect", p)>>, <<Do("connect", p), Do("alloc", p)>>}
    <3>1. /\ <<Do("connect", p)>> \o <<>> = <<Do("connect", p)>>
          /\ <<Do("connect", p)>> \o <<Do("alloc", p)>> = <<Do("connect", p), Do("alloc", p)>>
      BY RequestIs, Pair
    <3> QED BY <1>3, <3>1 DEF EnableSteps
  <2>2. \A x : ~Has(a, Do("deinit", x))
    BY <1>4, <2>1, NoDeinit
  <2>3. a \in Seq(Step)
    <3>1. \A x, y \in Step : <<x>> \in Seq(Step) /\ <<x, y>> \in Seq(Step)
      OBVIOUS
    <3> QED BY <2>1, <3>1, RequestIs, StepLists
  <2> QED BY <2>2, <2>3
<1>6. r \in Seq(Step) /\ \A x : ~Has(r, Do("deinit", x))
  <2>1. \A x : ~Has(r, Do("deinit", x))
    BY <1>2, <1>4, NoDeinit
  <2>2. r \in Seq(Step)
    <3>1. \A x, y \in Step : <<x>> \in Seq(Step) /\ <<x, y>> \in Seq(Step)
      OBVIOUS
    <3>2. Do("check", "rx") \in Step /\ Do("send", "rx") \in Step /\ Do("send", "tx") \in Step
      BY DoStep DEF Port, DataPort
    <3> QED BY <1>2, <3>1, <3>2, StepLists
  <2> QED BY <2>1, <2>2
<1>7. PICK q : q = a \o r
  OBVIOUS
<1>8. \A x : ~Has(q, Do("deinit", x))
  BY <1>5, <1>6, <1>7, HasConcat
<1>9. Call(d, q)
  BY <1>2, <1>3, <1>7
<1> QED BY <1>1, <1>8, <1>9, CallOwn

(* A disable takes down the link only when it is enabled.                  *)
LEMMA DisableOwn ==
  ASSUME ~Concurrent, TypeOK, NoDoubleFree, Place, Private, NEW d \in Device,
         NEW p \in DataPort, Disable(d, p)
  PROVE  Spares(d) /\ Idle(d) /\ OwnAt(d)'
<1>1. /\ IsOpen(d) /\ UNCHANGED <<status, sock, owner, heap>>
      /\ Call(d, DisableSteps(d, p))
  BY DEF Disable
<1>2. \A s : Has(DisableSteps(d, p), Do("deinit", s)) => s \in status[d]
  BY DownSteps, DoStep
<1> QED BY <1>1, <1>2, CallOwn

(* A close takes down only links that are enabled.                         *)
LEMMA CloseOwn ==
  ASSUME ~Concurrent, TypeOK, NoDoubleFree, Place, Private, NEW d \in Device, Close(d)
  PROVE  Spares(d) /\ Idle(d) /\ OwnAt(d)'
<1>1. IsOpen(d) /\ UNCHANGED <<status, sock, owner, heap>> /\ Call(d, CloseSteps(d))
  BY DEF Close
<1>2. PICK dr, dt, ft, fr : /\ dr = DisableSteps(d, "rx") /\ dt = DisableSteps(d, "tx")
                            /\ ft = FreeSteps(d, "tx") /\ fr = FreeSteps(d, "rx")
  OBVIOUS
<1>3. Early \subseteq Step
  BY DoStep DEF Early, Port
<1>4. /\ dr \in Seq(Step) /\ dt \in Seq(Step) /\ ft \in Seq(Step) /\ fr \in Seq(Step)
      /\ \A x : Has(dr, x) <=> x = Do("deinit", "rx") /\ "rx" \in status[d]
      /\ \A x : Has(dt, x) <=> x = Do("deinit", "tx") /\ "tx" \in status[d]
      /\ \A x : Has(ft, x) <=> x = Do("free", "tx") /\ heap[d]["tx"] = "live"
      /\ \A x : Has(fr, x) <=> x = Do("free", "rx") /\ heap[d]["rx"] = "live"
  <2>1. \A p \in {"rx", "tx"} : DisableSteps(d, p) \in Seq(Step) /\ FreeSteps(d, p) \in Seq(Step)
    BY <1>3, DownSteps DEF DataPort
  <2> QED BY <1>2, <2>1, DownSteps DEF DataPort
<1>5. PICK a : a = dr \o dt
  OBVIOUS
<1>6. PICK b : b = a \o ft
  OBVIOUS
<1>7. PICK c : c = b \o fr
  OBVIOUS
<1>8. PICK q : q = c \o HelloFailsSteps
  OBVIOUS
<1>9. a \in Seq(Step) /\ b \in Seq(Step) /\ c \in Seq(Step) /\ HelloFailsSteps \in Seq(Step)
  BY <1>4, <1>5, <1>6, <1>7, ConcatProperties, StepLists
<1>10. \A x : Has(a, x) <=> Has(dr, x) \/ Has(dt, x)
  BY <1>4, <1>5, HasConcat
<1>11. \A x : Has(b, x) <=> Has(a, x) \/ Has(ft, x)
  BY <1>4, <1>6, <1>9, HasConcat
<1>12. \A x : Has(c, x) <=> Has(b, x) \/ Has(fr, x)
  BY <1>4, <1>7, <1>9, HasConcat
<1>13. \A x : Has(q, x) <=> Has(c, x) \/ Has(HelloFailsSteps, x)
  BY <1>8, <1>9, HasConcat
<1>14. \A x : Has(HelloFailsSteps, x) <=> x = Do("deinit", "cmd") \/ x = Do("free", "desc")
  BY NoDeinit DEF HelloFailsSteps
<1>15. ASSUME NEW p \in DataPort, Has(q, Do("deinit", p)) PROVE p \in status[d]
  <2>1. /\ Do("deinit", p) # Do("deinit", "cmd")
        /\ \A x : Do("deinit", p) # Do("free", x)
        /\ \A x : Do("deinit", p) = Do("deinit", x) <=> x = p
    BY DoStep DEF DataPort
  <2> QED BY <1>4, <1>10, <1>11, <1>12, <1>13, <1>14, <1>15, <2>1
<1>16. Call(d, q)
  BY <1>1, <1>2, <1>5, <1>6, <1>7, <1>8 DEF CloseSteps, HelloFailsSteps
<1> QED BY <1>1, <1>15, <1>16, CallOwn

(* A step that leaves sockets and status alone and takes no more links     *)
(* down than it had to.                                                    *)
LEMMA OwnSame ==
  ASSUME Private, NEW d \in Device, sock'[d] = sock[d], status'[d] = status[d], UNCHANGED owner,
         "cmd" \in status[d] \/ todo'[d] \notin Greetings,
         \A p \in DataPort : Has(todo'[d], Do("deinit", p)) =>
           p \in status[d] \/ Has(todo[d], Do("deinit", p))
  PROVE  Spares(d) /\ OwnAt(d)'
BY DEF Private, OwnAt, Spares, Greeting

(* Taking the next step adds none.                                         *)
LEMMA RestHas ==
  ASSUME TypeOK, NEW d \in Device, todo[d] # <<>>, Rest(d)
  PROVE  \A x : Has(todo'[d], x) => Has(todo[d], x)
<1>1. PICK q \in Seq(Step) : q = todo[d] /\ q # <<>> /\ todo'[d] = Tail(q)
  BY DEF TypeOK, Rest, Then
<1> QED BY <1>1, HasTail

(* A failed allocation takes down the link that was just connected.        *)
LEMMA AllocOwn ==
  ASSUME ~Concurrent, TypeOK, Place, Private, NEW d \in Device, Alloc(d)
  PROVE  Spares(d) /\ Idle(d) /\ OwnAt(d)'
<1>1. UNCHANGED <<status, sock, owner>> /\ Doing(d, "alloc") /\ todo[d] # <<>> /\ Here(d)
  BY DEF Alloc, Doing, Place
<1>2. Idle(d)
  BY <1>1, CallAlone
<1>3. \/ Opening(d) /\ On(d) = "transport" /\ Left(d, <<Do("socket", "cmd"), Do("hello", "cmd")>>)
      \/ \E p \in DataPort : Working(d) /\ p \in status[d] /\ On(d) = p
  BY <1>1, OpenStep
<1>4. CASE Rest(d)
  <2>1. "cmd" \in status[d] \/ todo'[d] \notin Greetings
    <3>1. CASE Left(d, <<Do("socket", "cmd"), Do("hello", "cmd")>>)
      <4>1. todo'[d] = <<Do("socket", "cmd"), Do("hello", "cmd")>>
        BY <1>4, <3>1, RestIs
      <4> QED BY <4>1, NotGreeting
    <3>2. CASE Working(d)
      BY <3>2 DEF Working
    <3> QED BY <1>3, <3>1, <3>2
  <2> QED BY <1>1, <1>2, <1>4, <2>1, OwnSame, RestHas
<1>5. CASE Then(d, <<IF On(d) = "transport" THEN Do("free", "desc") ELSE Do("deinit", On(d))>>)
  <2>1. CASE On(d) = "transport"
    <3>1. todo'[d] = <<Do("free", "desc")>>
      BY <1>5, <2>1, StepAt
    <3>2. \A p : ~Has(todo'[d], Do("deinit", p))
      BY <3>1, NoDeinit, DoStep
    <3>3. todo'[d] \notin Greetings
      BY <3>1, NotGreeting
    <3> QED BY <1>1, <1>2, <3>2, <3>3, OwnSame
  <2>2. ASSUME NEW p \in DataPort, Working(d), p \in status[d], On(d) = p
        PROVE  Spares(d) /\ OwnAt(d)'
    <3>1. todo'[d] = <<Do("deinit", p)>>
      BY <1>5, <2>2, StepAt DEF DataPort
    <3>2. \A s : Has(todo'[d], Do("deinit", s)) => s = p
      BY <3>1, NoDeinit, DoStep
    <3>3. "cmd" \in status[d]
      BY <2>2 DEF Working
    <3> QED BY <1>1, <2>2, <3>2, <3>3, OwnSame
  <2> QED BY <1>2, <1>3, <2>1, <2>2
<1> QED BY <1>4, <1>5 DEF Alloc

(* Checking and sending change no socket.                                  *)
LEMMA CheckOwn ==
  ASSUME ~Concurrent, TypeOK, Place, Private, NEW d \in Device, Check(d) \/ Send(d)
  PROVE  Spares(d) /\ Idle(d) /\ OwnAt(d)'
<1>1. /\ UNCHANGED <<status, sock, owner>> /\ todo[d] # <<>> /\ (Rest(d) \/ Then(d, <<>>))
      /\ "cmd" \in status[d]
  BY LinkStep DEF Check, Send, Doing, Place, Working
<1>2. Idle(d)
  BY <1>1, CallAlone
<1>3. \A x : Has(todo'[d], x) => Has(todo[d], x)
  <2>1. CASE Then(d, <<>>)
    BY <2>1, StepAt, NoDeinit
  <2> QED BY <1>1, <2>1, RestHas
<1> QED BY <1>1, <1>2, <1>3, OwnSame

(* Freeing memory changes no socket.                                       *)
LEMMA FreeOwn ==
  ASSUME ~Concurrent, TypeOK, Place, Private, NEW d \in Device, FreeStep(d)
  PROVE  Spares(d) /\ Idle(d) /\ OwnAt(d)'
<1>1. UNCHANGED <<status, sock, owner>> /\ todo[d] # <<>> /\ Rest(d) /\ Here(d)
  BY DEF FreeStep, Doing, Place
<1>2. Idle(d)
  BY <1>1, CallAlone
<1>3. Left(d, <<>>) \/ Left(d, <<Do("free", "desc")>>) \/ Closing(d)
  BY <1>1, CloseStep DEF FreeStep
<1>4. "cmd" \in status[d] \/ todo'[d] \notin Greetings
  <2>1. CASE Left(d, <<>>)
    <3>1. todo'[d] = <<>>
      BY <1>1, <2>1, RestIs
    <3> QED BY <3>1, NotGreeting
  <2>2. CASE Left(d, <<Do("free", "desc")>>)
    <3>1. todo'[d] = <<Do("free", "desc")>>
      BY <1>1, <2>2, RestIs
    <3> QED BY <3>1, NotGreeting
  <2>3. CASE Closing(d)
    BY <2>3 DEF Closing
  <2> QED BY <1>3, <2>1, <2>2, <2>3
<1> QED BY <1>1, <1>2, <1>4, OwnSame, RestHas

(* Opening a descriptor takes it from nobody.                              *)
LEMMA OpenSpares ==
  ASSUME TypeOK, NEW d \in Device, NEW f \in Fd, NEW x, OpenFd(f, d, x)
  PROVE  /\ Spares(d) /\ owner[f] = Free /\ owner'[f] = <<d, x>>
         /\ \A g \in Fd : g # f => owner'[g] = owner[g]
BY DEF OpenFd, TypeOK, Spares

(* The command socket is a descriptor nobody had.                          *)
LEMMA SocketOwn ==
  ASSUME ~Concurrent, TypeOK, Place, Private, NEW d \in Device, Socket(d)
  PROVE  Spares(d) /\ Idle(d) /\ OwnAt(d)'
<1>1. /\ status' = status /\ Doing(d, "socket") /\ todo[d] # <<>>
      /\ status[d] = {} /\ Left(d, <<Do("hello", "cmd")>>)
  BY OpenStep DEF Socket, Doing, Place, Opening
<1>2. Idle(d)
  BY <1>1, CallAlone
<1>3. ASSUME NEW f \in Fd, OpenFd(f, d, "cmd"), sock' = [sock EXCEPT ![d]["cmd"] = f], Rest(d)
      PROVE  Spares(d) /\ OwnAt(d)'
  <2>1. Spares(d) /\ owner'[f] = <<d, "cmd">>
    BY <1>3, OpenSpares
  <2>2. sock'[d]["cmd"] = f
    BY <1>3 DEF TypeOK, Port
  <2>3. todo'[d] = <<Do("hello", "cmd")>>
    BY <1>1, <1>3, RestIs
  <2>4. \A p : ~Has(todo'[d], Do("deinit", p))
    BY <2>3, NoDeinit, DoStep
  <2> QED BY <1>1, <2>1, <2>2, <2>4 DEF OwnAt
<1>4. ASSUME Then(d, <<Do("free", "transport"), Do("free", "desc")>>), UNCHANGED owner
      PROVE  Spares(d) /\ OwnAt(d)'
  <2>1. todo'[d] = <<Do("free", "transport"), Do("free", "desc")>>
    BY <1>4, StepAt
  <2>2. \A p : ~Has(todo'[d], Do("deinit", p))
    BY <2>1, NoDeinit, DoStep
  <2>3. todo'[d] \notin Greetings
    BY <2>1, NotGreeting
  <2> QED BY <1>1, <1>4, <2>2, <2>3 DEF OwnAt, Spares, Greeting
<1> QED BY <1>2, <1>3, <1>4 DEF Socket

(* The hello is sent on the device's own socket.                           *)
LEMMA HelloOwn ==
  ASSUME ~Concurrent, TypeOK, Place, Private, NEW d \in Device, Hello(d)
  PROVE  Spares(d) /\ Idle(d) /\ OwnAt(d)'
<1>1. /\ UNCHANGED <<sock, owner>> /\ todo[d] # <<>> /\ status[d] = {} /\ Greeting(d)
      /\ Left(d, <<>>)
  BY OpenStep DEF Hello, Doing, Place, Opening
<1>2. Idle(d)
  BY <1>1, CallAlone
<1>3. owner[sock[d]["cmd"]] = <<d, "cmd">> /\ Spares(d)
  BY <1>1 DEF Private, OwnAt, Spares
<1>4. \A p \in DataPort : ~Has(todo'[d], Do("deinit", p))
  <2>1. CASE Rest(d)
    <3>1. todo'[d] = <<>>
      BY <1>1, <2>1, RestIs
    <3> QED BY <3>1, NoDeinit
  <2>2. CASE Then(d, HelloFailsSteps)
    <3>1. todo'[d] = <<Do("deinit", "cmd"), Do("free", "desc")>>
      BY <2>2, StepAt DEF HelloFailsSteps
    <3>2. \A p \in DataPort : Do("deinit", p) # Do("deinit", "cmd") /\ Do("deinit", p) # Do("free", "desc")
      BY DoStep DEF DataPort
    <3> QED BY <3>1, <3>2, NoDeinit
  <2> QED BY <2>1, <2>2 DEF Hello
<1>5. status'[d] \subseteq {"cmd"}
  BY <1>1 DEF Hello, TypeOK
<1> QED BY <1>1, <1>2, <1>3, <1>4, <1>5 DEF OwnAt

(* A link is connected on a descriptor nobody had.                         *)
LEMMA ConnectOwn ==
  ASSUME ~Concurrent, TypeOK, NoDoubleFree, Place, Private, NEW d \in Device, Connect(d)
  PROVE  Spares(d) /\ Idle(d) /\ OwnAt(d)'
<1>1. Here(d) /\ todo[d] # <<>>
  BY DEF Place, Connect, Doing
<1>2. PICK p \in DataPort :
        /\ Working(d) /\ p \notin status[d] /\ On(d) = p
        /\ \E r \in {Request(p), <<>>} : Left(d, r) \/ Left(d, <<Do("alloc", p)>> \o r)
  BY <1>1, LinkStep DEF Connect
<1>3. p \in Port /\ "cmd" \in status[d]
  BY <1>2 DEF Working, Port
<1>4. \A f : sock' = [sock EXCEPT ![d][p] = f] =>
        sock'[d][p] = f /\ \A s \in Port : s # p => sock'[d][s] = sock[d][s]
  BY <1>3 DEF TypeOK
<1>5. \A s : s \in status[d] => s \in Port /\ s # p /\ sock[d][s] \in Fd /\ owner[sock[d][s]] = <<d, s>>
  BY <1>2 DEF Private, OwnAt, TypeOK
<1>6. ASSUME NEW f \in Fd, OpenFd(f, d, p), sock' = [sock EXCEPT ![d][p] = f],
             status' = [status EXCEPT ![d] = @ \cup {p}], Rest(d)
      PROVE  Spares(d) /\ OwnAt(d)'
  <2>1. /\ Spares(d) /\ owner[f] = Free /\ owner'[f] = <<d, p>>
        /\ \A g \in Fd : g # f => owner'[g] = owner[g]
    BY <1>6, OpenSpares
  <2>2. status'[d] = status[d] \cup {p}
    BY <1>6 DEF TypeOK
  <2>3. ASSUME NEW s \in Port, s \in status'[d] PROVE owner'[sock'[d][s]] = <<d, s>>
    <3>1. CASE s = p
      BY <1>4, <1>6, <2>1, <3>1
    <3>2. CASE s \in status[d]
      <4>1. s # p /\ sock'[d][s] = sock[d][s] /\ sock[d][s] \in Fd /\ owner[sock[d][s]] = <<d, s>>
        BY <1>4, <1>5, <1>6, <3>2
      <4>2. <<d, s>> # Free
        BY EthDeviceAssumption
      <4>3. sock[d][s] # f
        BY <2>1, <4>1, <4>2
      <4> QED BY <2>1, <4>1, <4>3
    <3> QED BY <2>2, <2>3, <3>1, <3>2
  <2>4. PICK r \in {Request(p), <<>>} : todo'[d] = r \/ todo'[d] = <<Do("alloc", p)>> \o r
    <3>1. PICK r \in {Request(p), <<>>} : Left(d, r) \/ Left(d, <<Do("alloc", p)>> \o r)
      BY <1>2
    <3>2. CASE Left(d, r)
      BY <1>6, <3>2, RestIs
    <3>3. CASE Left(d, <<Do("alloc", p)>> \o r)
      BY <1>6, <3>3, RestIs
    <3> QED BY <3>1, <3>2, <3>3
  <2>5. \A s : ~Has(todo'[d], Do("deinit", s))
    <3>1. /\ \A x, y : Do("deinit", x) # Do("check", y) /\ Do("deinit", x) # Do("send", y)
          /\ \A x, y : Do("deinit", x) # Do("alloc", y)
      BY DoStep
    <3>2. r \in Seq(Step) /\ \A s : ~Has(r, Do("deinit", s))
      <4>1. Request(p) \in {<<Do("check", p), Do("send", p)>>, <<Do("send", p)>>}
        BY RequestIs
      <4>2. \A s : ~Has(Request(p), Do("deinit", s))
        BY <3>1, <4>1, NoDeinit
      <4>3. CASE r = Request(p)
        BY <4>2, <4>3, RequestIs
      <4>4. CASE r = <<>>
        BY <4>4, StepLists, NoDeinit
      <4> QED BY <4>3, <4>4
    <3>3. <<Do("alloc", p)>> \in Seq(Step) /\ \A s : ~Has(<<Do("alloc", p)>>, Do("deinit", s))
      <4>1. Do("alloc", p) \in Step
        BY RequestIs
      <4> QED BY <3>1, <4>1, NoDeinit
    <3>4. \A s : ~Has(<<Do("alloc", p)>> \o r, Do("deinit", s))
      BY <3>2, <3>3, HasConcat
    <3> QED BY <2>4, <3>2, <3>4
  <2> QED BY <1>3, <2>1, <2>2, <2>3, <2>5 DEF OwnAt, Greeting
<1>7. ASSUME ConnectFails(d), UNCHANGED owner \/ \E f \in Fd : OpenFd(f, d, "lost")
      PROVE  Spares(d) /\ OwnAt(d)'
  <2>1. /\ sock' = [sock EXCEPT ![d][p] = NoSocket] /\ status' = status /\ todo'[d] = <<>>
    BY <1>2, <1>7, StepAt DEF ConnectFails
  <2>2. Spares(d) /\ \A g \in Fd, s \in Port : owner[g] = <<d, s>> => owner'[g] = owner[g]
    <3>1. CASE UNCHANGED owner
      BY <3>1 DEF Spares
    <3>2. ASSUME NEW f \in Fd, OpenFd(f, d, "lost")
          PROVE  Spares(d) /\ \A g \in Fd, s \in Port : owner[g] = <<d, s>> => owner'[g] = owner[g]
      <4>1. /\ Spares(d) /\ owner[f] = Free /\ \A g \in Fd : g # f => owner'[g] = owner[g]
        BY <3>2, OpenSpares
      <4>2. \A s \in Port : <<d, s>> # Free
        BY EthDeviceAssumption
      <4> QED BY <4>1, <4>2
    <3> QED BY <1>7, <3>1, <3>2
  <2>3. ASSUME NEW s \in Port, s \in status'[d] PROVE owner'[sock'[d][s]] = <<d, s>>
    <3>1. s # p /\ sock'[d][s] = sock[d][s] /\ sock[d][s] \in Fd /\ owner[sock[d][s]] = <<d, s>>
      BY <1>4, <1>5, <2>1, <2>3
    <3> QED BY <2>2, <3>1
  <2>4. \A x : ~Has(todo'[d], x)
    BY <2>1, NoDeinit
  <2> QED BY <1>3, <2>1, <2>2, <2>3, <2>4 DEF OwnAt, Greeting
<1>8. Idle(d)
  BY <1>1, CallAlone
<1> QED BY <1>2, <1>6, <1>7, <1>8 DEF Connect

(* What is closed is the port's own descriptor or one nobody has.          *)
LEMMA DeinitOwn ==
  ASSUME ~Concurrent, TypeOK, NoDoubleFree, Place, Private, NEW d \in Device, Deinit(d)
  PROVE  Spares(d) /\ Idle(d) /\ OwnAt(d)'
<1>1. /\ Here(d) /\ Rest(d) /\ todo[d] # <<>> /\ Doing(d, "deinit") /\ Idle(d) /\ sock' = sock
      /\ owner' = IF sock[d][On(d)] \in Fd THEN [owner EXCEPT ![sock[d][On(d)]] = Free] ELSE owner
  BY CallAlone DEF Place, Deinit, Doing
<1>2. status'[d] = status[d] \ {On(d)}
  BY DEF Deinit, TypeOK
<1>3. On(d) \in Port
  BY <1>1, CloseStep DEF Port
<1>4. PICK h : h = sock[d][On(d)]
  OBVIOUS
<1>5. /\ h \in Fd => owner'[h] = Free
      /\ \A f \in Fd : f # h => owner'[f] = owner[f]
  BY <1>1, <1>4 DEF TypeOK
(* What is closed was its own, or nobody's.                                *)
<1>6. h \in Fd => owner[h] = <<d, On(d)>> \/ owner[h] = Free
  <2>1. CASE On(d) \in status[d]
    BY <1>3, <1>4, <2>1 DEF Private, OwnAt
  <2>2. CASE Greeting(d)
    <3>1. On(d) = "cmd"
      BY <2>2, GreetingFirst
    <3> QED BY <1>4, <2>2, <3>1 DEF Private, OwnAt
  <2>3. CASE On(d) \in DataPort /\ On(d) \notin status[d]
    <3>1. Has(todo[d], Do("deinit", On(d)))
      <4>1. PICK q \in Seq(Step) : q = todo[d] /\ q # <<>>
        BY <1>1 DEF TypeOK
      <4>2. Head(q) = Do("deinit", On(d))
        <5>1. Head(q) \in Step /\ Head(q).do = "deinit" /\ Head(q).on = On(d)
          BY <1>1, <4>1, HeadTailProperties DEF Doing, On
        <5> QED BY <5>1 DEF Step, Do
      <4> QED BY <4>1, <4>2, HasTail
    <3> QED BY <1>4, <2>3, <3>1 DEF Private, OwnAt
  <2>4. CASE Closing(d) /\ On(d) = "cmd"
    <3>1. "cmd" \in status[d]
      BY <2>4 DEF Closing
    <3> QED BY <2>1, <2>4, <3>1
  <2> QED BY <1>1, <2>1, <2>2, <2>3, <2>4, CloseStep
<1>7. Spares(d)
  BY <1>3, <1>5, <1>6 DEF Spares
<1>8. ASSUME NEW s \in Port, s \in status'[d] PROVE owner'[sock'[d][s]] = <<d, s>>
  <2>1. s # On(d) /\ owner[sock[d][s]] = <<d, s>> /\ sock[d][s] \in Fd
    BY <1>2, <1>8 DEF Private, OwnAt, TypeOK
  <2>2. <<d, s>> # Free /\ <<d, s>> # <<d, On(d)>>
    BY <2>1, EthDeviceAssumption
  <2>3. sock[d][s] # h
    BY <1>6, <2>1, <2>2
  <2> QED BY <1>1, <1>5, <2>1, <2>3
<1>9. ~Greeting(d)'
  <2>1. CASE Left(d, <<Do("free", "desc")>>)
    <3>1. todo'[d] = <<Do("free", "desc")>>
      BY <1>1, <2>1, RestIs
    <3> QED BY <3>1, NotGreeting DEF Greeting
  <2>2. CASE On(d) \in DataPort /\ "cmd" \in status[d]
    BY <1>2, <2>2 DEF Greeting, DataPort
  <2> QED BY <1>1, <2>1, <2>2, CloseStep DEF Working, Closing
<1>10. ASSUME NEW p \in DataPort, Has(todo'[d], Do("deinit", p)), p \notin status'[d]
       PROVE  sock'[d][p] \notin Fd \/ owner'[sock'[d][p]] = Free
  <2>1. CASE p = On(d)
    BY <1>1, <1>4, <1>5, <2>1
  <2>2. CASE p # On(d)
    <3>1. p \notin status[d] /\ Has(todo[d], Do("deinit", p))
      BY <1>1, <1>2, <1>10, <2>2, RestHas
    <3>2. sock[d][p] \notin Fd \/ owner[sock[d][p]] = Free
      BY <3>1 DEF Private, OwnAt
    <3> QED BY <1>1, <1>5, <3>2
  <2> QED BY <2>1, <2>2
<1> QED BY <1>1, <1>7, <1>8, <1>9, <1>10 DEF OwnAt

-----------------------------------------------------------------------------
(* The invariant.                                                          *)

(* Descriptors belong to devices or to nobody.                             *)
LEMMA OwnerType ==
  ASSUME TypeOK, Place, NEW d \in Device,
         UNCHANGED owner \/ Socket(d) \/ Connect(d) \/ Deinit(d)
  PROVE  owner' \in [Fd -> (Device \X (Port \cup {"lost"})) \cup {Free}]
<1>1. \A f \in Fd, x \in Port \cup {"lost"} : OpenFd(f, d, x) =>
        owner' \in [Fd -> (Device \X (Port \cup {"lost"})) \cup {Free}]
  BY DEF OpenFd, TypeOK
<1>2. CASE UNCHANGED owner
  BY <1>2 DEF TypeOK
<1>3. CASE Socket(d)
  <2>1. "cmd" \in Port
    BY DEF Port
  <2> QED BY <1>1, <1>2, <1>3, <2>1 DEF Socket
<1>4. CASE Connect(d)
  <2>1. On(d) \in Port
    BY <1>4, LinkStep DEF Connect, Place, Port
  <2> QED BY <1>1, <1>2, <1>4, <2>1 DEF Connect
<1>5. CASE Deinit(d)
  BY <1>5 DEF Deinit, TypeOK
<1> QED BY <1>2, <1>3, <1>4, <1>5

(* What is left to show of a step of one device.                           *)
LEMMA DeviceStep ==
  ASSUME IInv, NEW d \in Device, OnlyAt(d), Fine(d)', Here(d)', Moves(d), KnownAt(d)',
         owner' \in [Fd -> (Device \X (Port \cup {"lost"})) \cup {Free}],
         ~Concurrent => Spares(d) /\ Idle(d) /\ OwnAt(d)'
  PROVE  IInv'
<1>1. TypeOK' /\ NoDoubleFree' /\ Place'
  BY StaysFine DEF IInv
<1>2. Known'
  BY KnownElsewhere DEF IInv
<1>3. ~Concurrent => Private'
  BY PrivateElsewhere DEF IInv
<1> QED BY <1>1, <1>2, <1>3 DEF IInv

(* Every device is closed at first, and nothing is open.                   *)
LEMMA InvInit == Init => IInv
<1> SUFFICES ASSUME Init PROVE IInv
  OBVIOUS
<1>1. /\ todo = [d \in Device |-> <<>>] /\ status = [d \in Device |-> {}]
      /\ owner = [f \in Fd |-> Free]
  BY DEF Init
<1>2. TypeOK /\ NoDoubleFree
  <2>1. <<>> \in Seq(Step)
    BY StepLists
  <2> QED BY <2>1 DEF Init, TypeOK, NoDoubleFree
<1>3. Place
  BY DEF Init, Place, Here, Closed
<1>4. Known
  BY <1>1, EthDeviceAssumption DEF Known, KnownAt
<1>5. Private
  <2>1. \A d \in Device : ~Greeting(d) /\ \A x : ~Has(todo[d], x)
    BY <1>1, NotGreeting, NoDeinit DEF Greeting
  <2> QED BY <1>1, <2>1 DEF Private, Alone, OwnAt
<1> QED BY <1>2, <1>3, <1>4, <1>5 DEF IInv

(* Every step keeps the invariant.                                         *)
LEMMA InvNext == IInv /\ [Next]_vars => IInv'
<1> SUFFICES ASSUME IInv, [Next]_vars PROVE IInv'
  OBVIOUS
<1>1. /\ TypeOK /\ NoDoubleFree /\ Place /\ Known /\ (~Concurrent => Private)
  BY DEF IInv
<1>2. CASE UNCHANGED vars
  <2>1. TypeOK' /\ NoDoubleFree'
    BY <1>1, <1>2 DEF vars, TypeOK, NoDoubleFree
  <2>2. Place'
    <3>1. ASSUME NEW d \in Device PROVE Here(d)'
      <4>1. Closed(d) => Closed(d)'
        BY <1>2 DEF vars, Closed
      <4>2. Opening(d) => Opening(d)'
        BY <1>2 DEF vars, Opening, IsOpen
      <4>3. Working(d) => Working(d)'
        BY <1>2 DEF vars, Working, IsOpen
      <4>4. Closing(d) => Closing(d)'
        BY <1>2 DEF vars, Closing, EarlyLeft, IsOpen
      <4> QED BY <1>1, <4>1, <4>2, <4>3, <4>4 DEF Place, Here
    <3> QED BY <3>1 DEF Place
  <2>3. Known'
    BY <1>1, <1>2 DEF vars, Known, KnownAt, Greeting
  <2>4. ~Concurrent => Private'
    BY <1>1, <1>2 DEF vars, Private, Alone, OwnAt, Greeting
  <2> QED BY <2>1, <2>2, <2>3, <2>4 DEF IInv
<1>3. ASSUME NEW d \in Device, Open(d) PROVE IInv'
  <2>1. UNCHANGED owner
    BY <1>3 DEF Open
  <2> QED BY <1>1, <1>3, <2>1, OpenPlace, OpenKnown, OpenOwn, OwnerType, DeviceStep
<1>4. ASSUME NEW d \in Device, Close(d) PROVE IInv'
  <2>1. UNCHANGED owner
    BY <1>4 DEF Close
  <2> QED BY <1>1, <1>4, <2>1, ClosePlace, CallKnown, CloseOwn, OwnerType, DeviceStep
<1>5. ASSUME NEW d \in Device, NEW p \in DataPort, Enable(d, p) PROVE IInv'
  <2>1. UNCHANGED owner
    BY <1>5 DEF Enable
  <2> QED BY <1>1, <1>5, <2>1, EnablePlace, CallKnown, EnableOwn, OwnerType, DeviceStep
<1>6. ASSUME NEW d \in Device, NEW p \in DataPort, Disable(d, p) PROVE IInv'
  <2>1. UNCHANGED owner
    BY <1>6 DEF Disable
  <2> QED BY <1>1, <1>6, <2>1, DisablePlace, CallKnown, DisableOwn, OwnerType, DeviceStep
<1>7. ASSUME NEW d \in Device, Alloc(d) PROVE IInv'
  BY <1>1, <1>7, AllocPlace, QuietKnown, AllocOwn, OwnerType, DeviceStep
<1>8. ASSUME NEW d \in Device, Socket(d) PROVE IInv'
  BY <1>1, <1>8, SocketPlace, SocketKnown, SocketOwn, OwnerType, DeviceStep
<1>9. ASSUME NEW d \in Device, Hello(d) PROVE IInv'
  BY <1>1, <1>9, HelloPlace, HelloKnown, HelloOwn, OwnerType, DeviceStep
<1>10. ASSUME NEW d \in Device, Connect(d) PROVE IInv'
  BY <1>1, <1>10, ConnectPlace, ConnectKnown, ConnectOwn, OwnerType, DeviceStep
<1>11. ASSUME NEW d \in Device, Check(d) \/ Send(d) PROVE IInv'
  BY <1>1, <1>11, CheckPlace, QuietKnown, CheckOwn, OwnerType, DeviceStep
<1>12. ASSUME NEW d \in Device, Deinit(d) PROVE IInv'
  BY <1>1, <1>12, DeinitPlace, DeinitKnown, DeinitOwn, OwnerType, DeviceStep
<1>13. ASSUME NEW d \in Device, FreeStep(d) PROVE IInv'
  BY <1>1, <1>13, FreePlace, QuietKnown, FreeOwn, OwnerType, DeviceStep
<1> QED BY <1>2, <1>3, <1>4, <1>5, <1>6, <1>7, <1>8, <1>9, <1>10, <1>11, <1>12, <1>13 DEF Next

(* The invariant holds in every behaviour.                                 *)
LEMMA InvHolds == Spec => []IInv
BY InvInit, InvNext, PTL DEF Spec

(* Every list of steps, status word, socket and block stays in its type,   *)
(* and a link is enabled only on a connected device and with a socket.     *)
THEOREM EthDeviceTypeOK == Spec => []TypeOK
<1>1. IInv => TypeOK
  BY DEF IInv
<1> QED BY <1>1, InvHolds, PTL

(* No sequence of open, enable, disable and close, whichever of their      *)
(* steps fail and however calls on different devices interleave, frees a   *)
(* descriptor, a transport or a frame buffer that is not allocated.        *)
THEOREM EthNoDoubleFree == Spec => []NoDoubleFree
<1>1. IInv => NoDoubleFree
  BY DEF IInv
<1> QED BY <1>1, InvHolds, PTL

(* However it was opened and used, and whatever failed, a device that is   *)
(* closed or whose open has failed holds no memory, and no descriptor but  *)
(* those yunsdr_init_data_socket forgets when connect fails.               *)
THEOREM EthNothingLeft == Spec => []NothingLeft
<1>1. IInv => NothingLeft
  <2> SUFFICES ASSUME IInv, NEW d \in Device, ~IsOpen(d), todo[d] = <<>>
               PROVE  /\ \A b \in Block : heap[d][b] # "live"
                      /\ \A f \in Fd : owner[f] # Free /\ owner[f][1] = d => owner[f][2] = "lost"
    BY DEF NothingLeft
  <2>1. Closed(d)
    BY DEF IInv, Place, Here, Opening, Working, Closing
  <2>2. ASSUME NEW f \in Fd, owner[f] # Free, owner[f][1] = d PROVE owner[f][2] = "lost"
    <3>1. PICK e \in Device, x \in Port \cup {"lost"} : owner[f] = <<e, x>>
      BY <2>2 DEF IInv, TypeOK
    <3>2. e = d /\ owner[f][2] = x
      BY <2>2, <3>1
    <3>3. ~Greeting(d)
      BY GreetingFirst
    <3>4. x \notin Port
      BY <2>1, <3>1, <3>2, <3>3 DEF IInv, Known, KnownAt, Closed
    <3> QED BY <3>1, <3>2, <3>4
  <2> QED BY <2>1, <2>2 DEF Closed
<1> QED BY <1>1, InvHolds, PTL

(* When calls do not overlap, a port whose status bit is set has an open   *)
(* socket that this port opened: the second close() of yunsdr_disable_rx   *)
(* and _tx never reaches the socket of another link, with any number of    *)
(* devices and descriptors and whatever fails.                             *)
THEOREM EthSocketsOwned ==
  ASSUME ~Concurrent
  PROVE  Spec => []SocketsOwned
<1>1. IInv => SocketsOwned
  BY DEF IInv, Private, OwnAt, SocketsOwned
<1> QED BY <1>1, InvHolds, PTL

=============================================================================
