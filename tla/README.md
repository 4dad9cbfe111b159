# A verification development for libyunsdr

libyunsdr is the host library of the YunSDR software-defined radios. The repository holds two
libraries that share no code:

* `src/src/yunsdr_ss` (libyunsdr_ss): boards on PCIe (through the RIFFA driver) or on SFP (UDP).
* `src/src/yunsdr` (libyunsdr): boards on gigabit Ethernet, with commands over UDP and samples over TCP.

Neither library starts a thread. Applications call it from several (the example programs under
`yunsdr_ss/tests` run a receive and a transmit thread and send commands beside them), so all that is
concurrent is: the application's threads inside library calls, the board, and the link between them.

This directory models the control of both libraries in TLA+, checks it with TLC on small instances and
proves some of it with TLAPS for all instances.

## 1. Inventory

### libyunsdr_ss

| part | state | operations | interacts with |
|---|---|---|---|
| API (`yunsdr_api_ss.c`) | the descriptor and its `trans`; for the process, `strtok`'s pointer and the static `devid` | open, close, about 50 `get`/`set` calls, channel correction, stream reads and writes, tick conversions | calls the transport through the function pointers of `YUNSDR_TRANSPORT` |
| transport (`transport.c`, `transport.h`) | frame buffers `rx_meta[4]`, `tx_meta[4]`, function pointers | allocation, choice of the interface, release | shared by all threads of a device |
| PCIe interface (`interface_pcie.c`) | RIFFA handle, number of channels | `cmd_send`, `cmd_send_then_recv`, three `stream_recv`, four `stream_send`, init, deinit | RIFFA channel 0 carries commands, replies and read requests; channels 1-4 carry frames |
| spinlock (`spinlock.c`) | one lock for the process | init, deinit, lock, unlock | taken by the PCIe commands and single-port reads, not by the multi-port read |
| SFP interface (`interface_sfp.c`) | command socket, four stream sockets | as PCIe, three `stream_send` | UDP; no lock anywhere |

### libyunsdr

| part | state | operations | interacts with |
|---|---|---|---|
| device life cycle | descriptor, status bits, three sockets, two frame buffers | open (with hello), enable and disable of the two data links, close | operating system: descriptors, memory |
| command channel | `cmd_sock` | sets (sent, never acknowledged), gets (3 s time-out), hello (five tries) | UDP |
| base band rate and FIR | none in the host | `yunsdr_set_bb_rate`, FIR configurations read from a file | a series of commands to the board |
| sample streams | `nbyte_per_frame`, one for the process; frame buffers | read, write | TCP |

### What is hard in it

* Commands share a channel, replies carry no sequence number, and no field of a reply is compared: a
  reply is "the answer" because it is the next thing on the channel. Whether that is right depends on the
  lock (PCIe), on one thread (SFP), on time-outs and on every early return.
* Failures return from the middle of a lock section, of a frame, of a multi-port call, of a series of commands.
* Frame buffers are shared between calls and between channels of one call.
* UDP loses and delays; time-outs give up on what may still come.
* Descriptors are closed twice and their numbers are given out again.

`PROJECT.json` lists each hazard at its line, with the properties that cover it or the reason why none does.

### What makes each part correct

* Command channels: exchanges do not overlap; an answer is the caller's own and true of the board; every call
  ends; register commands are atomic operations (`RegisterService`).
* Receive streams: a read that reports success has the frames of its own request, whole; it leaves nothing for
  the next; it ends.
* Transmit: a channel carries whole frames in the order of calls (`FrameLink`); an error leaves a prefix of a
  frame, never a mixture; success means the whole frame.
* Channel correction: a call makes the change its arguments name, once, at one instant, and nothing else does (`Correction`).
* Base band rate: at no instant a low rate without filters; enabled filters of both directions agree (both while no command
  is lost and no question given up too early); a call that succeeds ends with what it was asked for, whatever came before.
* Ethernet commands: stale answers are no more than time-outs; a get that no time-out preceded reads what was set
  before it; every call ends.
* Ethernet streams: a read returns one frame, from its header on; it ends unless the peer closed.
* Life cycle of an Ethernet device: an enabled link has its own socket; nothing is freed twice; a closed device leaves
  nothing.
* Life cycle of the other boards: a device talks to the board its own url names; every buffer, socket and handle has
  an owner or was lost in a failed open; the spinlock keeps out who must stay out.
* Times: a conversion gives the nearest tick or unit of time.

## 2. Modules

| module | models | abstract specification | proofs |
|---|---|---|---|
| `PcieLink` | `interface_pcie.c` commands and reads, `spinlock.c`, the FPGA behind RIFFA | `RegisterService` | `PcieLinkProofs` |
| `SfpLink` | `interface_sfp.c` commands | `RegisterService` | `SfpLinkProofs` |
| `SfpStream` | `interface_sfp.c` reads | | `SfpStreamProofs` |
| `BulkSend` | the seven `stream_send` functions | `FrameLink` | `BulkSendProofs` |
| `SsDevice` | open and close in `yunsdr_api_ss.c`, `transport.c`, the init and deinit of both interfaces, `spinlock.c` | | `SsDeviceProofs` |
| `ChannelCorr` | the channel correction of `yunsdr_api_ss.c`, over `SfpLink` | `Correction` | `SfpLinkProofs` |
| `TickTime` | the two conversions between ticks and times of `yunsdr_api_ss.c` | | `EthCallsProofs` |
| `EthDevice` | the life cycle in `yunsdr_api.c` | | `EthDeviceProofs` |
| `EthCommand` | sets, gets and the hello of `yunsdr_api.c` | | `EthCallsProofs` |
| `EthStream` | enable, read and disable of the receive streams of `yunsdr_api.c` | | `EthCallsProofs` |
| `BasebandRate` | `yunsdr_set_bb_rate` and its questions in `yunsdr_api.c` | | `BasebandRateProofs` |

`MC<module>` defines the small instances; the `.cfg` files name them. `PcieLink` and `SfpLink` implement the same
`RegisterService`: what the API above the transport may rely on. `ChannelCorr` extends `SfpLink`: its calls are made of
`SfpLink`'s exchanges, with every loss and error of theirs. `MCEthCalls` extends `EthCommand`, `EthStream`, `BasebandRate` and
`TickTime`, whose variables have different names, and runs the four side by side: the variable `use`, chosen at the start, says
which of them moves, so their states add up instead of multiplying. Streams and times share nothing with the rest.
`EthCommand` and `BasebandRate` are two programs that use the same kind of socket, `cmd_sock`: one program that does both is not
followed as a whole. In `BasebandRate` a call may find on the socket any answers its own earlier questions left. What a get
of `EthCommand` leaves there, a register's value, would be a wrong answer like one of those: the next call takes it for the
rate or the switch (the whole of it or its lowest byte).

The models keep all of the control: every guard, early return, order of steps and assignment that a later step
reads. They abstract the data: a register is a chip and a number, a sample buffer is the name of its contents and
its length in words, a message is a record. The variables carry the names of the code where TLA+ allows it.
Each operator's lines are listed under `map` in `PROJECT.json`. An operator whose comment begins with "Mutant:"
is not part of a model: it is a plausible mistake, put in place of the operator after it to show that a property
would notice.

### PcieLink

A call of thread `t` runs through `pc[t]`: `lock`, `send` (`fpga_send` on channel 0), `recv` (`fpga_recv` of the
reply), `unlock`; a stream read `lock`, `send`, `unlock`, then `fetch` (`fpga_recv` on the stream channel) and `copy`
per channel. `pcie_stream_recv3` skips `lock` and `unlock` as the code does. Each RIFFA call is one step and may end
in these ways besides success (`Faults`): a negative return or a zero (time-out with nothing transferred), each for
send and receive, and on the stream channels a positive return that is less than the frame (`recv_short`, `Delivery`), which the
code takes for success; all returns go where the code goes, the ones without `unlock()` included. The rest of a frame cut
short is dropped or is what the next read finds. Replies on channel 0, a few words, arrive whole. A multi-port read
with an empty mask sends its request and returns. `Device` is the FPGA: it answers messages of channel 0 in order. A frame is named by its channel and the time it was asked for.
The range check of `pcie_cmd_send_then_recv` (`cmd_id <= 28 && cmd_id >= 34`) never holds, so the model has none. Channel 0 passes the
checks of the single-port calls too (`channel >= num_of_channel`); callers name channels from 1 on, as the enumerations do.

Two threads that use the same stream channel, or `pcie_stream_recv3` in one and channel 1 in another, share
`rx_meta[0]` unprotected. The runs keep to one thread per channel and one owner of the first buffer, the way the
example programs use the library; `Streams` and `Modes` say who uses what.

### SfpLink and SfpStream

`select` and `recvfrom` are two steps, because between them another thread may take the datagram. The network is
three sequences: requests under way, replies under way, replies in the socket. `MayBeLate = FALSE` is the
assumption "a datagram that is not lost arrives within the time-out" (3 s for commands, 10 s for streams); it is
dropped in `sfp_late_reply` and `sfp_shared`. A multi-port read with an empty mask sends its request and returns.
In `SfpStream` the channels in `Faulty` may lose and delay datagrams and fail
in `recvfrom`; the others lose requests only. A frame is cut into datagrams of at most `Mtu` words; `Room` is what the
code offers `recvfrom`, which cuts the rest off.

### BulkSend

One `Push` is one `fpga_send` or `sendto`. `wire[c]` is all that channel `c` has been handed; a piece records what its
buffer held at that moment, so a buffer that is overwritten too early shows. PCIe and SFP differ in the bulk size, the
zero-copy call and the channel check, all of them parameters. `MayFail` lets any push fail, which ends the call. On the
channels in `Short` a push may take fewer words than offered (the time-out of `fpga_send`), after which the code goes
on as if it had taken all. On such a channel a frame really can miss words although the call reports success; the
properties are about the other channels, and about the headers on all of them. A multi-port send with an empty mask, which
writes a header into its buffer and sends nothing, is left out.

### ChannelCorr

`yunsdr_enable_rxchannel_corr` and its twin read register 38 of chip 0, change a bit and write the result to register 38 of
the chip they were called for (`rf_id`): two exchanges of `SfpLink`, each of which may fail, time out or lose a datagram. The
two coefficient calls are one write each, to their chip. A register is a chip and a number, register 38 the set of its bits.
`Correction` says what a call amounts to, and its `Apply` is tied to the arguments: a coefficient call changes the port it names;
a switch call for chip 0 changes the switch it names. A switch call for another chip also copies the other switches of chip
0 over that chip's (`SwitchesAfter`): that is what the code does, so that is what `Correction` promises. What a call returns
and what it leaves on the link are the code's: a failure in the second exchange ends the call with the first one done.

### SsDevice

`yunsdr_open_device` is followed from `calloc` to `calloc`: the prefix (`strtok`), the number or address behind it
(`strtok(NULL)`, which takes the url its own pointer is in, another open's when two overlap), the frame buffers one by
one, the sockets one by one or the board, the spinlock. A failure frees what the code frees, the transport and the
descriptor, and the model keeps count of what is lost: buffers, sockets, the board. The number of a PCIe board goes
through the static `devid` and is used a step later. Closing destroys the one spinlock, opening initialises it, also under
a thread that is inside. `kept` is a history variable: which of two rules the program has kept so far, `serial` (one open
at a time) and `single` (one PCIe device at a time). Nothing in the model depends on it; the properties name the rule they
need. A PCIe number may be negative or one too large: both pass the check against `num_fpgas`, and `fpga_open` may do what it likes.
A command that fails returns without `unlock()` (`CommandFails`) and leaves the lock taken. One run shows that the properties hold under their rule; the hazards say what happens without it.

### TickTime

Doubles are exact fractions here; `llround` rounds halves away from zero. `TimesAreNearest` therefore speaks of the
formula, not of the 53 bits of a `double`.

### EthDevice

A call is the list of system calls it has still to make (`todo`), chosen from the state when it starts, as the code
does with its ifs. Descriptors are given out lowest first, as POSIX requires; that is what makes the second `close` of
`yunsdr_disable_rx` interesting. A block of memory is `none`, `live`, `freed` or `corrupt` (freed twice).

### EthCommand

A set is one step: `sendto`, and the call returns. A get is `sendto`, then a wait that ends with a datagram (any), an error or
the time-out. The hello is a get that is sent again after a time-out. `wrote`, `asked`, `timeouts` and `setLost` are history variables
for the properties. A datagram may get lost or come after the time-out.

`recvfrom` also stores the sender's address in `cmd_addr`, where later messages go; only the device sends to the socket here,
so it stays the same.

### EthStream

One `recv` is one step and takes any part of what the connection holds. `nbyte_per_frame` is one variable for all
devices, as in the code, and `Enable` sets it before the request is sent, so a failed request leaves it changed. When the
peer closes, `recv` returns 0 for ever: the reader stays in the loop, which `StreamReadEnds` excepts. An error of `recv` other than
`EINTR` ends the read; the code only returns, and `RecvFails` assumes that the connection was lost. If it were not, the next
read would begin within a frame. Frame lengths count words; the header is one word.

### BasebandRate

A call asks for the rate and for the filter switch, then sends a series of commands nothing acknowledges. `Device`
executes them in order. A wait may time out at any moment, whatever is on its way (`TimeOut`), and a late answer is then taken
for that of the next question: a rate for the switch (its lowest byte counts, `IsOn`), the switch for a rate. Questions,
answers and commands may get lost. With a wrong answer or a lost command the device can be left at a low rate without
filters, or with filters that differ. `clean` is a history variable: no command was lost and no question was given up while
it or its answer was still on its way, since the device was last known to be set (`Known`: a call succeeded, all its commands
arrived, nothing is left). `LowRateHasFir` and `FirsAgree` are stated while it holds; `Settled` needs only that the last call lost
no command. The rates of the run lie at both sides of 25000000 / 12 and at the far end; which filter goes with which rate is
the proof's business.

## 3. Runs

| run | question | bounds | result |
|---|---|---|---|
| `pcie_shared` | are commands atomic, do reads get their own frames, does everything come back? | 2 threads, reads on three channels, two of them at once, next to commands; 1 register, 2 values, no faults | `TypeOK`, `StreamAnswered`, `LockReleased`, `ReadEnds`, refinement of `RegisterService` |
| `pcie_faults` | do exchanges overlap, do late replies reach later calls? | a command thread and a thread that also reads; 2 chips, every RIFFA failure, short reads | `Exclusive`, `QuietWhenFree`, `ReplyCurrent` |
| `pcie_lock_leak` | does a call return after an earlier one failed? | 1 thread, negative returns | **violated**: `CallReturns` |
| `pcie_timeout` | does a successful get have the value? | 1 thread, zero returns | **violated**: `GetFills` |
| `bulk_send` | whole frames in order? what does a failing or a short push leave? | 2 threads with two contents each, frames of 3 words in pieces of 2, 4 channels, failures anywhere, short pushes on channel 2; a thread by itself goes on calling until a channel holds 4 pieces (two whole frames or more broken ones), two threads call while their channels are empty | `TypeOK`, `Contiguous`, `HeaderMatchesBody`, `SentInFull`, refinement of `FrameLink` |
| `sfp_commands` | are commands atomic, and the correction calls made of two of them? | 1 thread, switch calls for every port of two channels and two chips, coefficients for a port of each chip, plain commands; loss of requests and replies, send errors | `CorrTypeOK`, `SwitchSet`, `CorrReturns`, refinements of `RegisterService` and `Correction` |
| `sfp_shared` | who takes whose reply, and can that make a thread wait for ever? | 2 threads, lost and late datagrams, socket errors | `OnlyLossStarves` |
| `sfp_late_reply` | is the answer the caller's own? | 1 thread, late datagrams | **violated**: `SuccessIsOwn` |
| `sfp_streams` | whole frames, nothing left, an end, no overflow? | 2 threads, two channels at once, one of them or none; frames of 2 words at one time or of 3 at another, in datagrams of 2; lost requests everywhere, lost and late data and socket errors on channel 3 | `TypeOK` with its bound on `nrecv`, `ReadWhole`, `LeavesNothing`, `ReadEnds` |
| `ss_device` | who gets which board, what does a failed open leave, does the lock work? | 2 devices, 2 threads, 2 boards and an address, every kind of url, numbers from -1 to 3, every step and command failing, opens that overlap | `TypeOK`, `OwnPeer`, `Owned`, `LockWorks` |
| `eth_device` | double frees, leaks, whose socket is it? | 2 devices, 3 descriptors, every failure | `TypeOK`, `SocketsOwned`, `NoDoubleFree`, `NothingLeft` |
| `eth_calls` | base band rate: is the order of commands safe? | 3 rates, two of them around the limit; lost questions, answers and commands, late answers, failures; a call begins with at most 2 datagrams left by others | `LowRateHasFir`, `FirsAgree`, `Settled` |
| | commands: what is left behind, what does a get read, does a call end? | 2 registers, 2 values, 2 tries, 3 questions, 1 set under way; loss and delay | `StaleAnswers`, `ReadsOwnWrites`, `CallEnds` |
| | streams: whole frames? an end? | 2 devices, frames of 2 and of 3 words, 3 words on a connection; time-outs, short `recv`s, errors, closed connections | `ReadsOneFrame`, `StreamReadEnds` |
| | are times the nearest? | rates from 1 to 63 ticks per second, halves and thirds included, seconds of 60 units, 13 stamps, 6 delays | `TimesAreNearest` |

Two threads (or devices) are enough for every interleaving the properties speak of: each relates one call to one other
that interferes. Something tells a right answer from a wrong one in each run: two values or two registers of commands, the
request a frame of `PcieLink` is named by, two contents per sender in `bulk_send`, two times and lengths of the frames of
`sfp_streams`. Lengths are a few words so that a frame has a first, a last and (with short pushes) a middle piece. `MaxQueue`,
`MaxLate`, `MaxAir` and `MaxLeft` bound what abandoned calls may leave on a channel when the next call starts; they stop the state
space, not the case: each allows a leftover together with a fresh message. In `sfp_streams` thread `t2` starts a read with at
most one old datagram on its channel. `MaxWire` bounds what was ever transmitted on a channel: with four pieces a whole frame
follows a whole or a broken one on the same channel and from the same buffer, by single-port and multi-port calls in any
order. With both threads at work each channel sees one call that reaches it; what a call of one thread does to
the other needs no more, since their channels and buffers are apart (`BulkAssumption`) and the proof covers the rest. The constants of the code that only count are small: `Streams` = 2 of
4 channels, `Tries` = 2 of 5 hellos, `Second` = 60 of 10^9 nanoseconds; what does not depend on them is proved (section 4).
Of streams of two lengths nothing is claimed, so `eth_calls` follows a program's streams only until it uses a second
length. `CHECK_DEADLOCK FALSE` appears in the PCIe runs with faults, where the leaked spinlock really stops every thread, and in
`bulk_send`, where nothing happens any more once the channels are as full as `MaxWire` allows. The devices of `eth_device` and `ss_device` are interchangeable, and the threads of `ss_device` too: those runs check invariants
only, so `SYMMETRY` is sound there. In `eth_device` three descriptors are half of what two
devices with all their sockets need, so running out of descriptors is part of the run.

### What the runs found

* `pcie_lock_leak`: `pcie_cmd_send_then_recv` and its siblings return on a failed RIFFA call without `unlock()`. The
  next command of the process, on any device, spins for ever. Strangely this is also what keeps `QuietWhenFree` true:
  a late reply of the failed exchange can never be read by anyone.
* `pcie_timeout`: `fpga_recv` returns 0 after a time-out, and so does the function: success, without a value.
* `sfp_late_reply`: a reply that is later than the time-out answers the next command, and from then on every command
  is answered by the reply to the one before.

* `ss_device`: an `open` that fails after its transport was allocated frees the transport and the descriptor, not
  the frame buffers, the sockets or the board it had. `Owned` counts them: nothing else is ever lost. Two opens at a
  time share `strtok`'s pointer and `devid`, and a second PCIe device initialises the spinlock the first one may hold.
* A switch call of `ChannelCorr` for a chip other than 0 copies the switches of chip 0 over that chip's. Whether the boards have
  one such register or one per chip is not in the repository.
* `sfp_commands` has one thread. With two, both could read register 38 before either writes it, and one bit would
  be lost: nothing in the library holds the two exchanges together.
* `eth_calls`: after a time-out an answer to `yunsdr_set_bb_rate`'s first question may be read as that to its second, and the
  filters are then loaded while they are enabled, or left out where they are needed (`clean` excepts this).
* A hello that is repeated may be answered twice, and the second answer waits for the next get.
  A reader whose peer has closed its stream calls `recv` for ever. Enabling a second device with another frame length
  breaks the reads of the first.

### Fairness

`PcieLink`, `SfpLink` and `SfpStream` assume weak fairness of the board (it serves what reaches it), of delivery (SFP; what
is not lost arrives) and of each thread inside a call (the operating system runs it). No call is ever made by
fairness. There is no fairness about who gets the spinlock: `pthread_spin_lock` promises no turn, so
`LockReleased` and `ReadEnds` are stated for threads that are past it; `CallReturns` is checked for a single thread,
where no one competes. On SFP, `CorrReturns` (`CorrFairness`: that of the board, of delivery, of `SfpLink`'s steps and of the correction call's own) holds because `select` ends by itself: the time-out step is enabled once nothing is under way.

`EthCommand` assumes that the caller inside a call runs on, which includes that its `select` ends at its time limit.
`EthStream` assumes that the reader inside its loop runs on and that an enabled device whose connection is open keeps
sending.

## 4. Proofs

`PcieLinkProofs` proves, for any threads, registers, channels and any set of RIFFA failures:

* `PcieTypeOK`, `PcieExclusive`, `PcieQuietWhenFree`, `PcieReplyCurrent`: `Spec` implies always `TypeOK`, `Exclusive`, `QuietWhenFree`,
  `ReplyCurrent`, from the assumption `ConstantsAssumption` of `PcieLink` alone.

`ReplyCurrent` is not inductive: that the reply about to be returned is right depends on where the command was
before. `IInv` strengthens it by: `Control`, which steps each kind of call goes through; `HolderInside`, a
thread between lock and unlock is the holder; and `ChannelZero`, which says for the holder where its command is -
not yet sent or lost (channel 0 is quiet), on its way (it is the only command in the queue, among read requests of
other threads), or answered (exactly one reply, which agrees with the device). A failed exchange leaves the lock
taken for ever, so `lock = Null => Quiet` survives it. The step proofs go action by action; lemmas say how a queue
with at most one command changes when a request is appended or taken.

* `PcieStreamAnswered`: always `StreamAnswered`, a read that reports success has the frames of its own request, assuming
  `OwnStreams` (two threads share no channel, and `rx_meta[0]` belongs to the thread that uses the multi-port read) and
  `NoneLate` (`fpga_recv` does not fail; `fpga_send` may). `StreamInv` says for each thread and each of its channels where the
  frame is: not asked for and nowhere, asked for in channel 0, or on its channel.
* `PcieImplementsService`: with `NoneLate`, `Spec` implements `RegisterService` for any number of threads. A call takes effect
  when the board serves its command, and a call whose `fpga_send` failed never does: its command is not on channel 0.

Both hypotheses are the ones the run `pcie_shared` satisfies. Without `NoneLate` a late frame is the answer to the next
read, and a set may take effect after its call has failed.

`BulkSendProofs` proves, for any threads, channels, frame and piece lengths, whichever sends fail and whichever channels
have short ones:

* `BulkTypeOK`, `BulkContiguous`, `BulkHeaderMatchesBody`, `BulkSentInFull`: `Spec` implies always `TypeOK`, `Contiguous`,
  `HeaderMatchesBody`, `SentInFull`, from `BulkAssumption` alone: two threads share no channel, and the first buffer belongs
  to the thread that uses the multi-port send.

None of the last three is inductive: whether the next piece continues the right frame depends on where the call is in
it. `IInv` adds `Control` (a call stays on its thread's channels; only the multi-port send has several) and, per call,
`Progress`: `OwnFrame`, its buffer holds its header and samples; `InLoop`, what it has sent of the frame is the last
thing on the channel; `Behind`, the channels it has dealt with end with its frame. The proof that a step keeps `Progress`
is in two parts: a step of another thread touches neither the buffer nor the channels of the call (`StepOfOther`,
from `OwnBuffers` and `OwnChannels`), and the call's own step carries it on (`OwnStep`).

* `BulkImplementsLink`: `Spec` implements `FrameLink`. The mapping counts the ends of frames on a channel (`Ending`, `Whole`);
  `WholeGrows` says that a piece that ends no frame adds none and one that does adds its own. Then the start of a call
  is a `Submit`, the push that ends a frame a `Carry`, a failure an `Abort` (or nothing, if only channels with short sends
  were left), and every other step a stutter. That the carried frame is the call's own is `Progress` again.

`SsDeviceProofs` proves, for any devices, threads, boards and addresses, with opens and closes that overlap in any way:

* `SsTypeOK`, `SsOwnPeer`, `SsOwned`, `SsLockWorks`, from `SsDeviceAssumption`.

`IInv` is `TypeOK` with `Steps` (what a device owns at each step of its open or close), `Serial` (if opens came one at a
time: where the url's number is on its way through `strtok` and `devid`) and `Single` (if there was one PCIe device at a
time: the lock is alive while it is open, and who is inside holds it).

`SfpLinkProofs` proves, for any threads, registers and values:

* `SfpTypeOK` and `SfpOnlyLossStarves`: threads take one another's datagrams, but the waiting threads outnumber the requests
  and replies under way by no more than what the network has lost.
* For one thread, with datagrams that are lost but never late and no error in `recvfrom`: `SfpSuccessIsOwn`, the answer is
  the caller's own and true, and `SfpImplementsService`, `Spec` implements `RegisterService`. `InStep` carries both: an
  exchange has not begun, or is on its way to the board, or is on its way back, or is lost, and no other datagram exists.
  These are the assumptions that `sfp_late_reply` and `sfp_shared` drop.

`SfpLinkProofs` also proves, of `ChannelCorr`, `CorrKeepsTypes` and, under the same assumptions, `CorrSwitchSet` (a successful
call has set its own channel's switch) and `CorrImplementsPorts` (the calls implement `Correction`: each makes the
change its arguments name, once, between its begin and its end, or none, and nothing else changes a port). `CorrInv` adds to `InStep` that register 38 does not change between the read and the write.

`SfpStreamProofs` proves, for any threads, lengths of frames and datagrams and any set of faulty channels:

* `SfpStreamTypeOK`: no buffer gets more words than the frame its reader asked for has, whatever is lost or late.
* `SfpReadWhole`: a read of channels that lose no data and reports success has its own frames, whole.
* `SfpLeavesNothing`: once it is over nothing it asked for is left, assuming that no thread mixes sound and faulty channels
  in one read. (If it did, a failure on the faulty one would end the call before it had read the sound one.) The run has
  one thread of each kind.

Nothing in a frame says where it begins, so what a read takes is right only because of what is left to take. For a thread
on sound channels (`Sound`), `IInv` says how far its read is (`Progress`): its request is not sent or was lost
(`Resting`, `Waiting`), or was served on all of its channels at once (`Answered`), and then, channel by channel, the whole
frame is in the socket and on its way (`Coming`), or its first datagrams are in the buffer and the others follow
(`Partly`), or it has been copied (`Correct`). `Buffers` keeps the reads of other threads out of its buffers, `Strays`
holds of channels nobody reads. Most of the proof is arithmetic on the cutting of a frame into datagrams
(`Pieces`): how many there are, how long each is, and that the words received so far name the next one.

`EthDeviceProofs` proves, for any devices and descriptors, whatever fails:

* `EthDeviceTypeOK`, `EthNoDoubleFree` and `EthNothingLeft`, with calls on different devices that interleave in any way.
* `EthSocketsOwned`, if calls do not overlap (`~Concurrent`, as in the run): the second `close` of `yunsdr_disable_rx` and
  `_tx` meets no descriptor of anyone else. With overlapping calls it may.

`IInv` adds to `TypeOK` and `NoDoubleFree`: `Place`, which lists of steps a device can have ahead of it and what it holds at
each; `Known`, an open descriptor is the socket of the device that opened it, or lost; and, without overlap, `Private`,
what a device takes for its socket is its own.

`EthCallsProofs` proves, of the small models of libyunsdr:

* `NearestTimes`: for all rates, stamps and delays, `TimesAreNearest`; and `StampsSurvive`: where a unit of time is finer
  than a tick, a stamp converted to a time and back is the same stamp.
* `StreamReadsOneFrame`: with any number of devices and any frame lengths, as long as a program uses one length, a
  read that succeeds has one whole frame. `StreamInv` says by positions what a connection holds: the rest of the frame the
  reader is in, then whole frames.
* `CmdStaleAnswers`: with any registers and numbers of tries, questions and answers nobody waits for are no more than
  the time-outs so far. The proof counts the questions in a queue (`AsksIn`) as it grows and shrinks.
* `CmdReadsOwnWrites`: while no set is lost and nothing has timed out, a get that succeeds has the value set last. Sets are
  not acknowledged, so the invariant speaks of the queue: the last set of a register in it, or else the register, is
  what was written last (`Settles`), and the program's question is behind all of them (`OwnQuestion`).

`BasebandRateProofs` proves, for all rates, `RateLowHasFir`, `RateFirsAgree` and `RateSettled` from `RateAssumption`. The device is
behind the host, so the invariant speaks of the commands under way: those sent and those still to send form a
series (`Safe`) that leads from the device's present state only through good states to the target (`Course`); and at most
one question or answer is under way, and is true of the device (`Phase`). Both are parts of `IInv` only while `clean` holds. `Ends` is
not: as long as the call has lost no command, those under way and to send set rate and filters to the target from any
state; `RateSettled` rests on it, and so does the return of `clean` after a call that went through. The lemmas `SafeOne`, `SafeConcat`, `SafePrefix` and
`SafeTail` say how such a series is put together and used up.

### Only model-checked

Every safety invariant and every refinement of the passing runs is a theorem. What TLC alone checks is liveness:
`LockReleased`, `ReadEnds` (PCIe and SFP), `CorrReturns`, `CallEnds` and `StreamReadEnds`. It rests on fairness and `ENABLED`, which
the prover does not do.

## 5. Not modelled

* `yunsdr_set_trx_fir_config` reads a file. It compares what `fread` returned with the file's size less one
  (`yunsdr_api.c`, about line 626), so it leaves with `-EACCES` before it parses anything, unless a translation of line
  ends makes the file one byte shorter. The file stays open on
  that return.
* `yunsdr_write_samples` of libyunsdr is one `send` of one frame, with no state of its own.
* `yunsdr_set_trx_channel`'s default branch (a channel outside its enumeration) sends two words that were never set: what
  the board does with an arbitrary command is not modelled.
* `stream_send4` stays null in the SFP interface; the zero-copy call through it is listed as a hazard, and has no
  property: any state with an SFP device is a witness.
* The SIMD conversions between samples and floats (a data path without state), debug output, the Windows branches (other
  system calls; and the one of `__init_transport` overwrites `ret`, so an allocation that fails there is not reported, as the mutant
  `AllocMetaGoesOn` has it), the example programs and the build files.
* Two threads on the same stream channel or frame buffer are outside the library's contract and outside the models'
  assumptions (`StreamAssumption`, `BulkAssumption`).

Worth proving next: the safety half of the liveness properties, that a call which has not ended always has a step that
brings it nearer to its end, or waits for one of the board or the network.
