# A TLA+ verification of det-bypass

det-bypass measures the latency of packet round trips ("pingpongs") between a
client and a server over several datapaths: XDP with a polled eBPF map, AF_XDP
sockets, RDMA UD, RDMA RC, UDP sockets and NIC hardware timestamps. Each
datapath is a pair of programs built from one source file with `SERVER` 0 or 1.
The client's sender thread sends numbered pings at a fixed interval, the server
returns each one, and the client hands every pong to a *persistence agent* that
writes timestamps, extremes or a histogram to a file.

The programs are small, but nearly everything in them happens beside something
else: a program in the kernel and one in user space share memory without a
lock, two threads share buffers and queues, adapters work through posted
requests on their own, packets are lost and reordered, and there are no
timeouts. That is what this project models.

## Inventory

| Component | State | Operations | Meets | What is hard |
|---|---|---|---|---|
| XDP Poll (`xdp/pingpong.c`, `xdp/pp_poll.c`) | circular map of payloads, writer index under a lock, reader index | reserve, drop and reset, copy, commit; poll, copy, clear, handle | persistence, sender thread | memory accesses of two sides interleave; several CPUs; full map |
| AF_XDP (`xdp/pp_sock.c`, `xdp/pingpong_xsk.c`) | UMEM frames on a stack or in one of four rings, `outstanding_tx`, a spin lock | peek, restock, process, release, send, complete | kernel rings, persistence, sender thread | frames in two places, leaks, full rings, two threads |
| RDMA UD (`rdma/ud_pingpong.c`) | a buffer per queue index, a bitset of pending sends, one completion queue | poll two completions, parse, post receive, post send | adapter, persistence, sender thread | buffers reused while the adapter holds them, a thread waiting for itself, overrun |
| RDMA RC (`rdma/rc_pingpong.c`) | one send buffer, one receive buffer, a count of receives, a count of completions | poll, parse, replenish, post | adapter, peer, persistence, sender thread | unsynchronised buffers, counting, termination |
| Persistence (`common/persistence.c`) | extremes, buckets, previous payload, file | write (three modes), close | all clients | unsigned arithmetic, clocks that differ, packets out of order, bucket boundaries |
| Sender thread (`common/net.c`) | loop variable | send one packet per interval | the clients | what it takes for an error |
| Exchange of addresses (`common/net.c`) | a UDP socket, what the other side sent | one datagram each way | start of every experiment but the pure one | no retry, no timeout, runs that cannot be told apart |
| UDP baseline (`no-bypass/main.c`) | last index, a socket shared by two threads | send, receive, echo | persistence, sender thread | loss of the last packet, a socket closed under the sender |
| Pure XDP (`xdp/pp_pure.c`, `xdp/pingpong_pure.c`) | the client's last index; the server has none | send, receive; rewrite a packet in the kernel | persistence, sender thread | a dangling pointer to the socket |
| Hardware timestamps (`no-bypass/hwts.cpp`) | two tables of timestamps, the error queue of the socket | send, receive, read the error queue, drain | NIC | times that come late or not at all, an uninitialised buffer that is parsed |
| Loading (`xdp/src/xdp-loading.c`) | attached program, pinned programs and maps; all outlive a process | attach, detach, mmap | XDP programs | stale pinned maps, early returns, death between two steps |
| Arguments, devices, MTU; Ansible; notebooks | none | | | |

What makes each part correct, in one line: the map is a bounded FIFO queue; a
frame, buffer or queue index has one owner at any time; what is sent back or
persisted is what arrived, once and in order; no queue is overrun; a program
that has what it needs to end does end; the file says what the payloads say.

## Modules

| Module | Models | Composes |
|---|---|---|
| `PayloadQueue` | abstract specification: a bounded FIFO queue whose reader takes a payload in hand and delivers or discards it | |
| `PollMap` | XDP program and polling program, both builds | `PayloadQueue` (refinement) |
| `PollMapProofs` | theorems about `PollMap` | `PollMap` |
| `Counting`, `CountingProofs` | how often things occur in a queue, and lemmas about it | |
| `UdQueues` | queue size and work request ids, for the next two | |
| `UdServer` | server of the UD pingpong, any ping may arrive | `UdQueues` |
| `UdClient` | client of the UD pingpong: main and sender thread, any pong of a ping may arrive | `UdQueues` |
| `UdPingpong` | client and server over a network that loses and reorders | `UdClient`, `UdServer` (both also as refinements) |
| `UdPingpongProofs` | theorems about the last three | `UdPingpong`, `CountingProofs` |
| `RcPingpong` | both ends of the RC pingpong and the connection | `Counting` |
| `RcPingpongProofs` | theorems about it | `RcPingpong`, `CountingProofs` |
| `XskSocket` | AF_XDP socket, both builds: main and sender thread | `Counting` |
| `XskSocketProofs` | theorems about it | `XskSocket`, `CountingProofs` |
| `Persistence`, `MCPersistence` | persistence agent, and the timestamps it is checked with | |
| `PersistenceProofs` | theorems about `Persistence` | `Persistence` |
| `Exchange` | `exchange_data` on two hosts and the network between them | |
| `XdpLoading` | `attach_xdp`, `detach_xdp` and the mains that call them; pins and attached program | `Exchange` |
| `XdpStartup` | programs started, killed and started again on two hosts | `XdpLoading` |
| `XdpStartupProofs` | theorems about the last three | `XdpStartup` |
| `UdpPingpong` | UDP baseline and pure XDP: client main, sender thread, server | |
| `HwTimestamps` | both ends of `hwts.cpp` with card and error queue | |
| `SocketExperiments` | for model checking: one of the last two | `UdpPingpong`, `HwTimestamps` |
| `SocketExperimentsProofs` | theorems about the last three | `SocketExperiments` |

Operators whose comment begins with "Mutant" are deliberately wrong variants of
the definition that follows them. They are used by no specification: putting
one in the place of its definition must make the property it belongs to fail,
which shows that the property can fail at all.

### How state and actions correspond to the code

**PollMap.** `last_payload`, `index` and `key` are the map, `lck[0].index` and
the local `key` of `add_packet_to_map`; `Reserve` is its first critical section,
`CheckSlot` the test of the slot with the clearing of the magic's low bit,
`ResetIndex` the drop, `CopyHead` and `CopyTail` the struct assignment in two
halves, `Commit` the `|= 1`. `PollWait` to `PollClearTail` are
`poll_next_payload`; `CheckPhase`, `Write` and `SendFails` the rest of the loop
bodies of `start_client` and `start_server`. A payload is abstracted to its id,
one value `ts` for all its timestamps (equal to the id in a packet that is
whole, so a mixture shows), its phase, and two bits of magic. The copy is split
at one point, between the id and the rest, because one split is enough for a
mixture to appear; stores become visible in address order (packed struct,
x86-64). `SERVER` never changes; both builds are explored in one run.

**UdServer, UdClient.** `rq`, `sq` and `cq` are the receive, send and completion
queues; work request ids are the code's numbers. `PollCq` is `ibv_poll_cq` for
two entries, `ParseSend`, `ParseRecv` and `ParseFails` the branches of
`parse_single_wc`, `UpdateRecvIdx` the second reading of the id in `main`, which
is a step of its own because the adapter runs between the two. In the client
`SenderWait`, `SenderMark` and `SenderPost` are `pp_send_single_packet` with
`pp_post_send`, and a post may fail. `SenderGivesUp`, here and in
`RcPingpong` and `XskSocket`, is the early end of `thread_send_packets` when the
affinity of the thread cannot be read or set. The adapter actions are external.
The completion queue has no limit in the model, where `ud_pingpong.c:139` asks
for QUEUE_SIZE entries; theorem `UdCqNeed` says that the client needs at most one
more (adapters round the size up).

**UdPingpong.** A ping can arrive at the server as often as the client's adapter
sent it and has not been received, and a pong likewise; what never arrives was
lost. So the environments that `UdServer` and `UdClient` assume (every id at
most once, no pong without a ping) are not built in: `EachAlone` checks them.

**RcPingpong.** State is a function of the node. `ParseSend`, `ParseRecv` and
`ParseFails` are `parse_single_wc`, called after `ibv_start_poll` (`"poll"`) or
`ibv_next_poll` (`"next"`), and `PollFails` is an error of either;
`HandleRecv` answers or persists, then `Replenish` posts receives, and
`ParseRecvFails` is the end of the program when too few could be posted.
`SenderWrite` and `SenderPost` are `pp_send_single_packet`. The connection is
reliable and in order, waits for a receive, and fails when the other end is gone.

**XskSocket.** `umem_frame_addr` is the stack of free frames; `fq`, `rx`, `tx`,
`cq` are the rings; `hw` and `nic` are what the driver has taken from the fill
and transmit rings. `Peek`, `Restock`, `Process`, `ProcessRejects` and `Release`
are the parts of `handle_receive_packets`; `SendNoSlot`, `SendSubmit` and
`SendComplete` are `xsk_send_packet` called by the sender thread, under the
lock. An address outside the UMEM, which the code can produce, is kept as such
(`INVALID_UMEM_FRAME`); `starved` records that the client sent from it.

**Persistence.** Payloads are tuples of four timestamps below `Word`;
subtraction wraps, and `Signed` is the conversion of a `uint64_t` to the
`int64_t` parameters of `bucket_idx`. `persistence_write_buckets` is split by its early returns
into `WriteFirst`, `WriteRejected` and `WriteCounted`. An increment whose index
is not one of the array is counted in `outside`, since what it hits in memory
depends on the column and on what follows the array. `InBucket`, which says where
a value belongs, follows the comment at `persistence.c:22` but for two values
that the code puts elsewhere: the maximum itself is in the last bucket, and a
difference of `Word / 2` or more, negative as an `int64_t`, in bucket 0.

**Exchange, XdpLoading, XdpStartup.** `pc` walks through a main: `detach_load`
to `detach_xdp` are the calls of `detach_xdp` in their order with its early
return, `attach_load` to `attach_xdp` those of `attach_xdp`; `exchange` is the
call of `exchange_eth_ip_addresses`, whose steps are `xpc`, before attaching in
`pp_sock.c` and after it in `pp_poll.c`. `attached`, `prog_pin` and `map_pin`
are the kernel's state and survive `Die`. What a map holds is abstracted to
none, clean or dirty, and what is exchanged to the number of the run that sent
it. A call may fail and a process may be killed at every step (`MaxFaults`).
After a failed `bpf_map__unpin` alone `detach_xdp` goes on; `torn` records that
it stopped, or went on, with the program unpinned and the map not.

**UdpPingpong.** `kind` is the program; the two differ in `Aux`, what the sender
thread finds through its pointer to the socket (in `pp_pure.c` it dangles from
the start, in `main.c` from the return of `start_client`, and reading it then
gives the socket or anything else), in `ClientLeave`, and in the width of
`last_idx`. `signal()` makes `recvfrom` restart, so SIGINT is noticed only after
the next packet. The pure server has no state; header rewriting is left out.

**HwTimestamps.** A time is abstracted to the datagram it belongs to. When the
error queue is empty the code parses a control buffer that this call did not
fill; `ReadNothing` has the outcomes a build can produce: nothing recognised,
the last record again, or its id with the time that `receive` wrote over it. The
buffer is at the same place in every call, so nothing else can be left in it, and
the exception for two ids without a time (`hwts.cpp:122`) cannot be thrown.

## Runs

Each passing run checks a type invariant and the following.

| Run | Bounds | What it shows |
|---|---|---|
| `poll_map` | 2 slots, 1 CPU, 4 packets in any order, right and wrong phases, both builds, SIGINT at any time (533 thousand states) | `NoTornPayload`, `NoOverwrite`, `DropOnlyWhenFull`, `Drained`, and `ImplementsQueue`: the map refines `PayloadQueue`. Four packets and two slots wrap the map twice and fill it. |
| `poll_map_cpus` | 2 CPUs, 3 packets | violation, see below |
| `ud_pingpong` | 2 buffers on each side, 3 pings, lost and reordered, posts and calls that fail, SIGINT on either side (451 thousand) | server: `OneOwner`, `NoSelfWait`, `EchoInOrder`, `EveryPingEchoed`, `LastPingEnds`; client: `PingsInOrder`, `PersistInOrder`, `EveryPongPersisted`, `SenderEnds`: the sender thread gets through all its pings unless a post fails; both: `EachAlone`. More pings than buffers, so a buffer is used again; two completions per poll; the server may close with pongs unsent. |
| `ud_reread` | 2 buffers, 3 pings | violation |
| `rc_pingpong` | receive depth 3, send depth 1, 4 packets, calls and posts that fail (226 thousand) | `CreditsExact`, `EndTogether`. Receives are replenished more than once at both ends and sends are refused by a full queue. |
| `rc_buffer` | receive depth 2, 3 packets | violation |
| `xsk_socket` | 4 frames, rings of 2, batches of 2, 4 packets, both builds (603 thousand) | `FramesConserved`, `OutstandingExact`, `HandledInOrder`, `SentInOrder`, `EveryPacketHandled`. Every ring gets full and the stack gets empty; invalid addresses enter the fill and the transmit ring. |
| `xsk_leak` | server, 5 packets | violation |
| `persistence` | Word 16, 2 buckets, intervals below and above OFFSET, 3 of 36 payloads in any order, three modes (1.9 million) | `Histogram`, `Extremes` (`MinMaxReport` and `ColumnExtremes`), `CountedInOrder` |
| `persistence_range` | the same | violation |
| `xdp_startup` | client: 2 runs of `pp_sock`; server: 5 runs of any of the three programs, to run or to remove; one kill or failed call at any step (1.1 million) | `FreshMap`, `RetryAttaches`, `Paired`, `ExchangeEnds`. Five runs are what it takes to leave a map behind, lose its program's pin and start a poller on it, which the run reaches. |
| `sockets` | UDP and pure: 4 packets, `last_idx` modulo 5; timestamps: 2 packets each way, 2 failed calls, card stamping or not (154 thousand) | `SocketOpen`, `RowsAligned`, `SendTimesComplete`, `ExperimentEnds`. Two send times are enough to come in the wrong order, and for an old record to end the drain with a row missing. |

Deadlock is not checked: every program ends, and a program waiting for a packet
that was lost waits for ever, in the model as in the code.

### Where code and comments disagree

* `poll_map_cpus`: the index of a slot is reserved under the lock, but the slot is
  looked at (`pingpong.c:68`) and written (86) outside it. One CPU stalls before
  its commit; the other fills the next slot, goes round the map, reserves the
  first slot again, finds it still unreadable and writes it too; the poller reads
  a mixture of two packets, which `common.h:105` rules out. This is not the race
  of the TODO at `pingpong.c:74`, the reset of the index, which the
  counterexample does not need.
* `ud_reread`: the UD client reads the id of a pong twice, the second time from
  a buffer that is already posted again (`ud_pingpong.c:569` against the comment
  at 350), and can stop without having persisted the last pong.
* `rc_buffer`: the RC server rewrites its send buffer while a pong is still to
  be sent from it (`rc_pingpong.c:390` against the comment at 393).
* `xsk_leak`: an AF_XDP server whose transmit ring is full loses the frame
  (`pp_sock.c:409` against the comment at 410).
* `persistence_range`: bucket sizes are rounded down, so with an interval such
  as 5000 a latency near the end of the range gets an index beyond the last
  bucket (`persistence.c:14` against 22 and 29).

### Fairness

Liveness assumes weak fairness of what the operating system and the hardware
do in the end: a thread that can run is scheduled, an XDP program that has
started is finished, an adapter transmits what is posted. It never assumes that
a packet arrives, that a call fails, or that the spin lock of `pp_sock.c` is
fair. `rc_pingpong` also assumes that the reliable connection delivers. In
`xdp_startup` and `sockets` a datagram does not stay under way for ever: it is
taken or lost, and loss is an action that the properties name as an excuse; the
card eventually stamps what it sends once it was told to. Nobody has to start,
interrupt or kill a program.

### What the exceptions of the properties say

Several properties of the last two runs hold with exceptions, and each exception
is something the code does not handle: a `detach_xdp` that unpins the program and
then dies, or fails to unpin the map and goes on, leaves a map that the next
poller takes for new, until a later `detach_xdp` unpins it (`FreshMap`); a lost datagram of the exchange stops both sides
(`ExchangeEnds`); killing one side lets the other keep data of the earlier run
(`Paired`), which matters where queue pair numbers are exchanged; SIGINT lets
`main.c` close the socket under its sender (`SocketOpen`); one failed send, or
the dangling pointer of `pp_pure.c`, leaves the client waiting for ever
(`ExperimentEnds`); an empty error queue can be counted as a send time
(`SendTimesComplete`).

## Proofs

TLAPS proves every invariant and action property that the passing runs check,
the bound on the UD client's completion queue and both refinements, for every value of the constants that the assumptions of
the modules allow. The assumptions are few: queues, rings, maps and batches are
not empty (an RC end has two receives, as the code posts), there is a packet to
send, timestamps are numbers below `Word`, `OFFSET` is a multiple of
`NUM_BUCKETS`, and the ends of a range fit an `int64_t` (an interval plus
`OFFSET`, and twice `OFFSET`, are below `Word / 2`; the interval comes from
`atoi`). TLC evaluates them in the runs of the modules that state them.

Hardly any of the properties is inductive. For each system there is an invariant
that is, which implies all of them; TLC has checked each of these invariants on
the instance of the run before it was proved. Their parts are named in the
proof modules; each action has a lemma of its own or a case of one.

| Module | Theorems | Inductive invariant |
|---|---|---|
| `PollMapProofs` | `TypeCorrect` for any set of CPUs; for one CPU `PayloadIntegrity`, `DropsOnlyWhenFull`, `NeverOverwritten`, `MapImplementsQueue` | `IInv` |
| `UdPingpongProofs` | `ServerAlone`, `ClientAlone`, `UdImplementsEachAlone`; from these three `UdTypes`, `UdOneOwner`, `UdNoSelfWait`, `UdEchoInOrder`, `UdPingsInOrder`, `UdPersistInOrder`, `UdCqNeed` | `SrvInv`, `CliInv`, `UdInv` |
| `RcPingpongProofs` | `RcInvariant`, `RcTypes`, `RcCreditsExact` | `RcInv` |
| `XskSocketProofs` | `XskInvariant`, `XskTypes`, `XskFramesConserved`, `XskOutstandingExact`, `XskHandledInOrder`, `XskSentInOrder` | `XskInv` |
| `PersistenceProofs` | `PersistenceInvariant`, `PersistenceTypes`, `PersistenceCountedInOrder`, `PersistenceHistogram`, `PersistenceExtremes` | `PersistenceInv` |
| `XdpStartupProofs` | `StartupInvariant`, `StartupTypes`, `StartupFreshMap`, `StartupRetryAttaches`, `StartupPaired` | `StartupInv` |
| `SocketExperimentsProofs` | `SocketInvariant`, `SocketTypes`, `UdpSocketOpen`, `HwRowsAligned`, `HwSendTimesComplete` | `SocketInv` |
| `CountingProofs` | lemmas: what `Count` is after an append, a head or tail, a concatenation | |

**PollMap.** One CPU is needed, as `poll_map_cpus` shows. The properties do not
say where the unread payloads are; `IInv` does. Until the client is interrupted,
the readable slots are one circular interval from `next_map_idx` to the slot
that the XDP program writes (`IndexInv`); the slot at distance d from its start
holds the payload number taken + d + 1 of the committed ones (`SlotInv`); two
more parts say how far a copy into the map (`XdpInv`) or out of it (`UserInv`)
has got. Lemma `Circle` has the arithmetic of the circle, the lemmas `...Effect`
say what each memory access changes. After an interruption nothing is claimed of
the map, since the client leaves before it uses what it polls; `PayloadQueue`
has the same exception.

**UD.** Every step moves a buffer from the head of one queue to the end of
another, so the number of its occurrences in all of them stays one. Hence a
packet is never received into a buffer that somebody is still going to read, and
the receive completions that are not handled yet stand, in order, for the rest
of what was received, which is still in their buffers (`HoldsRest`). The client
has at most one send open, and bit 0 of `pending_send` is set while it has.
For the two together only the environment is left to show: the client sends no
id twice, the server returns only what was received. Then each of them is a
behaviour of its own module, and what was proved there holds.

**RC.** A delivery turns a posted receive into a completion, and only the loop
takes one away, so that the count is exact while the program runs: `Credits`.
A send is counted in exactly one of four places until
its completion is polled: `Sends`. `Buffers` and `Loops` are what the types
need: no buffer is sent or persisted before it is written.

**AF_XDP.** As in UD each frame is counted in the queues, here seven, with the
frames the server loses set apart. Two logs then change only at their end: what
arrived is what was handled and what the open part of the receive ring holds;
what is sent is continued by what the frames on the transmit side hold. The
invariant excludes an exhausted client (`starved`), which sends from an address
outside the UMEM, as the properties do.

**Persistence.** The payload that the agent remembers is the last one it counted
(`Remembers`), so a write increases the counter of exactly the value that the
log of counted payloads gains, and the set of the log's positions in a bucket
gains that position. That `bucket_idx` finds the bucket by division which
`InBucket` describes by inequalities is lemma `BucketOf`, signed conversion
included; it needs the range to
be a multiple of the number of buckets, and `persistence_range` shows what
happens otherwise. For the extremes, `MinSoFar` and `MaxSoFar` say which payload
is remembered before the agent is closed, `ColumnsStart` that an extreme of a
column is the initial one only while nothing was counted.

**Start-up.** Loading: a map can hold old payloads only while the program that
fills it is pinned, and `attach_xdp` refuses a pinned program, except from the
moment when `detach_xdp` has unpinned the program alone (`torn`) until a later
one unpins the map; a refused attach leaves the pin, so that the next `detach_xdp` goes all the way. Exchange: without
faults there is exactly one datagram, or one server about to answer it, while the
client waits, and none otherwise (`OneToken`); what it carries is of the current
run of its sender unless the server has not talked in its new run (`Current`).

**Sockets.** UDP: no id is anywhere before the thread has sent it, so `main` sees
the last one only when the thread is done. Hardware timestamps: the calls of a
round that have returned are counted by three counters, and without faults the
four counts of sends and receives of the two hosts follow one another
(`Lockstep`); a send time is in one place at a time, so the count of send times
is the number of rows that have one until an old record is read again. The proof
did not need the absence of failed calls that `SendTimesComplete` first had as a
condition; the property now says so.

Only model-checked: liveness under fairness (`Drained`, `EveryPingEchoed`,
`LastPingEnds`, `EveryPongPersisted`, `SenderEnds`, `EndTogether`, `EveryPacketHandled`,
`ExchangeEnds`, `ExperimentEnds`), which is out of reach of the prover, and the
five violations, which are counterexamples.

## Not modelled, and the plan

Not modelled: the length of pauses (`pp_sleep`), the debug thread of
`pp_poll.c`, which only reads, argument parsing, queries of addresses, devices
and MTU, playbooks, notebooks, allocation failures that end a program before
the experiment, and the rewriting of headers by the pure XDP program. The
exchange that starts the RDMA programs is the one of `Exchange`, but setting up
their queue pairs with what was exchanged belongs to the verbs library.

Order of the work, most important first:

1. the map of XDP Poll, its abstract queue and its proofs (done);
2. UD, RC, AF_XDP and persistence, with the disagreements above (done);
3. UD client and server composed over a lossy network (done);
4. the exchange of addresses, loading and detaching, the UDP baseline, pure XDP
   and hardware timestamps (done);
5. proofs of all safety properties and of both refinements (done);
6. next: facts that the exceptions in the properties only hint at, such as what
   the map guarantees with several CPUs as long as none is lapped, what a
   starved AF_XDP client can still count on, and how many values a histogram
   whose range is no multiple of the number of buckets can misplace; an abstract
   specification of the AF_XDP server as an echo, refined by `XskSocket`.
