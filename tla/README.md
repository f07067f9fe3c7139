# A TLA+ verification project for the NearLink service

This directory holds TLA+ models of the data plane of the OpenHarmony NearLink
service and of the connection and channel management above it (the sources are
under `src/`), the TLC configurations that check them on small instances, and
theorems with proofs that TLAPS checks for every value of the parameters. `PROJECT.json` records which definition models which lines.

Contents: 1 the system, 2 the plan, 3 the modules, 4 the runs, 5 the proofs,
6 findings, 7 what is not modelled.

## 1. The system

NearLink (SLE) is a short-range radio. The repository is the host side: language
bindings and IPC (`frameworks/`, `interfaces/`, `socket/`), the system service
(`services/server`, `services/service`), and the protocol stack
(`services/stack/src`) with a control plane `cp`, a data plane `dp`, a driver
layer `dli`, an abstraction of the controller `nai` and a base library `sdf`.

| component | state it keeps | operations | hard behaviour | what makes it correct |
|---|---|---|---|---|
| DTAP reliable mode (`dp/dtap/src/dtap_trans_reliable.c`, `dtap.c`) | send and receive window, retransmission, reorder and response timer, one cached message, full flags, retry counters | send, receive data or acknowledgement, three timer handlers, status change up and down, create, delete | lost and repeated frames, stale acknowledgements, sequence number wrap, a client that is full, retry limits | first-in first-out delivery, only received frames are acknowledged, every loss is noticed, a waiting client is woken |
| DTAP stream mode (`dtap_trans_stream.c`) | expected and newest number, reorder list, one-shot timer | send, receive, timer task | a timer task that is already posted, wrap, list bound | frames are handed over in increasing order, none twice; a gap is given up after the timeout |
| DTAP basic mode (`dtap_trans_basic.c`) | ready flag, cached frames | receive, continue when the link is up | frames before the link is reported connected | order is kept across the cache |
| DTAP transparent mode | none | pass through | none | - |
| DTAP scheduler (`dtap_scheduler.c`) | four priority queues of links of channels of packets, per-link quota and credit, global credit | send, completion event, connect, disconnect, buffer number change, channel down | credits over connect and disconnect, packets split over several credits, a failing driver | credits are conserved and bounded, fragments of a packet are contiguous, a queued packet is eventually sent |
| DTAP channel table (`dtap_channel.c`) | map from link to channels | add, delete | a channel that is added twice while the scheduler has packets of it | no entry outlives its channel |
| Transport (`dp/transport/src/transport.c`) | a reference-counted request shared by two threads | send with a 500 ms timeout, status change | the timeout races with the worker thread | the request is freed once; a result is not lost |
| Data transfer service (`services/service/src/datatransfer`) | busy/available per port, queue | write, status change | busy and available are set on different threads | a port is not left busy |
| Connection management (CM), links (`cp/bsl/sle/cm/link`) | logic links, devices to connect with who asked and their timers | direct and background connect and remove, 10 s timer, connection complete, three reads, disconnect | the one allow-list command is cancelled and given again at each change while its completion travels; passive connections; failing calls | a device somebody waits for is being connected, the links are the controller's connections, each request is answered |
| CM, dynamic channels (`cm/trans_channel`, `cm/signaling`) | channel list, tcid pool, cached requests | create, release, four signalling messages, 21 s timer, link lost | releases that cross, answers that come late, reused tcids | no tcid is leaked or doubled; no channel waits for ever |
| QOSM, transport channels (`cp/bsl/sle/qosm/trans_channel`) | list and count of channels, one tuning machine | create, destroy, CM's four callbacks, three answers of the controller | a channel that goes while the link is tuned for it, a release that the peer refuses | the list names only channels there are |
| SSAP client links (`cp/bsl/sle/servm/ssap`) | applications with a state and a kept operation, table of links | register, deregister, connect, disconnect, switch off, link up and down | applications that share one connection, operations replayed by events | an application is what the shared link is; every wait is answered |
| SSAP requests, server, service database | request queues, tables | discover, read, write, notify, call | - | - |
| Security management (`cp/bsl/sle/sm`) | pairing state, keys | pair, encrypt | user interaction, timeouts | - |
| Device discovery, rate adaptation, measurement (`devd`, `qosm/autorate`, `hadm`, `mm`) | advertising and scan sets, measured values, sessions | many | - | - |
| Audio control and profiles (`cp/bal`) | per-profile | clients of SSAP | - | - |
| Framework of the stack (`cp/nlstkfwk`, `sdf`) | worker threads, timers, lists | post task, blocked post, timers | a blocked post that times out before its task has run | a worker runs one task at a time; what two threads share is freed once |
| DLI, NAI | driver queues | commands, events, data | - | - |
| System services, IPC, bindings | proxies, callbacks | - | - | - |

How the parts of the data plane interact. A client's write goes through the data
transfer service to `TRANS_SendData`, which posts a task to the control plane
worker and waits up to 500 ms. The task calls `DTAP_DataSend`, which finds the
channel and calls the send function of its mode. The mode builds frames and
gives each to the scheduler (`DTAP_SendFrame`, `DTAP_DataSendWithPriority`),
which hands packets to the driver as credits allow. Received data enters at
`DTAP_DataRecv`, is parsed, checked by the mode and handed to a callback of the
client. Timers, driver events and CM's channel events all run as tasks of the
same worker thread, so each handler is atomic with respect to the others; the
concurrency that matters is between the two ends of a link, between timers and
messages, and, at the transport layer, between the client's thread and the
worker.

In the control plane a service asks SSAP, QOSM or CM for a connection or a
channel. SSAP posts its request to CM; CM keeps one create command with an allow
list in the controller for everybody who waits, and reports links to every module.
A transport channel is asked for at QOSM, which has CM negotiate it with the peer,
tunes the link if the fastest channel has changed, and only then reports to the
data transfer service. All of it runs on the worker thread; what makes it hard is
that commands, events, signalling messages and posted tasks are under way while
the state they were meant for changes.

The hazards this exposes the code to, each at its line, are listed in
`PROJECT.json` with the properties that cover them.

## 2. The plan

1. `DtapReliable`: the reliable mode, two endpoints over a lossy link. It
   carries the strongest promise of the system ("zero-loss transmission of
   critical data", `src/README.md:95`) and has the most intricate state. With it
   `DtapSeq` (sequence numbers), `ReliableFifo` (the abstract specification) and
   the proofs. Done.
2. `DtapScheduler`: credits, quotas, priorities and fragments towards the driver,
   with `DtapQuota` for the quota calculation. Modelled and checked; the scheduler is proved.
3. `DtapUnreliable`: stream, basic and transparent mode. Modelled, checked and proved.
4. `TransportSend`: the way of a message from the application's socket to DTAP,
   over three threads. Modelled, checked and proved.
5. `CmDynTrans` and `QosmChannel`: CM's transport channels and QOSM above them, at
   both ends of a link. Modelled, checked and proved, but for `WaitingIsWatched`.
6. `CmConnect`: who is being connected, and the links. Modelled, checked and proved, but
   for `WaitingIsPursued`.
7. `SsapLink`: the applications that share a connection. Modelled, checked and proved.

Theorems, in the order of the plan. Done: the reliable mode (types, send window,
timers, messages, receive window, delivery in order, acknowledgements, refinement of
`ReliableFifo`), the unreliable modes, the transport, the links and the transport channels of
connection management with QOSM, the scheduler (types, counters, queues, buffers,
order and fragments), and the applications of SSAP. Open: what `DtapQuota` computes; it
stays with TLC.

Components worth modelling after that: the request protocol of SSAP, the control of
pairing in SM, the advertising and scan sets of DEVD.

## 3. The modules

### DtapSeq

The 14-bit sequence numbers (`dtap_trans.c`), with the width as the parameter
`SeqMax`. `IsFrameSeqSmaller(own, other)` is the sign-bit comparison,
`GetNextFrameSeq` the increment with wrap, `SeqAdd(seq, n)` the increment applied
n times. The code's `0x3FFF` is an instance; TLC uses 5 and 7 so that windows of
two and three wrap within a few frames.

### DtapReliable

Two endpoints `A` and `B` of one channel. `ch[e]` is the
`DTAP_ReliableChannel_S` of `e`, field by field under the code's names; timers are
Booleans (running or not); `transBusy` is the busy state that the data transfer
service keeps for the channel; `sent` and `handed` are history variables: the
PDUs that entered the send window and those the upper layer took. `net[e]` is the
link to `e`, a queue of at most `NetCap` frames that may lose its head
(`LoseFrame`) and drops what does not fit. The radio link delivers in order, so
frames are not reordered; duplicates come from retransmission.

A handler is an operator from a channel to a channel
(`SendEnhanceFrame`, `SlideTxWindow`, `SlideRxWindow`, `RecvEnhanceFrameInner`,
`TransChannelStatusChange`, ...), named after the function it models; frames it
sends collect in the field `out`, and the action that runs the handler puts them
on the link. One action per entry point: `Send`, `RecvAck`, `RecvData`,
`RefuseData` (a frame that `DTAP_CheckEnhanceFrame` rejects), the three timer
handlers, `SetTransChannelStatus` and `ChannelDel`.

Abstractions. A message is a number; `FrameCnt[m][d]` says how many frames it is
cut into (`DTAP_GetFragmentFramesNum`, which depends on whether headers are
duplex). A PDU knows its message, its place and the number of its fragments,
which is what the SAR field says. CRC failures are losses. Timer durations are
left out: a running timer may fire at any time. All three timers are periodic in
the code and stay running when they fire. The response timer runs from creation
to deletion, so it needs no state. `trims` counts how often
`DTAP_RecvFragmentFrame` cut the buffer of a queued frame.
`SendOutcomes` selects whether `DTAP_SendFrame` may fail; a new frame enters the
send window either way, so its failure is the same as a loss and only the
failures of acknowledgements and retransmissions are explicit.
Not modelled: failing allocations, a timer that cannot be started, aggregated
frames (never built by this code), and the failure of CM to find the channel when
a release is asked for.

`MaxFull` bounds how often the upper layer refuses one PDU. The answer
`DTAP_TRANS_RELIABLE_TRANS_CHANNEL_FULL` is part of DTAP's contract with its
callback (the unit tests of DTAP exercise it), but no callback that is registered
in this repository returns it today: the data transfer service reports its full
queue with a different code, which DTAP takes for a delivered PDU. Runs with
`MaxFull = 0` describe the system as it is deployed here.

### ReliableFifo

What a client may rely on, with no window, number, timer or link: in each
direction a queue. A step appends to what one endpoint has sent and to what its
client has got, and what a client has got is always a prefix of what the peer had
sent. `RefinesFifo` states that `DtapReliable` implements it with `sent` and
`handed` for the two histories.

### DtapQuotaShares and DtapQuota

The controller's buffers are shared among the links: one each, the rest in
proportion to the packets queued (largest remainder). `DtapQuota` takes the two
passes of `DTAP_AllocLcidQuota` as they are, one turn of the top-up loop per step.
`DtapQuotaShares!LcidQuota` says in one expression what they compute;
`MatchesLcidQuota` is the comparison, and it is `LcidQuota` that the scheduler uses.

### DtapScheduler

`sched` is `g_dtapScheduler`: for each of the four priorities the list of links, for
each link the list of channels, for each channel the list of packets, and the
counters of each level, together with `queuedPktCnt`. `bufferList`, `quota`, `sendNotAck`
are the buffer nodes, `gSendNotAck` and `apBufferNum` the globals. `inflight` and `last`
are the controller: the fragments it holds for each link and the last one it was
given. A packet knows its channel, its number, how many fragments it has and
which one it is (0: not split yet). The fragment channel that
`DTAP_GetOrCreateFragmentChannel` makes for a link is named by the link.

Each callback and entry point is an action. `DTAP_SchedulerRun`, which sends and
completions end with, is a loop over queues, links and packets; it is modelled as
one step per packet (`SchedulerRunQueue`, `NextLcid`, `SendFragment`, `SplitAndSend`,
`SchedulePriorityEnds`, `SchedulerRunEnds`) with `run` as its program counter. While
`run` is not `Idle` no handler is enabled, so handler and run form one unit, as on the
single worker thread; fairness of `RunStep` makes the loop go on. Queues that are
empty are passed over in the step to the next one. The loss of a link is a unit
too: `CM_DLIDisconnectCbk` calls CM first, which releases every channel of the link
(`ReleaseChannel`), and then the scheduler (`DLIDisconnectCbk`); likewise CM activates
the channels of a new link before the scheduler adds its buffer node.

`MayFail` turns on what can go wrong inside a run: DLI refuses a fragment that is
already split or memory is short for splitting (`ScheduleLcidFails`), DLI refuses one
in the middle of a packet (`SplitAndSend` with a smaller count), and there is no memory
to save the rest (`SaveFragmentDataFails`). A send that is refused at once (not
initialised, queue full, no memory) changes nothing and is left out. The
environment: the controller reports any number of fragments it holds as sent, and
forgets those of a lost link. A packet that a client sends from within CM's own
connect callback, before the buffer node exists, is not modelled, nor is
`DTAP_SchedulerDeinit`. Lists are filtered by `Among`, a recursive function, where
`SelectSeq` would do for TLC: the prover has no definition of that one.

### DtapUnreliable

One channel from its sender to its receiver in stream, basic or transparent mode.
`ch` is the receiver's `DTAP_Channel_S` (`NoChan` when deleted) with the fields of
`DTAP_StreamChannel_S` under the code's names, `net` the frames on the link, which may
be delivered in any order, twice (`MaxDup`) or not at all: a frame is lost at the
latest when `Depth` newer ones have been sent, the same as a late frame that is
never delivered. `clock` is the monotonic time that stamps the list nodes;
`timers` are the timerfds armed for reorder timers, by their handle, and `tasks` the
`DTAP_ReorderStreamFrameTask`s posted but not run. Both name their channel by lcid
and tcid only, so they survive `Close` and strike what `Open` puts there: a timer that
has fired leaves its number in the handle, and a handle is the lowest free number, as
for file descriptors. A timer of 0 ms never fires, because a timerfd set to 0 is
disarmed (`sdf_timer.c`). The reorder task reads the last node of a list that may
have become empty; the list head that it then reads as a node has zero bytes in the
place of the number (`LastPlusOne`).

`SEQ_INIT` and the missing wrap of `maxExpectedSeq` are kept. `UnreliableAssumption`
says the cache is less than half of the numbers and that numbers do not come round
while an old frame is under way. Frames of a deleted channel are gone when it is
added again. `taken` and `got` are the messages accepted and handed over since then.

### TransportSend

Three threads. The socket thread reads a message and waits (`ReceivedData`,
`reader`); the data transfer thread runs its jobs in order (`jobs`: a write, or
"available" for the port) and, in a write, waits for the schedule thread with a
timeout (`WriteData`, `WaitDone`, `WaitTimeout`); the schedule thread runs the posted
tasks (`SendDataProc`, then `SemPost`; `FreeSem`) and the acknowledgements of the peer
(`Acknowledged`). `req[m]` has the reference count, the state of the buffer, the
semaphore and the result of the request for message `m`; freeing is recorded instead
of forgetting, so that a use after it or a second one can be seen. Posting a work
item is atomic, and the result is stored and the reference dropped in one step: no
other thread looks at them before the semaphore is posted, except the writer that
gives up, which looks at neither. DTAP is cut down to messages of one frame, a window
and the one-message cache. A message may be refused and a post may fail (`MaxFaults`);
the post of `FreeSem` succeeds, since the code only logs its failure and then leaks the
semaphore. Stopping the worker (`ScheduleDisable`) is not modelled.

### CmDynTrans and QosmChannel

`CmDynTrans` has CM's dynamic channels of one end of a link as operators on a record:
the channel list, the tcid pool, the cached requests, the identifiers and what was
sent. A handler returns the record and the calls it makes into QOSM. `QosmChannel`
composes two of them with QOSM at both ends and the data transfer service's record of
each port: requests are posted as tasks, signalling messages arrive in order
(`Recv`), the oldest cached request times out (`Timeout`), the tuning machine gets
its three answers (`TuningRsp`) or fails (`TuningFail`), and the link is lost at one
end and then at the other (`LinkDown`) and comes back (`LinkUp`). `Outcomes` chooses
which send of a handler fails and whether a tuning request is refused; `MaxFaults`
bounds these, the refused releases and the lost links.

The result of an answer is a boolean. Of a release SUCCESS and TIMEOUT are one, since
QOSM reports both as RELEASED, and every other byte is the other. The code here answers
a release only with SUCCESS, but it takes the byte of a peer unchecked
(`cm_signaling_trans_channel.c:591`): `RefuseRelease`, an external action, gives an answer under
way the failing result. CM then frees the channel as always and QOSM only reports
RELEASE_FAIL. The list entry that stays has the history mark `refused`, which no action
looks at.

`Disconnect` changes the state of the port also while the channel is being established
and the service has no tcid to destroy (`nearlink_sle_datatransfer_service.cpp:1111`): the port may
connect again, and the answer to the first request makes it CONNECTED. A port without
record for the peer is in `INVALID_STATE`, as in `HandleConnectEvent`. The car key (ICCE), for which
no transport channel is asked for, is left out.

There is one link, so QOSM's per-link count and its total are one number. Where CM
calls QOSM before it frees a node, the model calls it after; QOSM does not look at
CM's lists in those calls. The parameters that tuning computes are reduced to low and
high. The callbacks of an event are run by a recursive function (`Handled`), which the
prover can unfold and a fold it cannot. Signalling travels over the reliable signalling channel, so messages are not
lost while the link is up.

### CmConnect

`host` has CM's logic links, the map of devices to connect with (who asked for each,
and whether the background list has it) and the direct requests not answered yet;
`cmds` and `evts` are the commands and events under way, both in order; `ctl` is the
controller: whether it initiates, its filter list and its connections by handle. The
handlers of the code are operators on `host` (`DirectConnectAddInner`,
`StartAllowListConnReq`, `ConnectCbk`, `ReadCbk`, `DisconnectCbk`, ...), each run as one
step of the schedule thread, with at most one failing call per handler and `MaxFault`
in all. The controller's part is external: it takes commands in order, connects a
listed device while it initiates or lets a peer connect (`CtlConnect`), gives a new
connection the lowest free handle, and loses connections (`CtlLose`). A second CREATE
is refused by it, and the refusal has no effect in the host.

`stale` records that a call failed since the list was last given; the code leaves
devices without a command then and only a further request repairs it.
Left out: link collaboration, `isBypass`, frame types, memory.

### SsapLink

`ssap.apps` is `g_regList` (address, state, kept operation, and `want`, what the service
asked for last), `ssap.links` the table of links by address, `ssap.cleaning` the flag of
switching off, `ssap.cm` what SSAP meets of CM: its link with the address, whether it
connects it for SSAP, and whether the modules heard of the link. `tasks` is the work
list of the schedule thread: calls of the services, SSAP's requests to CM, and CM's
reactions to the controller, which call SSAP back within the same task. The two state
machines are one operator per event and state, named as in the code
(`UserConnectInIdleState`, `LinkConnectedInConnectingState`, ...).
`RunTask` may have one call fail (`Failures`: a post to CM, CM's list being full, a
release, ...), counted only if it makes a difference. Other modules and the peer
connect and disconnect on the same address (`OtherRemoves`, `CtlConnect`, `CtlLose`).
The ids are `0 .. MaxApp - 1`, and the loops over them (`TriggerLinkStateMachineChange`,
`Removes`) are functions of the number of ids done, as in the code.

Left out: the flag for the server's clean-up, applications that deregister from within
a callback, and background connections, which SSAP does not ask for. That every wait
ends is stated as the invariant `AnswerIsDue` (whoever waits, the answer is under way)
and not under fairness: the nested handlers are too slow for TLC's liveness check.

### MC modules

`MC*.tla` give the function-valued constants their values; each `.cfg` belongs to
one run.

## 4. The runs

| run | question | bounds |
|---|---|---|
| `reliable_simplex` | one sender: order, acknowledgements, timers, window, no message dropped, the window drains | numbers 0..7, window 3, five messages (nine frames, so numbers wrap), one retransmission, two frames on the link |
| `reliable_duplex` | both send: stale piggybacked acknowledgements, failing sends, an upper layer that pauses, refinement of the queue | window 2, two and one messages, one whose frame count grows when headers become duplex, one frame on the link, each PDU may be refused once |
| `reliable_stall` | (violated) the window drains also with a message as large as the window | window 2 |
| `quota_all` | quotas are exact, proportional and as `LcidQuota` says | three links, up to four packets each, up to eight buffers: more and fewer buffers than links, ties, every remainder |
| `scheduler_order` | fragments contiguous, urgent packets first, waiting packets are sent | two links, an urgent and two normal channels, two packets each of three fragments, two buffers, so that every packet is cut |
| `scheduler_credits` | counters and controller agree over every failure | one packet of two fragments per channel, buffers from one to three and back, one released channel, one lost link that may return |
| `unreliable_modes` | order, nothing held back, nothing lost in stream and basic mode | numbers 0..7, eight messages (the numbers wrap), a list of three, two ticks of the clock with a timeout of one, one duplicate, the channel opened twice |
| `transport_send` | lifetime of request, buffer and semaphore; truth of the answers; busy ends | window 2 and six messages (the window and the cache fill and empty), two timeouts, one failure |
| `channels` | tcids, waits, QOSM's list, at both ends | two ports of which one is known to both ends, two tcids (so they are reused), three requests at one end and one at the other, one failure, refused release or lost link |
| `cm_connect` | devices waited for, links, answers | two devices, two modules, two handles, two requests, three events of the peers, one failing call |
| `ssap_apps` | two applications on one address | five calls of the services, three events of peers and other modules, one failing call |
| `ssap_last` | (violated) the last request of an application wins | six calls, two events, no failure |

The bounds are small because each handler looks at no more than the ends of a
window and one frame, or at one device, channel or application and the list it is
in; what matters is that windows fill, numbers wrap and are reused, a retransmission
meets its original, requests cross, answers come late and each limit is reached, and
each of these happens within the bounds. Larger instances that were also
checked: `SsapLink` with two addresses (6.5 million states), the invariants of
`channels` with two failures (5.5 million). Modules that ask CM are
interchangeable, so `cm_connect` uses their symmetry. Every property of
a passing run has a mutant in `PROJECT.json`: a plausible slip in a mapped
definition under which TLC finds the property violated. `CHECK_DEADLOCK` is off
because a deleted channel stops, the quota calculation returns, and the other
systems wait when nobody asks anything of them or the bounds are used up.

Fairness. `FairSpec` of `DtapReliable` assumes weak fairness of the timer handlers
(a running periodic timer fires) and of `ChannelDel` (CM carries out a release it
was asked for). Nothing is assumed of the link, which may lose every frame, nor
of the clients. `WindowDrains` therefore says that the retry limits and the cache
together never leave a client waiting.

`FairSpec` of `DtapScheduler` assumes that a run and the handling of a lost link go on to
their end, and that the controller reports fragments of a connected link as sent
some time. Clients need not send again, and links need not come back.

`FairSpec` of `TransportSend` assumes that the data transfer thread and the schedule
thread go on with what is queued for them, and that the peer acknowledges (a peer
that does not is released by the retry limit, which ends the port). The application
need not send.

`FairSpec` of `QosmChannel` assumes that queued tasks run, messages on a link that is up
are received, cached requests time out, and a lost link is noticed at both ends. The
conditions are weak fairness of `RunTask`, `Recv`, `Timeout` and `LinkDown` with enabling
condition and effect written out, which TLC evaluates much faster than `ENABLED`.
Nothing is assumed of the controller's answers to tuning.

## 5. The proofs

Every theorem below is for all values of the constants that satisfy the named
assumptions of its module; TLC checked each inductive invariant on the
component's run before it was proved.

| module | what it proves |
|---|---|
| `DtapSeqProofs` | the arithmetic of the sequence numbers and facts about lists that the others share |
| `DtapReliableProofs` | `TypeCorrect`, `TxWindowStaysConsistent`, `UnackedAlwaysWatched`, `NoMessageEverDropped`, `GapsAlwaysWatched`; `DeliversInOrder...`, `AckedWasReceived...`, `RefinesFifo...`, each one way and before the wrap, and `RefinesFifoWhileAcksSafe` |
| `DtapUnreliableProofs` | `TypeCorrect`, `NothingReadyAlwaysHeld`, `AcceptedAlwaysKept`, `ReportedAlwaysInOrder` |
| `TransportSendProofs` | `TypeCorrect`, `NothingUsedAfterFree`, `EverythingFreedOnce`, `AnswersStayTrue` |
| `CmConnectProofs` | `TypeCorrect`, `LinksAlwaysMatch`, `AsksStayPending` |
| `DtapSchedulerProofs` | `TypeCorrect`, `CreditsAlwaysMatch`, `QueuesAlwaysAccounted`, `ControllerNeverOverrun`, `UrgentIsFirst`, `FragmentsStayTogether` |
| `QosmChannelProofs` | `TypeCorrect`, `PoolAlwaysMatches`, `NoEntryEverStale` |
| `SsapLinkProofs` | `TypeCorrect`, `AppsAlwaysFollow`, `AppsAlwaysMatch`, `AnswersAlwaysDue` |

**Sequence numbers** (`DtapSeqProofs`). The sum is associative and stays in range, and
the sign-bit comparison of two numbers that are at most half the number space
apart is the comparison of their distances from a common base. `Behind(a, x)` is that
distance; through it the proofs turn sequence numbers into indices. The module also
has the least element of a set of naturals (from which the `CHOOSE`, `Min` and `Max`
of the models get their values) and what inserting into and cutting a list gives.

**Send side of the reliable mode** (`DtapReliableProofs`), for every window size below
half the number space, every threshold, fragmentation, link capacity, number of
messages and behaviour of the upper layer: `Spec => []TypeOK`,
`Spec => []TxWindowConsistent`, `Spec => []UnackedIsWatched`. The assumptions are
`SeqMaxAssumption` and `ReliableAssumption`. The one that
matters is `2 * WinSize < SeqMod`: the code's window is a `uint8_t` and its
numbers have 14 bits, so it holds there with room to spare.
The inductive invariant is `IInv == TypeOK /\ \A e : alive[e] => Good(ch[e])`, where
`Good(s)` says that `s` is a well-typed channel, its send window is consistent
(`TxWindow`) and its losses are watched (`TxLossIsWatched`). The two need each other:
that `SlideTxWindow` stops the timer only when nothing is left unacknowledged follows
only because the window is the run of consecutive numbers from `expectedAckSeq` to
`nextTxSeq`; and the type of the counters needs the retransmission to find the frame
whose number it asks for. One lemma per handler ("the handler preserves `Good`") is
stated for an arbitrary channel, and one step per action composes them.

**Messages** (`DtapReliableProofs`): `NoMessageEverDropped`, `Spec => []NoMessageDropped`, with
no further hypothesis. `KInv` adds `Kept` to `IInv`: a cached message keeps the channel
busy, and until the release is asked for the window history is the fragments of the
messages so far, each message whole and after the one before. The two need each other:
only because a channel with a full cache is busy does the client not send another
message, and only then does the cached message stay the one that comes next. Handlers
that take no message leave all of it alone (`Calm`); `DTAP_SendEnhanceFrameInner` adds one whole
message or gives the channel up (`SendsMessage`).

**Receive side** (`DtapReliableProofs`). `LocalInv` adds `LocalRx` of each endpoint: while
the upper layer takes what it is offered, `bufferSeq` equals `expectedTxSeq`, and the
receive list lies in order strictly between it and `maxExpectedTxSeq`, less than a
window ahead. `GapsAlwaysWatched` (`MaxFull = 0 => (Spec => []GapIsWatched)`) follows:
a missing frame always has a reorder timer. `MaxFull = 0` says that the upper layer
refuses no PDU. No callback in this repository does (section 3); with one that does,
the list grows past the window (section 6) and the statement is a different one.

**Delivery** (`DtapReliableProofs`). For each direction `Flow` says three things: what was
handed over is the first frames sent and the receive list holds frames at their
place (`Received`); the data frames on the link are at their place and never more
than a window behind (`InFlight`); and the send window is the last frames sent, with all
those not handed over yet among them (`Unacked`). It is inductive except for one
thing: an acknowledgement that arrives must free only frames the peer has handed
over (`AcksSafe`). From it, three results, all with `MaxFull = 0`:

* *One way*: if one endpoint sends nothing, then for any number of frames, so with
  any number of turns of the sequence numbers, `InOrderDelivery`, `AckedWasReceived` and
  `RefinesFifo` hold. The acknowledgements on the link are then in order
  (`OneWay`), so none is stale by more than a window.
* *Before the wrap*: with traffic in both directions, the same three hold as long as no
  endpoint has sent as many frames as there are numbers (16384).
* *While acknowledgements are safe*: with any traffic, `RefinesFifo` follows from
  `[]AcksSafe`.

The restriction is real. A frame that is retransmitted carries the `ReqSeq` of its first
packing (`dtap_trans_reliable.c` keeps the packed frame). If
it stays unacknowledged while the other direction goes once through the whole number
space, its `ReqSeq` reads as a fresh acknowledgement: with numbers 0..3, a window of
one, six frames from `A` and one from `B`, TLC finds `AckedWasReceived` violated. In the
code this takes 16384 frames one way while a single frame the other way is being
retransmitted, so with the code's retry limit it is out of reach in practice; the
theorems say exactly where the limit lies. They prove the invariants step by step and
the refinement by showing that every step is a step of `ReliableFifo` or a stutter.

**Unreliable modes** (`DtapUnreliableProofs`). In stream mode a channel has heard nothing
(`Silent`) or `Flows`: its list is in the order of the distances from
`expectedSeq`, all below half a turn (`Sorted`); what was accepted is what was handed over
and what is held (`Kept`); and numbers and messages agree (`InLine`): each
node, and the last message handed over, has the number the sender gave it. Between two
events none of the list is the expected one (`Gap`). A handler is split at the
points where the list, the timer or the expected number change, and `Flows` is shown at
each; `Gap` is restored by `ReportExpectedStreamFrame`. No step looks at whose timer it
is, so the theorems hold for tasks of a channel that is gone, which find the new one.
`ReportedAlwaysInOrder` has the hypothesis `Depth <= SignMask`: the link delays no frame by
half the number space or more. A frame that late is taken for a new one by
`DTAP_IsFrameSeqSmaller`. The bound `MaxMsg <= SeqMod + 1` of the model (no number is in
use for two messages at once) is an assumption of all four theorems. In basic mode the
invariant is that what was accepted is what was handed over followed by the list.

**Transport** (`TransportSendProofs`). `IInv == TypeOK /\ OneWrite /\ TaskBeforeFree /\ Lives`:
the reader of the socket has one write under way; a queued task of a request comes
before the task that frees its semaphore; and the reference count of a request is
the number of its users, the writer and the task that still hold it. From it no thread
uses what the other freed, and everything is freed once, for any number of
messages, timeouts and faults. `AnswersStayTrue` needs `Truth` on top, which relates the
window, the cache and the busy flag to the answers given, up to the first timeout.

**Connection management** (`CmConnectProofs`), for any devices, modules, handles, background
lists, requests, connections and losses over the air, and failing calls. The only
assumptions are those of `CmConnectAssumption`: finitely many devices, handles other than
`NoLcid`, a zero address that is no device's. `IInv` has, besides the types, three parts.

* `LinksOk`: the link without an address is the one without a handle and the one that is
  CONNECTING, and no device and no handle has two links.
* `Agree` relates the links, the events under way and the controller's connections by the
  *order* of the events, which `LinksMatchController` does not mention and which makes it
  inductive: a connection announced on a handle, or with a device, that has a link or an
  earlier announcement stands behind the end of that one (`LinkFirst`, `EndFirst`); what
  has a link or is announced is connected or its end follows (`LinkedOrEnds`, `UpOrEnds`);
  a handle in use again is announced behind its end (`UsedAgain`). So a COMPLETE that CM
  handles is always for a handle and a device without a link, which is why
  `SleAccessConnectCbkProc` may take the CONNECTING link without looking for another.
* While no call has failed: each connection has a link, an announcement or a release
  (`Known`); a link the modules do not know yet has a read or its end under way, one that
  is DISCONNECTING its end (`Heard`); each request has its timer or such a link (`Pending`).

Handlers are composed in two layers. Everything about the allow list and the CONNECTING
link leaves the real links, devices and requests alone (`Calm`); a request or a timer
(`Served`) keeps the pairs of device and handle and only marks links it releases; an event
(`Taken`) removes the link it ends or adds the one it announces. One lemma per handler
shows which, for an arbitrary host and an arbitrary failing call, and two lemmas
(`RunServed`, `RunTaken`) lift them to the step. The steps of the controller append to
the queue, one lemma for each kind of event. The list of a background request is a
recursive function, so its induction is one over the numbers (`InsertsExist`).

The proof changed the model in one respect. Three handlers were written with `CASE` arms
that overlap, whose value TLA+ leaves open (TLC takes the first); they are now `IF ... ELSE
IF`, in the order in which the code tests.

`WaitingIsPursued` is not a theorem: it holds with one failing call, which is what the run
allows, and not with two. A direct request is given to the controller; its repetition cannot
restart its timer, so `CM_DirectConnectAddInner` forgets the device but leaves
the CONNECTING link; the chip refuses the command under way. A background request
then gives the list to the controller, finds the link and starts no command.

**Scheduler** (`DtapSchedulerProofs`), for any finite sets of links and channels
(`SchedulerAssumption`), any packets, fragment counts, buffer numbers, refusals, released
channels and lost links. The first four theorems have no other hypothesis. Three
invariants, each the former with more:

* `IInv`: the types; `CreditsMatchController`; and `Queues`, which says of the lists that a
  channel is on no list but its own and one with packets is on it (`Placed`), of the
  counters that they are the sums of what waits, and 0 for a link that is not connected
  (`Counted`), and that only channels that exist have packets, and only links that are
  connected have channels (`OnlyUp`). `QueueAccounting` alone is not inductive.
  `DTAP_SCHED_SUB` saturates, so a counter stays exact only because it is at least what is
  taken off; `DTAP_ChannelDownProc` sets the count of a link without channels to 0, which is
  right only because no channel elsewhere holds its packets; and a link that comes up
  starts with `queuedPktCnt` 0, right only because its channels went with it.
  `CreditsAlwaysMatch`, `QueuesAlwaysAccounted` and `ControllerNeverOverrun` follow.
* `OInv` adds the order (`Passed`): while the scheduler runs, a link that could still send
  has nothing in the queues already passed, and neither has a link already passed in this
  queue; and that fragments wait in fragment channels and whole packets in the others
  (`Split`). It is inductive when DLI takes what there is room for and memory suffices
  (`~MayFail`), and `UrgentIsFirst` has that hypothesis: a packet that is cut off then leaves
  its link or the controller without room, so the link is passed rightly. A refused
  fragment breaks exactly this (section 6).
* `FInv` adds that the fragments waiting for a link are the rest of the packet begun last
  (`RestWaits`). `FragmentsStayTogether` has the further hypothesis `MaxDown = 0`: the release of a
  single channel throws the fragments of its whole link away (section 6). Links may be lost
  and come back; TLC checked this only with links that stay.

The counters are values of `SumFunctionOnSet`, which takes the elements of a set in
an order it chooses. That its value does not depend on the order, and changes with one
summand by the difference, is proved first (`SumsAddUp`, `SumRemove`, `SumUpdate`): were it
false for some subset, it would be false for one of least size. The lists' filter is
treated the same way (`AmongIs`).

**Transport channels** (`QosmChannelProofs`), for any ports and tcids, any number of signalling
identifiers, requests, failing sends and tuning steps, refused releases and lost links, from the
assumptions of `CmDynTrans` and `QosmChannel`. `QInv` has, besides the types: the
tcids in use are those of the channel list, which are distinct (`CmGood`); and the
entries of QOSM's list are of channels that are not ACTIVATING or left by a refused release, and
of several with one tcid all but the first are such leftovers (`QosGood`). The order matters:
`QOSM_TransChannelDel` removes the first entry with the tcid, and new ones are put in front.
`NoStaleQosEntry` speaks of all channels and is not inductive: QOSM adds an entry without
looking for one when an establishment is answered, which is right only because the
channel was ACTIVATING until then and had none. `Event` says the same of the handlers of
CM: a tcid leaves the settled ones only with a callback that names it, and one that
enters with ESTABLISH_SUCCESS or CONNECTED was not among them. One lemma per handler of
CM shows that it is an event, one per callback that QOSM follows it (`CallbackGood`), and
`HandledGood` joins the two. The loss of the link makes any number of callbacks, so
`LostLink` is an induction along them.

**Applications** (`SsapLinkProofs`), for any number of applications, peers, calls, events and
failing calls, from `SsapLinkAssumption`. `SInv` has two parts. `Safe` holds whatever fails:
an application in use is in the state of its link, the table holds a connection only if CM
reported it, and the work list is in order. The last is what makes the rest
inductive: the events in the list are the steps of a history of the controller's
connections from what CM believes to what is the case (`Connected`), so an UP finds no link
and a DOWN finds one, and a READY under way is of the link there is (`ReadsWell`).
`TypeCorrect` and `AppsAlwaysFollow` need no more.

`Due` holds until a call fails, if `Roomy`: the table has an entry for every peer. It is
`AnswerIsDue` made inductive. While SSAP is being switched off every connection in use is
released by a REMOVE with no ADD behind it (`LastRemove`), and one such connection has an
entry, so that SSAP hears of its end (`CleanDue`); without the order of the requests a later ADD
could undo the release the clean-up waits for. A report of CM runs the handlers of all
applications of the address: `Loop` is the invariant of that loop, in which those
already called are in the state of the link or unused, those to come are still
waiting for it, and whatever the link has become has a request to CM behind it. `Handled` says of an operator on the stack's record that it
keeps `Safe` and, unless something fails, carries `Due` from the list before to the list
after; one lemma per task shows it, and `BecomesKeeps` turns it into a step. `AppsAlwaysMatch` and
`AnswersAlwaysDue` follow.

`Roomy` is what the code states of its table of 128 entries (`ssap_link_state.c:25`, "at most
128 peers are supported"); nothing enforces it (section 6). The proof changed the
model's form, not its behaviour: the folds over sets of ids became recursive functions.

**Only model-checked**, and why. Liveness (`WindowDrains`, `WaitingIsSent`, `BusyEnds`,
`WaitsEnd`) and everything with `ENABLED` is out of the prover's reach. `WaitingIsPursued`
holds only for one failing call (above). `WaitingIsWatched` does not hold for every `IdMod`: with one
or two identifiers TLC finds an answer, late by a whole turn of them, that takes the
cached request of another channel (the code has 256, and its requests live 21 s).
`QuotaConserved`, `MoreQueuedNotLess` and `MatchesLcidQuota` say what the largest remainders
compute, an induction over data.

## 6. Findings

Disagreements between the code and what it or the documentation says; each
is a run whose property TLC refutes.

* `reliable_stall`. `DTAP_SendEnhanceFrame` accepts a message that fills the window
  exactly, but the cached message is sent only if it leaves the window not full
  (`dtap.c:457`). A message of window-many frames that had to be cached is never
  sent; the channel stays busy until it is released. The comment at
  `dtap_trans_reliable.c:706` says it is retried whenever the window slides.
* `ssap_last`. An application asks to connect while the shared link is being released
  for another one: the connect is kept. It asks to disconnect and is told
  DISCONNECTED, but the kept connect stays (`ssapc_app_link_sm.c:189`, `:581`) and is
  carried out when the link is gone. For the same sequence in another state the
  comment at `ssapc_app_link_sm.c:505` says the kept connect is dropped.

Behaviours met while modelling that limit what the properties can say; they are
visible in the models and are not kept as runs.

* Reliable mode with an upper layer that refuses PDUs (none in this repository does,
  see `MaxFull`): `DTAP_RecvFragmentFrame` trims a buffer before it asks, so a refused
  PDU is trimmed twice (`dtap_frame_enhance.c:135`, against the comment at `:77`); and
  data frames acknowledge `expectedTxSeq` (`dtap_trans_reliable.c:583`) where
  acknowledgement frames use `bufferSeq` (comment at `:50`), so the receive list
  grows past the window.
* Scheduler: `DTAP_DLIDisconnectCbk` gives the buffers of a lost link back without
  running the scheduler (`dtap_scheduler.c:281`); packets of other links wait until the next
  send or completion. After a refused fragment a packet of the same link may be sent
  between the fragments of another. `DTAP_ChannelDown` discards the fragment channel
  of the link whichever channel is released. `WaitingIsSent` and
  `FragmentsContiguous` are therefore checked with `MayFail = FALSE` and links that stay.
* Stream mode: the timer that is to give up a frame may be started with 0 ms and is
  then never armed (`dtap_trans_stream.c:157`); the gap stays until the missing frame
  comes, or the list is full and everything is refused. `NothingReadyIsHeld` is about
  frames in order only.
* Transport: a message whose wait timed out is answered as failed and sent all the
  same, and it may find the cache occupied and be dropped (`transport.c:413`).
  `AnswersAreTrue` is stated up to the first timeout.
* CM, links: the completion of a connection whose command was cancelled takes the
  CONNECTING link of the command given after it (`sle_access_dli.c:155`).
  If `DLI_SetDataLength` fails, the link stays connected and no module is told
  (`sle_access_dli.c:679`). A failed create leaves devices waiting with
  no command until the next request. The properties allow for failed calls.
* QOSM, refused release: the comment at `qosm_trans_channel.c:664` says that CM cleans up whether
  a release succeeded or failed, so that it is reported as released. The code under it
  (`:669`) does otherwise: when the peer answers with a failure, CM frees the channel
  (`cm_dyn_trans_chan_state_mgr.c:365`), and QOSM reports RELEASE_FAIL and keeps the entry. The link
  keeps the speed of a channel that is gone until it is lost; the service has the port
  CONNECTING with the freed tcid, does not connect it again, and on a disconnect would
  destroy the channel that has the tcid by then. A peer that runs this code never gives
  such an answer. Without its exception for `refused` entries TLC finds `NoStaleQosEntry`
  violated after one such answer.
* QOSM: an establishment that fails after it was counted is never counted down
  (`qosm_trans_channel.c:640`); of 20 the channels run out after as many failures. A
  tuning that ends reports its channel although it may be gone. A disconnect during the
  establishment is overtaken by its answer: the port becomes CONNECTED and stays so.
* SSAP: DISCONNECTED as an answer to an older request reaches an application after a
  new connect was posted, and a REMOVE posted before the link was lost may release the
  connection made since. A post that fails leaves an application CONNECTING. While
  the table is full, a connection CM reports is not recorded
  (`ssap_link_state.c:180`); when an entry is free again a connect to that peer is posted,
  CM ignores it because the link is there (`cm_concurrent_conn.c:1188`), and the
  application stays CONNECTING. With two addresses and one entry TLC finds this for
  `AppsMatchLink` and `AnswerIsDue`.

## 7. What is not modelled

Bytes: header layouts, CRC, encryption, sizes. Allocation failures. Log output and
statistics. Stopping the stack while requests are under way, except SSAP's clean-up.

Of CM: parameter, PHY, MCS and subrate requests of other modules, the exchange of
capabilities, fixed channels. Of QOSM: rate adaptation and isochronous groups,
numeric policies over measured values. Of SSAP: the request protocol, the server and the
service database. SM, DEVD, HADM, measurement and the profiles are listed in
`PROJECT.json` with the reason. IPC, bindings and the system services are C++ wrappers
whose state is callbacks and caches of the stack's state; they are by far the largest
part of the repository's lines. The driver and the controller are environments of
the models.
