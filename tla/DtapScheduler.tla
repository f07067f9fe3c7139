--------------------------- MODULE DtapScheduler ---------------------------
(***************************************************************************)
(* The send scheduler of DTAP (dtap_scheduler.c): the packets of all       *)
(* channels of all links wait in four priority queues and are handed to    *)
(* DLI, in fragments, as long as the controller has free buffers and the   *)
(* link has quota left.                                                    *)
(*                                                                         *)
(* The scheduler runs on one worker thread.  DTAP_SchedulerRun is modelled *)
(* as one step per packet: while it is on its way ("run" is not Idle) no   *)
(* other handler is enabled, so a handler and the run at its end are one   *)
(* unit.  So are the releases of all channels of a link that is lost and   *)
(* the disconnect callback that follows them ("losing" is not empty).      *)
(*                                                                         *)
(* The fragment channel of a link, which belongs to no transmission        *)
(* channel, is named by the link.                                          *)
(***************************************************************************)
EXTENDS DtapQuotaShares

CONSTANTS
    Lcid,        \* the links, by their lcid
    Chan,        \* the transmission channels
    LcidOf,      \* LcidOf[c]: the link of channel c
    PriorityOf,  \* PriorityOf[c]: the DTAP_ChannelPriority of channel c
    FragmentCnts,\* the numbers of fragments DLI_GetDataFragmentNums answers
    MaxPkt,      \* bound: the packets sent on one channel
    ApBufferNums,\* the numbers of buffers the controller reports
    MayFail,     \* memory may be short and DLI_DataSend may refuse a fragment
    MaxDown,     \* bound: how often a channel is released on its own
    MaxDisconnect\* bound: how often a link is lost

DTAP_PACKET_MAX_SIZE == 10000
DTAP_PRIORITY_FRAGMENT == 0
DTAP_PRIORITY_NORMAL == 3
Priority == DTAP_PRIORITY_FRAGMENT .. DTAP_PRIORITY_NORMAL

ASSUME SchedulerAssumption ==
    /\ IsFiniteSet(Lcid) /\ IsFiniteSet(Chan) /\ Chan \cap Lcid = {}
    /\ LcidOf \in [Chan -> Lcid]
    /\ PriorityOf \in [Chan -> Priority \ {DTAP_PRIORITY_FRAGMENT}]
    /\ FragmentCnts \subseteq Nat \ {0}
    /\ MaxPkt \in Nat /\ MaxDown \in Nat /\ MaxDisconnect \in Nat
    /\ ApBufferNums \subseteq Nat
    /\ MayFail \in BOOLEAN

VARIABLES
    sched,       \* g_dtapScheduler and the queuedPktCnt of the buffer nodes
    bufferList,  \* g_lcidBufferList: the links that are connected, in that order
    quota,       \* quota of every buffer node
    sendNotAck,  \* sendNotAckPktCnt of every buffer node
    gSendNotAck, \* g_sendNotAckPktCnt
    apBufferNum, \* g_apBufferNum
    run,         \* where DTAP_SchedulerRun is
    losing,      \* the link whose loss CM is dealing with, if any
    up,          \* the channels that exist
    created,     \* created[c]: the packets sent on c so far
    inflight,    \* inflight[l]: the fragments of link l the controller holds
    last,        \* last[l]: the fragment last handed over for link l
    faults       \* the releases and disconnections so far

bufVars == <<bufferList, quota, sendNotAck, gSendNotAck, apBufferNum>>
ctrlVars == <<inflight, last>>
envVars == <<up, created, faults>>
vars == <<sched, bufVars, run, losing, ctrlVars, envVars>>

\* Channels as the queues know them, with the fragment channels.
QueueChan == Chan \cup Lcid
LinkOf(c) == IF c \in Lcid THEN c ELSE LcidOf[c]
QueueOf(c) == IF c \in Lcid THEN DTAP_PRIORITY_FRAGMENT ELSE PriorityOf[c]
ChannelsOf(l) == {c \in Chan : LcidOf[c] = l}

\* A packet: the id-th of its channel, cnt fragments long.  idx = 0 if it is not split,
\* else the number of the fragment it holds.
Packet == [chan : Chan, id : Nat \ {0}, idx : Nat, cnt : Nat \ {0}]

\* No fragment was handed over since the link came up.
Nothing == [idx |-> 0, cnt |-> 0]

Scheduler ==
    [pktList : [QueueChan -> Seq(Packet)],
     lcidList : [Priority -> Seq(Lcid)],
     channelList : [Priority -> [Lcid -> Seq(QueueChan)]],
     lcidPktCnt : [Priority -> [Lcid -> Nat]],
     pktCnt : [Priority -> Nat],
     queuedPktCnt : [Lcid -> Nat]]

Idle == [at |-> "idle", priority |-> 0, pos |-> 1, scheduled |-> {}]

DTAP_SCHED_SUB(x, y) == IF x > y THEN x - y ELSE 0

\* The members of seq that are in S, in their order.
Among(seq, S) ==
    LET f[n \in 0 .. Len(seq)] ==
            IF n = 0 THEN <<>>
            ELSE IF seq[n] \in S THEN Append(f[n - 1], seq[n]) ELSE f[n - 1]
    IN  f[Len(seq)]

Without(seq, e) == Among(seq, Range(seq) \ {e})
Insert(seq, e) == IF e \in Range(seq) THEN seq ELSE Append(seq, e)

Connected(l) == l \in Range(bufferList)

\* The worker thread is free for the next handler.
Ready == run = Idle /\ losing = {}

-----------------------------------------------------------------------------
(***************************************************************************)
(* The queues: operators from a Scheduler to a Scheduler.                  *)
(***************************************************************************)
PriorityQueuePush(s, c, pkts) ==
    LET p == QueueOf(c)
        l == LinkOf(c)
    IN  [s EXCEPT !.lcidList[p] = Insert(@, l),
                  !.channelList[p][l] = Insert(@, c),
                  !.lcidPktCnt[p][l] = @ + Len(pkts),
                  !.pktCnt[p] = @ + Len(pkts),
                  !.queuedPktCnt[l] = IF Connected(l) THEN @ + Len(pkts) ELSE @,
                  !.pktList[c] = @ \o pkts]

\* The first channel of link l in queue p that has a packet.
CanPeek(s, p, l) ==
    /\ s.lcidPktCnt[p][l] # 0
    /\ \E c \in Range(s.channelList[p][l]) : s.pktList[c] # <<>>

PriorityQueuePeek(s, p, l) ==
    Head(Among(s.channelList[p][l], {c \in QueueChan : s.pktList[c] # <<>>}))

\* Mutant of PriorityQueuePop: fragments are counted instead of packets.
PriorityQueuePopFragments(s, c) ==
    LET p == QueueOf(c)
        l == LinkOf(c)
    IN  [s EXCEPT !.pktList[c] = Tail(@),
                  !.lcidPktCnt[p][l] = @ - Head(s.pktList[c]).cnt,
                  !.pktCnt[p] = @ - Head(s.pktList[c]).cnt,
                  !.queuedPktCnt[l] = DTAP_SCHED_SUB(@, 1)]

\* A channel that still has packets goes to the tail, to be fair to the others.
PriorityQueuePop(s, c) ==
    LET p == QueueOf(c)
        l == LinkOf(c)
    IN  [s EXCEPT !.pktList[c] = Tail(@),
                  !.lcidPktCnt[p][l] = DTAP_SCHED_SUB(@, 1),
                  !.pktCnt[p] = DTAP_SCHED_SUB(@, 1),
                  !.queuedPktCnt[l] = DTAP_SCHED_SUB(@, 1),
                  !.channelList[p][l] = IF Tail(s.pktList[c]) = <<>> THEN @
                                        ELSE Append(Without(@, c), c)]

\* Mutant of ChannelDownProc: the count of the queue is left as it is.
ChannelDownProcKeepsCount(s, c) ==
    LET p == QueueOf(c)
        l == LinkOf(c)
        n == Len(s.pktList[c])
        channels == Without(s.channelList[p][l], c)
    IN  IF c \notin Range(s.channelList[p][l]) THEN s
        ELSE [s EXCEPT !.pktList[c] = <<>>,
                       !.channelList[p][l] = channels,
                       !.lcidList[p] = IF channels = <<>> THEN Without(@, l) ELSE @,
                       !.lcidPktCnt[p][l] = IF channels = <<>> THEN 0 ELSE DTAP_SCHED_SUB(@, n),
                       !.queuedPktCnt[l] = DTAP_SCHED_SUB(@, n)]

\* DTAP_ChannelDownProc: channel c leaves its queue, and so does a link without channels.
ChannelDownProc(s, c) ==
    LET p == QueueOf(c)
        l == LinkOf(c)
        n == Len(s.pktList[c])
        channels == Without(s.channelList[p][l], c)
    IN  IF c \notin Range(s.channelList[p][l]) THEN s
        ELSE [s EXCEPT !.pktList[c] = <<>>,
                       !.channelList[p][l] = channels,
                       !.lcidList[p] = IF channels = <<>> THEN Without(@, l) ELSE @,
                       !.lcidPktCnt[p][l] = IF channels = <<>> THEN 0 ELSE DTAP_SCHED_SUB(@, n),
                       !.pktCnt[p] = DTAP_SCHED_SUB(@, n),
                       !.queuedPktCnt[l] = DTAP_SCHED_SUB(@, n)]

\* The fragment channel of the link goes with every channel of it.
ChannelDown(s, c) == ChannelDownProc(ChannelDownProc(s, LinkOf(c)), c)

-----------------------------------------------------------------------------
(***************************************************************************)
(* DTAP_SchedulerRun.                                                      *)
(***************************************************************************)
CanSend(l) ==
    /\ Connected(l)
    /\ gSendNotAck < apBufferNum
    /\ sendNotAck[l] < quota[l]

StartRun == run' = [Idle EXCEPT !.at = "queue"]

\* The queues from run.priority on that are not empty.
Waiting == {p \in run.priority .. DTAP_PRIORITY_NORMAL : sched.pktCnt[p] # 0}

\* The chip buffer is full, or no queue is left.
SchedulerRunEnds ==
    /\ run.at = "queue"
    /\ gSendNotAck >= apBufferNum \/ Waiting = {}
    /\ run' = Idle
    /\ UNCHANGED <<sched, bufVars, losing, ctrlVars, envVars>>

\* Mutant of SchedulerRunQueue: the queues are taken in the opposite order.
SchedulerRunQueueReversed ==
    /\ run.at = "queue"
    /\ gSendNotAck < apBufferNum
    /\ \E p \in Waiting :
        /\ \A o \in Waiting : p >= o
        /\ run' = [Idle EXCEPT !.at = "lcid", !.priority = p]
    /\ UNCHANGED <<sched, bufVars, losing, ctrlVars, envVars>>

SchedulerRunQueue ==
    /\ run.at = "queue"
    /\ gSendNotAck < apBufferNum
    /\ \E p \in Waiting :
        /\ \A o \in Waiting : p <= o
        /\ run' = [Idle EXCEPT !.at = "lcid", !.priority = p]
    /\ UNCHANGED <<sched, bufVars, losing, ctrlVars, envVars>>

\* The links of the queue that were given a turn go to its tail.
Rotate(list, scheduled) ==
    Among(list, Range(list) \ scheduled) \o Among(list, scheduled)

SchedulePriorityEnds ==
    /\ run.at = "lcid"
    /\ run.pos > Len(sched.lcidList[run.priority])
    /\ sched' = [sched EXCEPT !.lcidList[run.priority] = Rotate(@, run.scheduled)]
    /\ run' = [Idle EXCEPT !.at = "queue", !.priority = run.priority + 1]
    /\ UNCHANGED <<bufVars, losing, ctrlVars, envVars>>

\* DTAP_ScheduleLcid has come to link l.
AtLink(l) ==
    /\ run.at = "lcid"
    /\ run.pos <= Len(sched.lcidList[run.priority])
    /\ l = sched.lcidList[run.priority][run.pos]

\* The link has no quota or no packet left: on to the next one.
NextLcid(l) ==
    /\ AtLink(l)
    /\ ~CanSend(l) \/ ~CanPeek(sched, run.priority, l)
    /\ run' = [run EXCEPT !.pos = @ + 1,
                          !.scheduled = IF CanSend(l) THEN @ \cup {l} ELSE @]
    /\ UNCHANGED <<sched, bufVars, losing, ctrlVars, envVars>>

\* The packet of channel c is the next one of link l.
AtPacket(l, c) ==
    /\ AtLink(l)
    /\ CanSend(l)
    /\ CanPeek(sched, run.priority, l)
    /\ c = PriorityQueuePeek(sched, run.priority, l)

\* The first n calls of DTAP_SendData for a packet were accepted; the last handed over frag.
SendData(l, n, frag) ==
    /\ sendNotAck' = [sendNotAck EXCEPT ![l] = @ + n]
    /\ gSendNotAck' = gSendNotAck + n
    /\ inflight' = [inflight EXCEPT ![l] = @ + n]
    /\ last' = [last EXCEPT ![l] = IF n = 0 THEN @ ELSE frag]
    /\ UNCHANGED <<bufferList, quota, apBufferNum>>

\* A packet that is already a fragment.
SendFragment(l) == \E c \in QueueChan :
    LET pkt == Head(sched.pktList[c]) IN
    /\ AtPacket(l, c)
    /\ pkt.idx # 0
    /\ SendData(l, 1, pkt)
    /\ sched' = PriorityQueuePop(sched, c)
    /\ run' = [run EXCEPT !.scheduled = @ \cup {l}]
    /\ UNCHANGED <<losing, envVars>>

\* DLI refuses a fragment, or a packet cannot be split: it stays where it is and
\* DTAP_SchedulePriority and DTAP_SchedulerRun give up.
ScheduleLcidFails(l) == \E c \in QueueChan :
    /\ MayFail
    /\ AtPacket(l, c)
    /\ sched' = [sched EXCEPT !.lcidList[run.priority] = Rotate(@, run.scheduled \cup {l})]
    /\ run' = Idle
    /\ UNCHANGED <<bufVars, losing, ctrlVars, envVars>>

\* Mutant of SendCnts: only the quota of the link is looked at between fragments.
SendCntsQuotaOnly(l, cnt) ==
    {n \in 0 .. cnt :
        /\ sendNotAck[l] + n <= quota[l]
        /\ n = cnt \/ sendNotAck[l] + n = quota[l]}

\* How many of cnt fragments the loop sends: it stops when there is no room left or when
\* DLI refuses one.
SendCnts(l, cnt) ==
    {n \in 0 .. cnt :
        /\ sendNotAck[l] + n <= quota[l]
        /\ gSendNotAck + n <= apBufferNum
        /\ \/ n = cnt
           \/ sendNotAck[l] + n = quota[l]
           \/ gSendNotAck + n = apBufferNum
           \/ MayFail}

\* The fragments after the first n of a packet.
Remainder(pkt, n) == [k \in 1 .. pkt.cnt - n |-> [pkt EXCEPT !.idx = n + k]]

\* Mutant of SplitAndSend: the rest goes back to the channel's own list.
SplitAndSendRequeues(l) == \E c \in QueueChan :
    LET pkt == Head(sched.pktList[c])
        popped == PriorityQueuePop(sched, c)
    IN
    /\ AtPacket(l, c)
    /\ pkt.idx = 0
    /\ \E n \in SendCnts(l, pkt.cnt) :
        /\ SendData(l, n, [pkt EXCEPT !.idx = n])
        /\ sched' = IF n = pkt.cnt THEN popped ELSE PriorityQueuePush(popped, c, Remainder(pkt, n))
        /\ run' = [run EXCEPT !.pos = IF n = pkt.cnt THEN @ ELSE @ + 1,
                              !.scheduled = @ \cup {l}]
    /\ UNCHANGED <<losing, envVars>>

\* A packet that is not split yet: fragments are sent while there is room (and DLI takes
\* them), the rest is saved in the fragment channel and the next link has its turn.
SplitAndSend(l) == \E c \in QueueChan :
    LET pkt == Head(sched.pktList[c])
        popped == PriorityQueuePop(sched, c)
    IN
    /\ AtPacket(l, c)
    /\ pkt.idx = 0
    /\ \E n \in SendCnts(l, pkt.cnt) :
        /\ SendData(l, n, [pkt EXCEPT !.idx = n])
        /\ \/ /\ n = pkt.cnt
              /\ sched' = popped
              /\ run' = [run EXCEPT !.scheduled = @ \cup {l}]
           \/ /\ n < pkt.cnt
              /\ sched' = PriorityQueuePush(popped, l, Remainder(pkt, n))
              /\ run' = [run EXCEPT !.pos = @ + 1, !.scheduled = @ \cup {l}]
    /\ UNCHANGED <<losing, envVars>>

\* The same, but there is no memory to save the rest: it is lost and the run ends.
SaveFragmentDataFails(l) == \E c \in QueueChan :
    LET pkt == Head(sched.pktList[c])
        popped == PriorityQueuePop(sched, c)
    IN
    /\ MayFail
    /\ AtPacket(l, c)
    /\ pkt.idx = 0
    /\ \E n \in SendCnts(l, pkt.cnt) \ {pkt.cnt} : SendData(l, n, [pkt EXCEPT !.idx = n])
    /\ sched' = [popped EXCEPT !.lcidList[run.priority] = Rotate(@, run.scheduled \cup {l})]
    /\ run' = Idle
    /\ UNCHANGED <<losing, envVars>>

-----------------------------------------------------------------------------
(***************************************************************************)
(* The handlers.                                                           *)
(***************************************************************************)
\* DTAP_RecalcLcidQuota, for the buffer list, the queues and the buffer number it finds.
RecalcLcidQuota(links, s, num) ==
    LET share == LcidQuota(links, s.queuedPktCnt, num)
    IN  quota' = [l \in Lcid |-> IF l \in Range(links) THEN share[l] ELSE 0]

DataSendWithPriority(c) == \E cnt \in FragmentCnts :
    LET l == LcidOf[c]
        pkt == [chan |-> c, id |-> created[c] + 1, idx |-> 0, cnt |-> cnt]
        pushed == PriorityQueuePush(sched, c, <<pkt>>)
    IN
    /\ Ready
    /\ c \in up
    /\ created[c] < MaxPkt
    /\ sched.pktCnt[PriorityOf[c]] < DTAP_PACKET_MAX_SIZE
    /\ sched' = pushed
    /\ created' = [created EXCEPT ![c] = @ + 1]
    /\ IF Connected(l) /\ sendNotAck[l] >= quota[l] /\ gSendNotAck < apBufferNum
       THEN RecalcLcidQuota(bufferList, pushed, apBufferNum)
       ELSE UNCHANGED quota
    /\ StartRun
    /\ UNCHANGED <<bufferList, sendNotAck, gSendNotAck, apBufferNum, losing, ctrlVars, up, faults>>

\* Mutant of SendCompleteCbk: the scheduler is not run.
SendCompleteCbkNoRun(l) == \E n \in 1 .. inflight[l] :
    /\ Ready
    /\ Connected(l)
    /\ inflight' = [inflight EXCEPT ![l] = @ - n]
    /\ gSendNotAck' = DTAP_SCHED_SUB(gSendNotAck, n)
    /\ sendNotAck' = [sendNotAck EXCEPT ![l] = DTAP_SCHED_SUB(@, n)]
    /\ RecalcLcidQuota(bufferList, sched, apBufferNum)
    /\ UNCHANGED <<sched, bufferList, apBufferNum, run, losing, last, envVars>>

\* The controller reports n fragments of link l as sent.
SendCompleteCbk(l) == \E n \in 1 .. inflight[l] :
    /\ Ready
    /\ Connected(l)
    /\ inflight' = [inflight EXCEPT ![l] = @ - n]
    /\ gSendNotAck' = DTAP_SCHED_SUB(gSendNotAck, n)
    /\ sendNotAck' = [sendNotAck EXCEPT ![l] = DTAP_SCHED_SUB(@, n)]
    /\ RecalcLcidQuota(bufferList, sched, apBufferNum)
    /\ StartRun
    /\ UNCHANGED <<sched, bufferList, apBufferNum, losing, last, envVars>>

\* A link comes up: CM activates its channels, then the scheduler adds the buffer node.
DLIConnectCbk(l) ==
    /\ Ready
    /\ ~Connected(l)
    /\ up' = up \cup ChannelsOf(l)
    /\ bufferList' = Append(bufferList, l)
    /\ RecalcLcidQuota(bufferList', sched, apBufferNum)
    /\ UNCHANGED <<sched, sendNotAck, gSendNotAck, apBufferNum, run, losing, ctrlVars, created, faults>>

\* A link is lost; CM releases its channels one after the other.
LinkLost(l) ==
    /\ Ready
    /\ Connected(l)
    /\ faults.disconnects < MaxDisconnect
    /\ faults' = [faults EXCEPT !.disconnects = @ + 1]
    /\ losing' = {l}
    /\ UNCHANGED <<sched, bufVars, run, ctrlVars, up, created>>

ReleaseChannel(c) ==
    /\ LcidOf[c] \in losing
    /\ c \in up
    /\ sched' = ChannelDown(sched, c)
    /\ up' = up \ {c}
    /\ UNCHANGED <<bufVars, run, losing, ctrlVars, created, faults>>

\* Mutant of DLIDisconnectCbk: what the controller held is not taken back.
DLIDisconnectCbkKeepsCredit(l) ==
    /\ l \in losing
    /\ up \cap ChannelsOf(l) = {}
    /\ losing' = {}
    /\ bufferList' = Without(bufferList, l)
    /\ sendNotAck' = [sendNotAck EXCEPT ![l] = 0]
    /\ sched' = [sched EXCEPT !.queuedPktCnt[l] = 0]
    /\ RecalcLcidQuota(bufferList', sched', apBufferNum)
    /\ inflight' = [inflight EXCEPT ![l] = 0]
    /\ last' = [last EXCEPT ![l] = Nothing]
    /\ UNCHANGED <<gSendNotAck, apBufferNum, run, envVars>>

\* Then the scheduler takes back what the controller held for the link.  It does not run.
DLIDisconnectCbk(l) ==
    /\ l \in losing
    /\ up \cap ChannelsOf(l) = {}
    /\ losing' = {}
    /\ gSendNotAck' = DTAP_SCHED_SUB(gSendNotAck, sendNotAck[l])
    /\ bufferList' = Without(bufferList, l)
    /\ sendNotAck' = [sendNotAck EXCEPT ![l] = 0]
    /\ sched' = [sched EXCEPT !.queuedPktCnt[l] = 0]
    /\ RecalcLcidQuota(bufferList', sched', apBufferNum)
    /\ inflight' = [inflight EXCEPT ![l] = 0]
    /\ last' = [last EXCEPT ![l] = Nothing]
    /\ UNCHANGED <<apBufferNum, run, envVars>>

\* The peer or the client releases one channel of a link that stays up.
ChannelDel(c) ==
    /\ Ready
    /\ c \in up
    /\ faults.downs < MaxDown
    /\ faults' = [faults EXCEPT !.downs = @ + 1]
    /\ sched' = ChannelDown(sched, c)
    /\ up' = up \ {c}
    /\ UNCHANGED <<bufVars, run, losing, ctrlVars, created>>

\* The channel is established again.
ChannelAdd(c) ==
    /\ Ready
    /\ Connected(LcidOf[c])
    /\ c \notin up
    /\ up' = up \cup {c}
    /\ UNCHANGED <<sched, bufVars, run, losing, ctrlVars, created, faults>>

\* The controller (or the collaboration service) sets the number of buffers.
SetApBufferNum(num) ==
    /\ Ready
    /\ apBufferNum' = num
    /\ RecalcLcidQuota(bufferList, sched, num)
    /\ UNCHANGED <<sched, bufferList, sendNotAck, gSendNotAck, run, losing, ctrlVars, envVars>>

Init ==
    /\ sched = [pktList |-> [c \in QueueChan |-> <<>>],
                lcidList |-> [p \in Priority |-> <<>>],
                channelList |-> [p \in Priority |-> [l \in Lcid |-> <<>>]],
                lcidPktCnt |-> [p \in Priority |-> [l \in Lcid |-> 0]],
                pktCnt |-> [p \in Priority |-> 0],
                queuedPktCnt |-> [l \in Lcid |-> 0]]
    /\ bufferList = <<>>
    /\ quota = [l \in Lcid |-> 0]
    /\ sendNotAck = [l \in Lcid |-> 0]
    /\ gSendNotAck = 0
    /\ apBufferNum = DTAP_MIN_BUFFER_NUM
    /\ run = Idle
    /\ losing = {}
    /\ up = {}
    /\ created = [c \in Chan |-> 0]
    /\ inflight = [l \in Lcid |-> 0]
    /\ last = [l \in Lcid |-> Nothing]
    /\ faults = [downs |-> 0, disconnects |-> 0]

RunStep ==
    \/ SchedulerRunEnds
    \/ SchedulerRunQueue
    \/ SchedulePriorityEnds
    \/ \E l \in Lcid : \/ NextLcid(l)
                       \/ SendFragment(l)
                       \/ SplitAndSend(l)
                       \/ ScheduleLcidFails(l)
                       \/ SaveFragmentDataFails(l)

LossStep ==
    \/ \E c \in Chan : ReleaseChannel(c)
    \/ \E l \in Lcid : DLIDisconnectCbk(l)

Next ==
    \/ RunStep
    \/ LossStep
    \/ \E c \in Chan : DataSendWithPriority(c) \/ ChannelDel(c) \/ ChannelAdd(c)
    \/ \E l \in Lcid : SendCompleteCbk(l) \/ DLIConnectCbk(l) \/ LinkLost(l)
    \/ \E num \in ApBufferNums : SetApBufferNum(num)

Spec == Init /\ [][Next]_vars

\* A handler runs to its end, and the controller reports the fragments it has sent.
Fairness ==
    /\ WF_vars(RunStep)
    /\ WF_vars(LossStep)
    /\ \A l \in Lcid : WF_vars(SendCompleteCbk(l))

FairSpec == Spec /\ Fairness

-----------------------------------------------------------------------------
(***************************************************************************)
(* Properties.                                                             *)
(***************************************************************************)
\* Every counter, list and flag of the scheduler keeps its type.
TypeOK ==
    /\ sched \in Scheduler
    /\ bufferList \in Seq(Lcid)
    /\ quota \in [Lcid -> Nat]
    /\ sendNotAck \in [Lcid -> Nat]
    /\ gSendNotAck \in Nat
    /\ apBufferNum \in Nat
    /\ run \in [at : {"idle", "queue", "lcid"}, priority : 0 .. DTAP_PRIORITY_NORMAL + 1,
                pos : Nat \ {0}, scheduled : SUBSET Lcid]
    /\ losing \in SUBSET Lcid
    /\ up \in SUBSET Chan
    /\ created \in [Chan -> Nat]
    /\ inflight \in [Lcid -> Nat]
    /\ last \in [Lcid -> Packet \cup {Nothing}]
    /\ faults \in [downs : Nat, disconnects : Nat]

Held == SumFunction(inflight)

\* The scheduler's counters say what the controller holds, for every link and in all, over
\* sending, completion, refusal by DLI, loss of a link and its return.
CreditsMatchController ==
    /\ \A l \in Lcid : sendNotAck[l] = inflight[l]
    /\ gSendNotAck = Held

\* A fragment is only handed over while the controller has a free buffer, however the number
\* of buffers and the quotas change between runs.
NeverOverrun == [][SumFunction(inflight') > Held => SumFunction(inflight') <= apBufferNum]_vars

\* The packets of link l that wait in queue p.
WaitingPkts(p, l) ==
    SumFunctionOnSet([c \in QueueChan |-> Len(sched.pktList[c])],
                     {c \in QueueChan : LinkOf(c) = l /\ QueueOf(c) = p})

\* The counters of link nodes, queues and buffer nodes are exact, and every packet that waits
\* is on a list that the scheduler walks: its channel is on the list of its link, and the link
\* on the list of its queue.  A counter that is too small hides packets for good.
QueueAccounting ==
    /\ \A p \in Priority :
        /\ sched.pktCnt[p] = SumFunction(sched.lcidPktCnt[p])
        /\ \A l \in Lcid : sched.lcidPktCnt[p][l] = WaitingPkts(p, l)
    /\ \A l \in Range(bufferList) :
        sched.queuedPktCnt[l] = SumFunction([p \in Priority |-> WaitingPkts(p, l)])
    /\ \A c \in QueueChan : sched.pktList[c] # <<>> =>
        /\ c \in Range(sched.channelList[QueueOf(c)][LinkOf(c)])
        /\ LinkOf(c) \in Range(sched.lcidList[QueueOf(c)])

\* The fragments of a link reach the controller packet after packet, with no fragment of
\* another packet between them and none left out: the peer's DLI_CheckPb discards the packet
\* otherwise.
FragmentsContiguous == [][
    \A l \in Lcid : inflight'[l] > inflight[l] =>
        \/ last[l].idx = last[l].cnt
        \/ last'[l] = [last[l] EXCEPT !.idx = @ + 1]]_vars

\* A packet is only handed over when no packet of a more urgent queue waits for the same link.
UrgentFirst == [][
    \A l \in Lcid : inflight'[l] > inflight[l] =>
        \A c \in QueueChan : LinkOf(c) = l /\ QueueOf(c) < run.priority => sched.pktList[c] = <<>>]_vars

\* A packet that waits for a link that stays connected is handed over in the end.
WaitingIsSent == \A c \in QueueChan :
    sched.pktList[c] # <<>> ~> sched.pktList[c] = <<>>
=============================================================================
