--------------------------- MODULE DtapUnreliable ---------------------------
(***************************************************************************)
(* The transmission modes of DTAP that do not retransmit: stream mode      *)
(* (dtap_trans_stream.c), which numbers its frames and puts them back in   *)
(* order, basic mode (dtap_trans_basic.c), which keeps frames back until   *)
(* the link is ready, and transparent mode, which passes them on.          *)
(*                                                                         *)
(* One channel is modelled from its sender to its receiver, over a link    *)
(* that loses, delays and duplicates frames.  The channel may be deleted   *)
(* and added again with the same lcid and tcid, possibly in another mode,  *)
(* while a reorder timer or its task of the old channel is still under     *)
(* way: both find the channel by lcid and tcid only.  Handlers, timers and *)
(* tasks all run on the schedule thread, so each is one action.            *)
(***************************************************************************)
EXTENDS DtapSeq, Sequences, FiniteSetsExt

Seqs == INSTANCE SequencesExt

CONSTANTS
    ReorderTimeout,   \* stream->reorderTimeout, in ticks of the clock
    CacheMax,         \* DTAP_STREAM_CACHE_MAX (256), DTAP_BASIC_MODE_MAX_CACHE_NUM (64)
    MaxMsg,           \* bound: the messages sent
    Depth,            \* bound: a frame is lost at the latest when Depth newer ones are sent
    MaxDup,           \* bound: the frames the link delivers twice
    MaxClock,         \* bound: the ticks of the clock
    MaxOpens          \* bound: how often the channel is added

\* The cache is smaller than half the sequence numbers (257 against 8192, as in the
\* code), and no number is in use twice: the link never loses 16383 frames in a row.
ASSUME UnreliableAssumption ==
    /\ ReorderTimeout \in Nat \ {0} /\ CacheMax \in Nat /\ CacheMax + 1 < SignMask
    /\ MaxMsg \in Nat /\ MaxMsg <= SeqMod + 1
    /\ Depth \in Nat /\ MaxDup \in Nat /\ MaxClock \in Nat /\ MaxOpens \in Nat

VARIABLES
    ch,       \* the receiver's DTAP_Channel_S, or NoChan
    txSeq,    \* the sender's frameTxSeq
    net,      \* the frames on the link
    clock,    \* DP_GetMonoTimeMs
    timers,   \* the armed timers, [id, at]
    tasks,    \* the number of queued DTAP_ReorderStreamFrameTask
    sent,     \* the number of messages sent so far
    dups,     \* the number of frames delivered twice so far
    opens,    \* the number of times the channel was added so far
    taken,    \* the messages the channel accepted, in the order of their arrival
    got       \* the messages recvCb was called with, in order

vars == <<ch, txSeq, net, clock, timers, tasks, sent, dups, opens, taken, got>>

NoChan == [mode |-> "none"]
Modes == {"basic", "stream", "transparent"}
NoTimer == 0                       \* INVALID_TIMER_HANDLE
Never == MaxClock + ReorderTimeout + 1    \* a timerfd set to 0 is disarmed
Msg == 1 .. MaxMsg

Frame == [seq : SeqNum, msg : Msg]
RxNode == [seq : SeqNum, msg : Msg, timeStamp : 0 .. MaxClock]

Channel ==
    [mode : Modes, isReady : BOOLEAN, rxList : Seq(RxNode), handle : Nat,
     reorderTxSeq : SeqNum, expectedSeq : SeqNum \cup {SEQ_INIT},
     maxExpectedSeq : 0 .. SEQ_INIT]

(***************************************************************************)
(* Handlers are operators on the receiver: its channel c, the armed timers *)
(* ts and what it hands to recvCb, up.                                     *)
(***************************************************************************)
Here == [c |-> ch, ts |-> timers, up |-> <<>>]

RecvCallback(s, m) == [s EXCEPT !.up = Append(@, m)]

\* A new timerfd gets the lowest free number.
CP_TimerAdd(s, expires) ==
    LET id == CHOOSE i \in 1 .. Cardinality(s.ts) + 1 :
                 /\ \A t \in s.ts : t.id # i
                 /\ \A j \in 1 .. i - 1 : \E t \in s.ts : t.id = j
        at == IF expires = 0 THEN Never ELSE clock + expires
    IN  [s EXCEPT !.ts = @ \cup {[id |-> id, at |-> at]}, !.c.handle = id]

StopReorderTimer(s) ==
    [s EXCEPT !.ts = {t \in @ : t.id # s.c.handle}, !.c.handle = NoTimer]

\* The node with the smallest time stamp before now gives reorderTxSeq; when every
\* node is of this very millisecond, or there is none, the old value stays.
StartReorderTimer(s) ==
    LET rx == s.c.rxList
        stamps == {rx[i].timeStamp : i \in DOMAIN rx} \cup {clock}
        min == Min(stamps)
        i == CHOOSE k \in DOMAIN rx : /\ rx[k].timeStamp = min
                                      /\ \A j \in 1 .. k - 1 : rx[j].timeStamp # min
        reorder == IF min < clock THEN rx[i].seq ELSE s.c.reorderTxSeq
        expires == IF clock - min > ReorderTimeout THEN 0 ELSE ReorderTimeout - (clock - min)
    IN  IF s.c.expectedSeq = s.c.maxExpectedSeq THEN s
        ELSE CP_TimerAdd([s EXCEPT !.c.reorderTxSeq = reorder], expires)

\* The first k nodes go to recvCb and leave the list.
Report(s, k) ==
    [s EXCEPT !.c.rxList = SubSeq(@, k + 1, Len(@)),
              !.up = @ \o [i \in 1 .. k |-> s.c.rxList[i].msg]]

\* The nodes that follow expectedSeq without a gap.
Run(c) == Max({k \in 0 .. Len(c.rxList) :
                 \A i \in 1 .. k : c.rxList[i].seq = SeqAdd(c.expectedSeq, i - 1)})

\* Mutant of ReportExpectedStreamFrame: only the first node is looked at.
ReportOneStreamFrame(s) ==
    LET k == IF Run(s.c) > 0 THEN 1 ELSE 0
    IN  [Report(s, k) EXCEPT !.c.expectedSeq = SeqAdd(@, k)]

ReportExpectedStreamFrame(s) ==
    [Report(s, Run(s.c)) EXCEPT !.c.expectedSeq =
        IF Run(s.c) = 0 THEN @ ELSE SeqAdd(@, Run(s.c))]

\* The last number plus one is not wrapped. The "last node" of an empty list is the
\* list head itself, whose bytes in the place of txSeq are 0.
LastPlusOne(rx) == IF rx = <<>> THEN 1 ELSE Seqs!Last(rx).seq + 1

\* Mutant of ReorderStreamFrameTask: expectedSeq stays at the number that was given up.
ReorderStreamFrameTaskNoAdvance(s0) ==
    LET s == [s0 EXCEPT !.c.handle = NoTimer]
        c == s.c
        k == Max({i \in 0 .. Len(c.rxList) :
                    \A j \in 1 .. i : IsFrameSeqSmaller(c.rxList[j].seq, c.reorderTxSeq)})
        s2 == ReportExpectedStreamFrame(Report(s, k))
    IN  StartReorderTimer([s2 EXCEPT !.c.maxExpectedSeq = LastPlusOne(s2.c.rxList)])

\* The nodes before reorderTxSeq are handed over and the gaps among them given up.
ReorderStreamFrameTask(s0) ==
    LET s == [s0 EXCEPT !.c.handle = NoTimer]
        c == s.c
        k == Max({i \in 0 .. Len(c.rxList) :
                    \A j \in 1 .. i : IsFrameSeqSmaller(c.rxList[j].seq, c.reorderTxSeq)})
        s1 == [Report(s, k) EXCEPT !.c.expectedSeq =
                  IF k = 0 THEN @ ELSE GetNextFrameSeq(c.rxList[k].seq)]
        s2 == ReportExpectedStreamFrame(s1)
    IN  StartReorderTimer([s2 EXCEPT !.c.maxExpectedSeq = LastPlusOne(s2.c.rxList)])

InsertStreamRxNode(rx, x) ==
    LET k == Min({i \in DOMAIN rx : IsFrameSeqSmaller(x.seq, rx[i].seq)} \cup {Len(rx) + 1})
    IN  Seqs!InsertAt(rx, k, x)

\* The outcomes of DTAP_RecvStreamFrame for a frame that is not refused.
FirstStreamFrame(s, f) ==
    RecvCallback([s EXCEPT !.c.expectedSeq = GetNextFrameSeq(f.seq),
                           !.c.maxExpectedSeq = GetNextFrameSeq(f.seq)], f.msg)

ExpectedStreamFrame(s, f) ==
    StartReorderTimer(StopReorderTimer(ReportExpectedStreamFrame(
        [RecvCallback(s, f.msg) EXCEPT !.c.expectedSeq = GetNextFrameSeq(@)])))

EarlyStreamFrame(s, f) ==
    LET x == [seq |-> f.seq, msg |-> f.msg, timeStamp |-> clock]
        rx == InsertStreamRxNode(s.c.rxList, x)
        s1 == [s EXCEPT !.c.rxList = rx, !.c.maxExpectedSeq = LastPlusOne(rx)]
    IN  IF s.c.handle = NoTimer THEN StartReorderTimer(s1) ELSE s1

\* The list is full, or the frame is a duplicate. The list is looked at first, so that
\* with a full list even the frame that would empty it is refused.
StreamRefuses(c, f) ==
    \/ Len(c.rxList) > CacheMax
    \/ /\ c.expectedSeq # SEQ_INIT
       /\ \/ IsFrameSeqSmaller(f.seq, c.expectedSeq)
          \/ \E i \in DOMAIN c.rxList : c.rxList[i].seq = f.seq

RecvStreamFrame(s, f) ==
    CASE s.c.expectedSeq = SEQ_INIT -> FirstStreamFrame(s, f)
      [] s.c.expectedSeq = f.seq -> ExpectedStreamFrame(s, f)
      [] OTHER -> EarlyStreamFrame(s, f)

BasicRefuses(c) == ~c.isReady /\ Len(c.rxList) > CacheMax

RecvBasicFrame(s, f) ==
    IF s.c.isReady THEN RecvCallback(s, f.msg)
    ELSE [s EXCEPT !.c.rxList =
            Append(@, [seq |-> f.seq, msg |-> f.msg, timeStamp |-> clock])]

\* Mutant of RecvBasicFrameContinue: the channel is ready, the cache is forgotten.
RecvBasicFrameContinueDrops(s) == [s EXCEPT !.c.rxList = <<>>, !.c.isReady = TRUE]

RecvBasicFrameContinue(s) == [Report(s, Len(s.c.rxList)) EXCEPT !.c.isReady = TRUE]

\* DTAP_ChannelCreate: only the channel of security management waits to be ready.
ChannelCreate(mode, smtc) ==
    [mode |-> mode, isReady |-> ~smtc, rxList |-> <<>>, handle |-> NoTimer,
     reorderTxSeq |-> 0, expectedSeq |-> SEQ_INIT, maxExpectedSeq |-> SEQ_INIT]

ChannelDestroy(s) ==
    [(IF s.c.mode = "stream" THEN StopReorderTimer(s) ELSE s) EXCEPT !.c = NoChan]

-----------------------------------------------------------------------------
Init ==
    /\ ch = NoChan /\ txSeq = 0 /\ net = {} /\ clock = 0 /\ timers = {} /\ tasks = 0
    /\ sent = 0 /\ dups = 0 /\ opens = 0 /\ taken = <<>> /\ got = <<>>

Becomes(s) == ch' = s.c /\ timers' = s.ts /\ got' = got \o s.up

\* DTAP_ChannelAdd at both ends, after the old channel and its frames are gone.
Open(mode, smtc) ==
    /\ ch = NoChan /\ opens < MaxOpens
    /\ smtc => mode = "basic"
    /\ ch' = ChannelCreate(mode, smtc)
    /\ txSeq' = 0 /\ taken' = <<>> /\ got' = <<>> /\ opens' = opens + 1
    /\ UNCHANGED <<net, clock, timers, tasks, sent, dups>>

\* DTAP_ChannelDel
Close ==
    /\ ch # NoChan
    /\ Becomes(ChannelDestroy(Here))
    /\ net' = {}
    /\ UNCHANGED <<txSeq, clock, tasks, sent, dups, opens, taken>>

\* DTAP_SendStreamFrame, DTAP_SendBasicFrame, DTAP_SendTransparentFrame. A frame that
\* DTAP_SendFrame refuses has used up its number and is one the link loses.
Send ==
    /\ ch # NoChan /\ sent < MaxMsg
    /\ txSeq' = IF ch.mode = "stream" THEN GetNextFrameSeq(txSeq) ELSE txSeq
    /\ sent' = sent + 1
    /\ net' = {f \in net : f.msg + Depth > sent + 1} \cup {[seq |-> txSeq', msg |-> sent']}
    /\ UNCHANGED <<ch, clock, timers, tasks, dups, opens, taken, got>>

\* DTAP_DataRecv for a frame the link delivers, for the first time or once more.
Recv(f) ==
    /\ ch # NoChan
    /\ \/ net' = net \ {f} /\ dups' = dups
       \/ net' = net /\ dups < MaxDup /\ dups' = dups + 1
    /\ \/ /\ ch.mode = "stream" /\ StreamRefuses(ch, f)
          /\ UNCHANGED <<ch, timers, taken, got>>
       \/ /\ ch.mode = "stream" /\ ~StreamRefuses(ch, f)
          /\ Becomes(RecvStreamFrame(Here, f))
          /\ taken' = Append(taken, f.msg)
       \/ /\ ch.mode = "basic" /\ BasicRefuses(ch)
          /\ UNCHANGED <<ch, timers, taken, got>>
       \/ /\ ch.mode = "basic" /\ ~BasicRefuses(ch)
          /\ Becomes(RecvBasicFrame(Here, f))
          /\ taken' = Append(taken, f.msg)
       \/ /\ ch.mode = "transparent"
          /\ Becomes(RecvCallback(Here, f.msg))
          /\ taken' = Append(taken, f.msg)
    /\ UNCHANGED <<txSeq, clock, tasks, sent, opens>>

\* DTAP_LogicLinkStateChangeCbk: the link is connected, with every procedure done.
LinkConnected ==
    /\ ch # NoChan /\ ch.mode = "basic"
    /\ Becomes(RecvBasicFrameContinue(Here))
    /\ UNCHANGED <<txSeq, net, clock, tasks, sent, dups, opens, taken>>

\* TimerProc: DTAP_ReorderStreamFrameCbk posts the task, and the timer is deleted.
\* The channel's handle still names it.
Fire(t) ==
    /\ t.at <= clock
    /\ timers' = timers \ {t}
    /\ tasks' = tasks + 1
    /\ UNCHANGED <<ch, txSeq, net, clock, sent, dups, opens, taken, got>>

RunTask ==
    /\ tasks > 0
    /\ tasks' = tasks - 1
    /\ IF ch.mode = "stream" THEN Becomes(ReorderStreamFrameTask(Here))
       ELSE UNCHANGED <<ch, timers, got>>
    /\ UNCHANGED <<txSeq, net, clock, sent, dups, opens, taken>>

Tick ==
    /\ clock < MaxClock
    /\ clock' = clock + 1
    /\ UNCHANGED <<ch, txSeq, net, timers, tasks, sent, dups, opens, taken, got>>

Next ==
    \/ \E mode \in Modes, smtc \in BOOLEAN : Open(mode, smtc)
    \/ Close
    \/ Send
    \/ \E f \in net : Recv(f)
    \/ LinkConnected
    \/ \E t \in timers : Fire(t)
    \/ RunTask
    \/ Tick

Spec == Init /\ [][Next]_vars

-----------------------------------------------------------------------------
\* Every variable keeps the shape the code gives it; a list holds at most one frame
\* more than its maximum.
TypeOK ==
    /\ ch \in Channel \cup {NoChan}
    /\ ch # NoChan => Len(ch.rxList) <= CacheMax + 1
    /\ txSeq \in SeqNum /\ net \subseteq Frame
    /\ \A t \in timers : t.id \in Nat \ {NoTimer} /\ t.at \in 0 .. Never
    /\ tasks \in Nat

Held == [i \in DOMAIN ch.rxList |-> ch.rxList[i].msg]

\* Stream mode hands every message to the upper layer at most once and in the order it
\* was sent, whatever the link and the reorder timer do, also when a timer or a task
\* of an earlier channel strikes the one that took its place.
ReportedInOrder ==
    ch.mode = "stream" => \A i, j \in DOMAIN got : i < j => got[i] < got[j]

\* No frame that could be handed over is kept: the list of stream mode holds, in order,
\* only frames beyond the first number that has not come, and a ready channel of basic
\* mode holds none.
NothingReadyIsHeld ==
    /\ ch.mode = "stream" => LET rx == ch.rxList IN
         /\ \A i \in DOMAIN rx : /\ rx[i].seq # ch.expectedSeq
                                 /\ ~IsFrameSeqSmaller(rx[i].seq, ch.expectedSeq)
         /\ \A i \in 1 .. Len(rx) - 1 : IsFrameSeqSmaller(rx[i].seq, rx[i + 1].seq)
    /\ ch.mode = "basic" /\ ch.isReady => ch.rxList = <<>>

\* What a channel accepts is not lost: it is handed over or still held. Basic mode
\* keeps the order of arrival across the moment the channel becomes ready.
AcceptedIsKept ==
    /\ ch.mode = "stream" => Seqs!ToSet(taken) = Seqs!ToSet(got) \cup Seqs!ToSet(Held)
    /\ ch.mode = "basic" => taken = got \o Held
=============================================================================
