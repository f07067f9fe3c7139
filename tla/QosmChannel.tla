---------------------------- MODULE QosmChannel ----------------------------
(***************************************************************************)
(* QoS management (QOSM) over CM: the transport channels that the data     *)
(* transfer service asks for, at both ends of one link.                    *)
(*                                                                         *)
(* QOSM counts the channels, lists the established ones and, when the      *)
(* fastest of them changes, tunes the link through three requests to the   *)
(* controller (connection parameters, PHY, MCS) before it reports. There   *)
(* is one tuning machine. Requests of the service are posted as tasks to   *)
(* the schedule thread, so they run after whatever was queued before them. *)
(* The QOSM record of an end:                                              *)
(*   list   QOSM_LogicLink_S.list: established channels, newest first;     *)
(*   num    channelTotalNum (one link, so also its channelNum);            *)
(*   slqi   QOSM_LogicLink_S.slqi: FALSE low, TRUE high;                   *)
(*   tune   g_tcTuningStm, or NoTune;                                      *)
(*   tasks  QOSM_TransChannelCreate/Destroy tasks not yet run;             *)
(*   app    the service's record of each port (AppConnectParamMapping),    *)
(*          INVALID_STATE while it has none.                               *)
(***************************************************************************)
EXTENDS CmDynTrans, TLC

CONSTANTS
    A, B,           \* the two ends
    High,           \* the ports whose channels ask for the high SLQI
    Registered,     \* [end -> the ports its applications have created]
    ChanMax,        \* QOSM_CHANNEL_MAX_SIZE (20)
    MaxOps,         \* [end -> bound on the requests of its applications]
    MaxFaults       \* bound on failing sends and tuning steps, refused releases, lost links

End == {A, B}
Peer(n) == IF n = A THEN B ELSE A

ASSUME EndAssumption == A # B
ASSUME HighAssumption == High \subseteq Port
ASSUME RegisteredAssumption == Registered \in [End -> SUBSET Port]
ASSUME BoundAssumption ==
    /\ ChanMax \in Nat \ {0}
    /\ MaxOps \in [End -> Nat]
    /\ MaxFaults \in Nat

VARIABLES
    cm,         \* [End -> CmRecord]
    qos,        \* [End -> the QOSM record]
    up,         \* [End -> BOOLEAN]: the end has the logical link
    ops, faults \* what is used up of the bounds

vars == <<cm, qos, up, ops, faults>>

NoTune == [phase |-> "NONE"]
Phases == <<"CONN", "PHY", "MCS">>

AppStates == {"INVALID_STATE", "DISCONNECTED", "CONNECTING", "CONNECTED", "DISCONNECTING"}

Task == [what : {"CREATE"}, port : Port] \cup [what : {"DESTROY"}, tcid : Tcid]

Tuning == [phase : {"CONN", "PHY", "MCS"}, port : Port, tcid : Tcid,
           slqi : BOOLEAN, status : {"ESTABLISHED", "RELEASED"}]

\* "refused" is a history mark, which nothing in the model looks at: CM freed the
\* channel of the entry when the peer answered its release with a failure.
Entry == [tcid : Tcid, high : BOOLEAN, refused : BOOLEAN]

QosmRecord ==
    [list : Seq(Entry), num : Nat, slqi : BOOLEAN, tune : Tuning \cup {NoTune},
     tasks : Seq(Task), app : [Port -> [state : AppStates, tcid : Tcid \cup {NoTcid}]]]

QosmInit ==
    [list |-> <<>>, num |-> 0, slqi |-> FALSE, tune |-> NoTune, tasks |-> <<>>,
     app |-> [p \in Port |-> [state |-> "INVALID_STATE", tcid |-> NoTcid]]]

-----------------------------------------------------------------------------
(* An end is worked on as s = [c |-> CM record, q |-> QOSM record].        *)

\* QOSM_DecreaseChannelSize never goes below zero: the entry of the link is gone.
Decrease(q) == [q EXCEPT !.num = IF @ > 0 THEN @ - 1 ELSE 0]
Increase(q) == [q EXCEPT !.num = @ + 1]

\* QOSM_TransChannelAdd (head insert) and QOSM_TransChannelDel (first match).
ChannelAdd(q, node) ==
    [q EXCEPT !.list = <<[tcid |-> node.local, high |-> node.port \in High,
                          refused |-> FALSE]>> \o @]
ChannelDel(q, t) ==
    LET i == SelectInSeq(q.list, LAMBDA x : x.tcid = t)
    IN  IF i = 0 THEN q ELSE [q EXCEPT !.list = RemoveAt(@, i)]

\* The entries of a tcid whose release was refused stay, with the mark.
ChannelKept(q, t) ==
    [q EXCEPT !.list = [i \in DOMAIN @ |->
                          IF @[i].tcid = t THEN [@[i] EXCEPT !.refused = TRUE] ELSE @[i]]]

\* statusCbk, and what ChannelStatusCallback and HandleConnectEvent make of it: a
\* failed release is kept as CONNECTING, and a repeated state is ignored.
StateOf(status) ==
    CASE status = "ESTABLISHED" -> "CONNECTED"
      [] status = "RELEASE_FAIL" -> "CONNECTING"
      [] OTHER -> "DISCONNECTED"

Report(q, p, t, status) ==
    IF q.app[p].state = StateOf(status) THEN q
    ELSE [q EXCEPT !.app[p] = [state |-> StateOf(status), tcid |-> t]]

FailOf(status) == IF status = "ESTABLISHED" THEN "ESTABLISH_FAIL" ELSE "RELEASE_FAIL"

\* Mutant of TuningFailed: the report is not part of the failure.
TuningFailedSilent(s, tn, o) ==
    [c |-> ReleaseReq(s.c, tn.tcid, o.send).c, q |-> [s.q EXCEPT !.tune.phase = "FAILED"]]

\* QOSM_TcTuningFailedEntry with QOSM_TcTuningCompleteReport: a channel whose
\* tuning failed is released again, by the tcid it had when the tuning began.
TuningFailed(s, tn, o) ==
    LET rel == ReleaseReq(s.c, tn.tcid, o.send)
        drop == tn.status = "ESTABLISHED"
        q == [s.q EXCEPT !.tune = NoTune]
    IN  [c |-> IF drop THEN rel.c ELSE s.c,
         q |-> Report(IF drop /\ rel.ok THEN Decrease(q) ELSE q,
                      tn.port, tn.tcid, FailOf(tn.status))]

\* QOSM_TransChannelUpdateConnParams after the list changed, together with the
\* report of its callers: no change of speed, tuning busy, or tuning started.
UpdateConnParams(s, node, status, o) ==
    LET fast == \E i \in DOMAIN s.q.list : s.q.list[i].high
        tn == [phase |-> "CONN", port |-> node.port, tcid |-> node.local,
               slqi |-> fast, status |-> status]
        gone == Decrease(ChannelDel(s.q, node.local))
    IN  CASE node.frame4 \/ s.q.slqi = fast ->
               [s EXCEPT !.q = Report(@, node.port, node.local, status)]
          [] ~node.frame4 /\ s.q.slqi # fast /\ s.q.tune # NoTune ->
               [c |-> IF status = "ESTABLISHED" THEN ReleaseReq(s.c, node.local, o.send).c
                      ELSE s.c,
                q |-> Report(IF status = "ESTABLISHED" THEN gone ELSE s.q,
                             node.port, node.local, FailOf(status))]
          [] OTHER -> IF o.tune THEN [s EXCEPT !.q.tune = tn]
                      ELSE TuningFailed(s, tn, o)

\* QOSM_TransChannelEstablishRspCbk: a failure is only reported.
EstablishRspCbk(s, node, ok, o) ==
    IF ok THEN UpdateConnParams([s EXCEPT !.q = ChannelAdd(@, node)], node, "ESTABLISHED", o)
    ELSE [s EXCEPT !.q = Report(@, node.port, node.local, "ESTABLISH_FAIL")]

\* Mutant of ReleaseRspCbk: the list entry stays until the speed of the link changes.
ReleaseRspCbkKeepsEntry(s, node, ok, o) ==
    IF ok THEN UpdateConnParams(s, node, "RELEASED", o)
    ELSE [s EXCEPT !.q = Report(ChannelKept(@, node.local),
                                node.port, node.local, "RELEASE_FAIL")]

\* QOSM_TransChannelReleaseRspCbk: a failure is only reported and the entry stays,
\* although CM frees the channel.
ReleaseRspCbk(s, node, ok, o) ==
    IF ok
    THEN UpdateConnParams([s EXCEPT !.q = ChannelDel(@, node.local)], node, "RELEASED", o)
    ELSE [s EXCEPT !.q = Report(ChannelKept(@, node.local),
                                node.port, node.local, "RELEASE_FAIL")]

\* QOSM_TransChannStatusIndicationCbk: what the peer did, or the loss of the link.
IndicationCbk(s, node, added) ==
    IF added
    THEN [s EXCEPT !.q = Report(Increase(ChannelAdd(@, node)),
                                node.port, node.local, "ESTABLISHED")]
    ELSE [s EXCEPT !.q = Report(Decrease(ChannelDel(@, node.local)),
                                node.port, node.local, "RELEASED")]

Callback(s, cb, o) ==
    CASE cb.what = "ESTABLISH_SUCCESS" -> EstablishRspCbk(s, cb.node, TRUE, o)
      [] cb.what = "ESTABLISH_FAIL" -> EstablishRspCbk(s, cb.node, FALSE, o)
      [] cb.what = "RELEASE_RSP" -> ReleaseRspCbk(s, cb.node, TRUE, o)
      [] cb.what = "RELEASE_FAIL" -> ReleaseRspCbk(s, cb.node, FALSE, o)
      [] OTHER -> IndicationCbk(s, cb.node, cb.what = "CONNECTED")

\* A CM event r at an end with QOSM record q: CM's change and then its callbacks.
Handled(q, r, o) ==
    LET after[k \in 0 .. Len(r.cbs)] ==
          IF k = 0 THEN [c |-> r.c, q |-> q] ELSE Callback(after[k - 1], r.cbs[k], o)
    IN  after[Len(r.cbs)]

\* QOSM_TransChannelCreateCbk. Without the link CM refuses.
CreateCbk(s, p, linked, o) ==
    LET est == EstablishReq(s.c, p, o.send)
        refused(c) == [c |-> c, q |-> Report(s.q, p, NoTcid, "ESTABLISH_FAIL")]
    IN  CASE s.q.num >= ChanMax \/ ~linked -> refused(s.c)
          [] s.q.num < ChanMax /\ linked /\ est.ok -> [c |-> est.c, q |-> Increase(s.q)]
          [] OTHER -> refused(est.c)

\* QOSM_TransChannelDestroyCbk. Its failure report names no port, so that the
\* service drops it.
DestroyCbk(s, t, linked, o) ==
    LET rel == ReleaseReq(s.c, t, o.send)
    IN  CASE s.q.num = 0 \/ ~linked -> s
          [] s.q.num > 0 /\ linked /\ rel.ok -> [c |-> rel.c, q |-> Decrease(s.q)]
          [] OTHER -> [s EXCEPT !.c = rel.c]
-----------------------------------------------------------------------------
(* The system: two ends, and the outcomes of sends and controller requests. *)

Fine == [send |-> TRUE, retry |-> TRUE, tune |-> TRUE]
Outcomes == {o \in [send : BOOLEAN, retry : BOOLEAN, tune : BOOLEAN] : o.send => o.retry}

\* What the handler's calls return; anything but success uses up a fault.
Chosen(o) ==
    /\ o # Fine => faults < MaxFaults
    /\ faults' = IF o = Fine THEN faults ELSE faults + 1

\* The end n takes the value s. What it sends to a peer without link is lost.
Becomes(n, s) ==
    /\ cm' = [cm EXCEPT ![n] = IF up[Peer(n)] THEN s.c ELSE [s.c EXCEPT !.out = <<>>]]
    /\ qos' = [qos EXCEPT ![n] = s.q]

Here(n) == [c |-> cm[n], q |-> qos[n]]

Init ==
    /\ cm = [n \in End |-> CmInit]
    /\ qos = [n \in End |-> QosmInit]
    /\ up = [n \in End |-> TRUE]
    /\ ops = [n \in End |-> 0]
    /\ faults = 0

\* ConnectPeerPortInner and GetRemotePortCreateChannel of the service.
Connect(n, p) ==
    /\ ops[n] < MaxOps[n]
    /\ p \in Registered[n]
    /\ qos[n].app[p].state \notin {"CONNECTED", "CONNECTING"}
    /\ qos' = [qos EXCEPT
                 ![n].app[p] = [state |-> "CONNECTING", tcid |-> NoTcid],
                 ![n].tasks = Append(@, [what |-> "CREATE", port |-> p])]
    /\ ops' = [ops EXCEPT ![n] = @ + 1]
    /\ UNCHANGED <<cm, up, faults>>

\* DisconnectInner: the state is changed whatever it was, and the tcid on record is
\* destroyed. While the channel is being established there is none yet.
Disconnect(n, p) ==
    LET t == qos[n].app[p].tcid
        destroy == IF t = NoTcid THEN <<>> ELSE <<[what |-> "DESTROY", tcid |-> t]>>
    IN  /\ ops[n] < MaxOps[n]
        /\ qos[n].app[p].state # "INVALID_STATE"
        /\ qos' = [qos EXCEPT ![n].app[p].state = "DISCONNECTING",
                              ![n].tasks = @ \o destroy]
        /\ ops' = [ops EXCEPT ![n] = @ + 1]
        /\ UNCHANGED <<cm, up, faults>>

\* The schedule thread runs the oldest QOSM task.
RunTask(n) ==
    /\ qos[n].tasks # <<>>
    /\ \E o \in Outcomes :
         /\ Chosen(o)
         /\ LET t == Head(qos[n].tasks)
                s == [Here(n) EXCEPT !.q.tasks = Tail(@)]
            IN  Becomes(n, IF t.what = "CREATE" THEN CreateCbk(s, t.port, up[n], o)
                           ELSE DestroyCbk(s, t.tcid, up[n], o))
    /\ UNCHANGED <<up, ops>>

\* CM_RecvSignalingData for the oldest message of the peer.
Recv(n) ==
    LET m == Head(cm[Peer(n)].out)
    IN  /\ up[n]
        /\ cm[Peer(n)].out # <<>>
        /\ \E o \in Outcomes :
             /\ Chosen(o)
             /\ LET s == Handled(qos[n],
                                 RecvSignaling(cm[n], m, m.port \in Registered[n], o), o)
                IN  /\ cm' = [cm EXCEPT ![n] = s.c, ![Peer(n)].out = Tail(@)]
                    /\ qos' = [qos EXCEPT ![n] = s.q]
        /\ UNCHANGED <<up, ops>>

\* The peer n answers a release with a failure. Code of this repository never does,
\* but CM_SignalingTransChanReleaseRspProc takes the result as it comes.
RefuseRelease(n) ==
    LET m == Head(cm[n].out)
    IN  /\ faults < MaxFaults
        /\ cm[n].out # <<>>
        /\ m.code = "TC_DISCONNECT_RSP" /\ m.ok
        /\ cm' = [cm EXCEPT ![n].out = <<[m EXCEPT !.ok = FALSE]>> \o Tail(@)]
        /\ faults' = faults + 1
        /\ UNCHANGED <<qos, up, ops>>

\* The 21 s timer of the oldest cached request.
Timeout(n) ==
    /\ cm[n].pend # <<>>
    /\ \E o \in Outcomes :
         /\ Chosen(o)
         /\ Becomes(n, Handled(qos[n], SignalingTimeout(cm[n]), o))
    /\ UNCHANGED <<up, ops>>

\* A step of the tuning machine succeeds: QOSM_TcTuningWait...Dispatch, and
\* QOSM_TcTuningCompleteEntry after the last, which reports without looking
\* whether the channel is still there.
TuningRsp(n) ==
    LET tn == qos[n].tune
        q == [qos[n] EXCEPT !.slqi = tn.slqi, !.tune = NoTune]
        i == CHOOSE k \in DOMAIN Phases : Phases[k] = tn.phase
    IN  /\ tn # NoTune
        /\ qos' = [qos EXCEPT ![n] =
                     IF i < Len(Phases) THEN [@ EXCEPT !.tune.phase = Phases[i + 1]]
                     ELSE Report(q, tn.port, tn.tcid, tn.status)]
        /\ UNCHANGED <<cm, up, ops, faults>>

\* A step of the tuning machine fails, cannot be requested, or takes 11 s.
TuningFail(n) ==
    /\ qos[n].tune # NoTune
    /\ \E o \in Outcomes :
         /\ ~o.tune
         /\ Chosen(o)
         /\ Becomes(n, TuningFailed(Here(n), qos[n].tune, o))
    /\ UNCHANGED <<up, ops>>

\* The disconnect event of the link at one end: the listeners of CM's dynamic
\* channels, of the signalling and of QOSM.
LinkDown(n) ==
    /\ up[n]
    /\ up[Peer(n)] => faults < MaxFaults
    /\ LET s == Handled(qos[n], LinkDisconnected(cm[n]), Fine)
       IN  /\ cm' = [cm EXCEPT ![n] = s.c, ![Peer(n)].out = <<>>]
           /\ qos' = [qos EXCEPT ![n] = [s.q EXCEPT !.list = <<>>, !.num = 0,
                                           !.slqi = FALSE, !.tune = NoTune]]
    /\ up' = [up EXCEPT ![n] = FALSE]
    /\ faults' = IF up[Peer(n)] THEN faults + 1 ELSE faults
    /\ UNCHANGED ops

\* The link is established again: CM_DynTcidActivatePool and QOSM_LogicLinkAdd.
LinkUp ==
    /\ \A n \in End : ~up[n]
    /\ up' = [n \in End |-> TRUE]
    /\ UNCHANGED <<cm, qos, ops, faults>>

Next ==
    \/ \E n \in End, p \in Port : Connect(n, p) \/ Disconnect(n, p)
    \/ \E n \in End : RunTask(n) \/ Recv(n) \/ Timeout(n)
    \/ \E n \in End : TuningRsp(n) \/ TuningFail(n)
    \/ \E n \in End : RefuseRelease(n) \/ LinkDown(n)
    \/ LinkUp

Spec == Init /\ [][Next]_vars

\* The schedule thread keeps running what is queued on it - tasks, messages and
\* timers - and the loss of the link reaches the other end too. These are the weak
\* fairness conditions of RunTask, Recv, Timeout and LinkDown, with the enabling
\* condition and the effect of each action written out.
Ran(n) == qos[n].tasks # <<>> /\ qos[n]'.tasks = Tail(qos[n].tasks)
Received(n) == LET m == cm[Peer(n)].out IN m # <<>> /\ cm[Peer(n)]'.out = Tail(m)
Expired(n) == cm[n].pend # <<>> /\ (cm[n]'.pend = <<>> \/ Head(cm[n].pend)' # Head(cm[n].pend))
WentDown(n) == up[n] /\ ~up[n]'

FairSpec ==
    /\ Spec
    /\ \A n \in End :
         /\ []<>(qos[n].tasks = <<>>) \/ []<><<Ran(n)>>_vars
         /\ []<>(cm[Peer(n)].out = <<>> \/ ~up[n]) \/ []<><<Received(n)>>_vars
         /\ []<>(cm[n].pend = <<>>) \/ []<><<Expired(n)>>_vars
         /\ []<>(~up[n] \/ up[Peer(n)]) \/ []<><<WentDown(n)>>_vars

-----------------------------------------------------------------------------
\* Every variable keeps the shape the code gives it.
TypeOK ==
    /\ cm \in [End -> CmRecord]
    /\ qos \in [End -> QosmRecord]
    /\ up \in [End -> BOOLEAN]
    /\ ops \in [End -> Nat] /\ faults \in Nat

Locals(n) == {cm[n].nodes[i].local : i \in DOMAIN cm[n].nodes}

\* The tcid pool and the channel list agree (cm_dyn_tcid.c, cm_trans_channel_mgr.c):
\* no tcid is leaked and none belongs to two channels, although releases of the two
\* ends cross, answers come late and the exceptional release reuses a freed tcid.
PoolMatchesChannels ==
    \A n \in End :
        /\ cm[n].used = Locals(n)
        /\ IsInjective([i \in DOMAIN cm[n].nodes |-> cm[n].nodes[i].local])

\* A channel that waits for the peer is watched by a cached request with its tcid,
\* whose answer or timer will end the wait (CM_SignalingCacheInsert): no channel
\* stays ACTIVATING or RELEASING because the request that covers it was answered
\* for an earlier channel with the same tcid.
WaitingIsWatched ==
    \A n \in End : \A i \in DOMAIN cm[n].nodes :
        LET x == cm[n].nodes[i]
            watch(code) == \E k \in DOMAIN cm[n].pend :
                              /\ cm[n].pend[k].code = code
                              /\ cm[n].pend[k].src = x.local
        IN  /\ x.state = "ACTIVATING" => watch("TC_CONNECT_REQ")
            /\ x.state = "RELEASING" => watch("TC_DISCONNECT_REQ")

\* QOSM lists no channel CM does not have, and none twice, but for entries left by a
\* refused release (QOSM_TransChannelReleaseRspCbk, against its comment that CM cleans
\* up in any case and so a success is reported): also when tcids are used again,
\* tuning is busy and such leftovers have the tcid of a later channel. Any other
\* leftover would keep the link at the high speed for ever.
NoStaleQosEntry ==
    \A n \in End :
        LET list == qos[n].list
        IN  \A i \in DOMAIN list : ~list[i].refused =>
               /\ list[i].tcid \in Locals(n)
               /\ \A j \in DOMAIN list :
                     list[j].tcid = list[i].tcid => j = i \/ list[j].refused

\* Every wait of a channel for the peer comes to an end: answered, timed out, or
\* ended by the loss of the link.
Waiting(n) == \E i \in DOMAIN cm[n].nodes : cm[n].nodes[i].state # "ACTIVATED"

WaitsEnd == \A n \in End : Waiting(n) ~> ~Waiting(n)
=============================================================================
