----------------------------- MODULE CmDynTrans -----------------------------
(***************************************************************************)
(* Connection management (CM): the dynamic transport channels of one end   *)
(* of one logical link, with the signalling requests that set them up and  *)
(* tear them down.                                                         *)
(*                                                                         *)
(* Every handler runs to completion on the stack's schedule thread, so a   *)
(* handler is an operator from the end's CM record to its next value:      *)
(*   nodes   g_dynTransListHead, in list order (tail insert);              *)
(*   used    unicastTcidUsed of the link's tcid pool;                      *)
(*   pend    g_cachedSignalings, oldest first: every request waits the     *)
(*           same 21 s, so the oldest one expires first;                   *)
(*   nextId  g_identifier;                                                 *)
(*   out     what was handed to DTAP for the peer and not yet received.    *)
(* An operator returns the record and "cbs", the calls it makes into QOSM. *)
(* Where the code calls QOSM before it frees the node the calls are made   *)
(* after it here: QOSM does not look at the CM lists in those calls.       *)
(***************************************************************************)
EXTENDS Integers, Sequences, FiniteSets, SequencesExt

CONSTANTS
    Port,           \* the ports; a channel joins port p to port p
    Tcid,           \* CM_TCID_UC_BEGIN .. CM_TCID_UC_END
    IdMod,          \* number of signalling identifiers (256)
    Frame4          \* the ports whose channel is asked for with frame type 4

ASSUME TcidAssumption == Tcid \subseteq Nat \ {0} /\ IsFiniteSet(Tcid)
ASSUME IdAssumption == IdMod \in Nat \ {0}
ASSUME Frame4Assumption == Frame4 \subseteq Port

NoTcid == 0

States == {"ACTIVATING", "ACTIVATED", "RELEASING"}

Node == [local : Tcid, remote : Tcid \cup {NoTcid}, state : States,
         port : Port, frame4 : BOOLEAN]

Codes == {"TC_CONNECT_REQ", "TC_DISCONNECT_REQ"}

Ids == 0 .. IdMod - 1

Pending == [id : Ids, code : Codes, src : Tcid, dst : Tcid \cup {NoTcid}]

\* "ok" is the result of an answer. The code tells two results of an establishment
\* apart; of a release SUCCESS and TIMEOUT come to the same in QOSM, all others fail.
Message == [code : Codes \cup {"TC_CONNECT_RSP", "TC_DISCONNECT_RSP"},
            id : Ids, src : Tcid, dst : Tcid \cup {NoTcid}, port : Port,
            ok : BOOLEAN]

CmRecord == [nodes : Seq(Node), used : SUBSET Tcid, pend : Seq(Pending),
             nextId : Ids, out : Seq(Message)]

CmInit == [nodes |-> <<>>, used |-> {}, pend |-> <<>>, nextId |-> 0, out |-> <<>>]

-----------------------------------------------------------------------------
(* The channel list and the tcid pool.                                     *)

\* CM_FindTransChannelByLocalTcid, ...ByRemoteTcid: the first in list order, or 0.
FindLocal(c, t) == SelectInSeq(c.nodes, LAMBDA x : x.local = t)
FindRemote(c, t) == SelectInSeq(c.nodes, LAMBDA x : x.remote = t)

\* CM_DynAllocateUnicastTcid takes the lowest free tcid, NoTcid when none is.
DynTcidAllocate(c) ==
    LET free == Tcid \ c.used
    IN  IF free = {} THEN NoTcid ELSE CHOOSE t \in free : \A u \in free : t <= u

\* CM_ActivateDynamicTransChannel with the tcid just allocated.
AddNode(c, node) ==
    [c EXCEPT !.nodes = Append(@, node), !.used = @ \cup {node.local}]

\* Mutant of FreeNode: the tcid of the peer is returned to the pool.
FreeNodeRemoteTcid(c, i) ==
    [c EXCEPT !.nodes = RemoveAt(@, i), !.used = @ \ {c.nodes[i].remote}]

\* CM_ReleaseDynamicTransChannelBy... and CM_DynTcidRelease.
FreeNode(c, i) ==
    [c EXCEPT !.nodes = RemoveAt(@, i), !.used = @ \ {c.nodes[i].local}]

-----------------------------------------------------------------------------
(* Signalling: requests are cached until answered or timed out.            *)

\* CM_GetIdentifier skips the identifiers still cached; -1 when all are.
FreeId(c) ==
    LET taken == {c.pend[i].id : i \in DOMAIN c.pend}
        from(k) == (c.nextId + k) % IdMod
        free == {k \in Ids : from(k) \notin taken}
    IN  IF free = {} THEN -1
        ELSE from(CHOOSE k \in free : \A j \in free : k <= j)

\* CM_SignalingTransChan{Establish,Release}ReqSend. "ok" is the outcome of the
\* allocations, the timer and DTAP; on failure the cache entry is removed again
\* and only the identifier has been used up.
SendReq(c, code, src, dst, port, ok) ==
    LET id == FreeId(c)
        next == [c EXCEPT !.nextId = (id + 1) % IdMod]
    IN  CASE id = -1 -> [ok |-> FALSE, c |-> c]
          [] id # -1 /\ ~ok -> [ok |-> FALSE, c |-> next]
          [] OTHER ->
               [ok |-> TRUE,
                c |-> [next EXCEPT
                         !.pend = Append(@, [id |-> id, code |-> code,
                                             src |-> src, dst |-> dst]),
                         !.out = Append(@, [code |-> code, id |-> id, src |-> src,
                                            dst |-> dst, port |-> port, ok |-> TRUE])]]

\* CM_SignalingTransChan{Establish,Release}RspSend: not cached, not repeated.
SendRsp(c, code, m, dst, ok) ==
    [c EXCEPT !.out = Append(@, [code |-> code, id |-> m.id, src |-> m.src,
                                 dst |-> dst, port |-> m.port, ok |-> ok])]

\* CM_SignalingCacheRemove: the answer must carry a cached identifier and answer
\* that kind of request.
Cached(c, id, code) ==
    SelectInSeq(c.pend, LAMBDA x : x.id = id /\ x.code = code)

-----------------------------------------------------------------------------
(* The calls of QOSM.                                                      *)

\* CM_DynTransChanActiveEstablishingReqHandler. A failed send frees the node.
EstablishReq(c, p, ok) ==
    LET t == DynTcidAllocate(c)
        added == AddNode(c, [local |-> t, remote |-> NoTcid, state |-> "ACTIVATING",
                             port |-> p, frame4 |-> p \in Frame4])
        sent == SendReq(added, "TC_CONNECT_REQ", t, NoTcid, p, ok)
    IN  CASE t = NoTcid -> [ok |-> FALSE, c |-> c]
          [] t # NoTcid /\ sent.ok -> sent
          [] OTHER -> [ok |-> FALSE, c |-> FreeNode(sent.c, Len(sent.c.nodes))]

\* CM_DynTransChanActiveReleasingHandler: whatever state the node is in it is
\* released, and a failed send leaves it ACTIVATED.
ReleaseReq(c, t, ok) ==
    LET i == FindLocal(c, t)
        node == c.nodes[i]
        sent == SendReq([c EXCEPT !.nodes[i].state = "RELEASING"],
                        "TC_DISCONNECT_REQ", t, node.remote, node.port, ok)
    IN  IF i = 0 THEN [ok |-> FALSE, c |-> c]
        ELSE [ok |-> sent.ok,
              c |-> IF sent.ok THEN sent.c
                    ELSE [sent.c EXCEPT !.nodes[i].state = "ACTIVATED"]]

-----------------------------------------------------------------------------
(* The events of the signalling, each with the calls it makes into QOSM.   *)

Cbk(what, node) == [what |-> what, node |-> node]

Quiet(c) == [c |-> c, cbs |-> <<>>]

\* CM_DynTransChannelEstablishRspCbk, for an answer of the peer and for a timeout.
EstablishRsp(c, t, ok, dst) ==
    LET i == FindLocal(c, t)
        node == c.nodes[i]
        up == [node EXCEPT !.state = "ACTIVATED", !.remote = dst]
    IN  CASE i = 0 \/ (i # 0 /\ node.state # "ACTIVATING") -> Quiet(c)
          [] i # 0 /\ node.state = "ACTIVATING" /\ ok ->
               [c |-> [c EXCEPT !.nodes[i] = up],
                cbs |-> <<Cbk("ESTABLISH_SUCCESS", up)>>]
          [] OTHER -> [c |-> FreeNode(c, i), cbs |-> <<Cbk("ESTABLISH_FAIL", node)>>]

\* CM_DynTransChannelReleaseRspCbk, for an answer and for a timeout: the node that
\* now has the local tcid is freed, in whatever state it is and whatever the result.
ReleaseRsp(c, t, ok) ==
    LET i == FindLocal(c, t)
        what == IF ok THEN "RELEASE_RSP" ELSE "RELEASE_FAIL"
    IN  IF i = 0 THEN Quiet(c)
        ELSE [c |-> FreeNode(c, i), cbs |-> <<Cbk(what, c.nodes[i])>>]

\* CM_DynTransChanPassiveEstablishedReqHandler behind
\* CM_DynTransChannelEstablishReqCbk. A known remote tcid and an exhausted pool
\* get no answer; "valid" is the check of the port by the service.
PassiveEstablish(c, m, valid, ok) ==
    LET t == DynTcidAllocate(c)
        node == [local |-> t, remote |-> m.src, state |-> "ACTIVATED",
                 port |-> m.port, frame4 |-> FALSE]
    IN  CASE FindRemote(c, m.src) # 0 -> Quiet(c)
          [] FindRemote(c, m.src) = 0 /\ ~valid ->
               Quiet(IF ok THEN SendRsp(c, "TC_CONNECT_RSP", m, NoTcid, FALSE) ELSE c)
          [] FindRemote(c, m.src) = 0 /\ valid /\ (t = NoTcid \/ ~ok) -> Quiet(c)
          [] OTHER ->
               [c |-> SendRsp(AddNode(c, node), "TC_CONNECT_RSP", m, t, TRUE),
                cbs |-> <<Cbk("CONNECTED", node)>>]

\* CM_DynTransChanPassiveReleasedReqHandler finds the channel by the tcid of the
\* peer. When the answer cannot be sent a release request of its own is tried,
\* cached under the tcid just freed.
PassiveRelease(c, m, ok, retry) ==
    LET i == FindRemote(c, m.src)
        node == c.nodes[i]
        freed == FreeNode(c, i)
    IN  IF i = 0 THEN Quiet(c)
        ELSE [c |-> IF ok THEN SendRsp(freed, "TC_DISCONNECT_RSP", m, node.local, TRUE)
                    ELSE SendReq(freed, "TC_DISCONNECT_REQ", node.local, node.remote,
                                 m.port, retry).c,
              cbs |-> <<Cbk("DISCONNECTED", node)>>]

\* CM_RecvSignalingData: the dispatch of one received message.
RecvSignaling(c, m, valid, o) ==
    LET answers(code) == Cached(c, m.id, code)
        taken(code) == [c EXCEPT !.pend = RemoveAt(@, answers(code))]
    IN  CASE m.code = "TC_CONNECT_REQ" -> PassiveEstablish(c, m, valid, o.send)
          [] m.code = "TC_DISCONNECT_REQ" -> PassiveRelease(c, m, o.send, o.retry)
          [] m.code = "TC_CONNECT_RSP" ->
               IF answers("TC_CONNECT_REQ") = 0 THEN Quiet(c)
               ELSE EstablishRsp(taken("TC_CONNECT_REQ"), m.src, m.ok, m.dst)
          [] OTHER ->
               IF answers("TC_DISCONNECT_REQ") = 0 THEN Quiet(c)
               ELSE ReleaseRsp(taken("TC_DISCONNECT_REQ"), m.src, m.ok)

\* Mutant of SignalingTimeout: the timeout of a release is logged and nothing else.
SignalingTimeoutReleaseIgnored(c) ==
    LET req == Head(c.pend)
        rest == [c EXCEPT !.pend = Tail(@)]
    IN  IF req.code = "TC_CONNECT_REQ" THEN EstablishRsp(rest, req.src, FALSE, NoTcid)
        ELSE Quiet(rest)

\* Mutant of SignalingTimeout: the wait for the answer to a release is started once more.
SignalingTimeoutReleaseRestarts(c) ==
    LET req == Head(c.pend)
        rest == [c EXCEPT !.pend = Tail(@)]
    IN  IF req.code = "TC_CONNECT_REQ" THEN EstablishRsp(rest, req.src, FALSE, NoTcid)
        ELSE Quiet([rest EXCEPT !.pend = Append(@, [req EXCEPT !.id = FreeId(c)]),
                                !.nextId = (FreeId(c) + 1) % IdMod])

\* CM_SignalingTimeoutCbkInner for the oldest cached request; a release that times
\* out is told to QOSM as RELEASE_TIMEOUT.
SignalingTimeout(c) ==
    LET req == Head(c.pend)
        rest == [c EXCEPT !.pend = Tail(@)]
    IN  IF req.code = "TC_CONNECT_REQ" THEN EstablishRsp(rest, req.src, FALSE, NoTcid)
        ELSE ReleaseRsp(rest, req.src, TRUE)

\* The disconnect event: CM_DynTransChannReleaseAllNode tells QOSM of every node,
\* CM_DynTcidDestroyPool and CM_SignalingCacheClearByLcid drop the rest.
LinkDisconnected(c) ==
    LET told(node) == IF node.state = "ACTIVATING" THEN Cbk("ESTABLISH_FAIL", node)
                      ELSE Cbk("DISCONNECTED", node)
    IN  [c |-> [CmInit EXCEPT !.nextId = c.nextId],
         cbs |-> [i \in DOMAIN c.nodes |-> told(c.nodes[i])]]
=============================================================================
