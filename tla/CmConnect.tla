------------------------------ MODULE CmConnect ------------------------------
(***************************************************************************)
(* Connection management (CM): who is being connected, and which links     *)
(* there are.                                                              *)
(*                                                                         *)
(* Modules ask for devices directly (with a 10 s timer each) or in the     *)
(* background.  The controller is given the devices as an accept filter    *)
(* list and told to create a connection with any of them; every change of  *)
(* the devices cancels that command and gives it again.  One logic link    *)
(* with the zero address, CONNECTING, stands for the command.  Handlers    *)
(* run to completion on the schedule thread; commands to the controller    *)
(* and its events are queued, so what the controller did and what CM       *)
(* believes differ while they travel.                                      *)
(*                                                                         *)
(* A handler is an operator from the host record to its next value:        *)
(*   links   g_deviceLinkListHead, in list order (tail insert);            *)
(*   devs    g_cmConnectingDevMap: an address nobody waits for is one with *)
(*           no background and no direct connection;                       *)
(*   asks    the direct requests their module has not heard of since;      *)
(*   out     the commands handed to DLI;                                   *)
(*   ok      no call has failed in this handler;  bad: the call that does. *)
(***************************************************************************)
EXTENDS Integers, Sequences, FiniteSets, SequencesExt

CONSTANTS
    Addr,          \* the device addresses
    Module,        \* the modules that connect directly: ADPT, SSAP, BNL
    Lcid,          \* the connection handles of the controller
    Ends,          \* the pairs <<type, role>> a connection can come up with
    MaxDev,        \* CM_MAX_CONNECTING_DEV_NUM
    BgLists,       \* the address lists given to CM_BackgroundConnectAdd
    Zero,          \* the zero address of the allow-list connection
    MaxReq,        \* bound: the requests of modules
    MaxAir,        \* bound: connections and disconnections made by the peers
    MaxFault       \* bound: calls that fail in the stack or in the controller

ASSUME CmConnectAssumption ==
    /\ IsFiniteSet(Addr) /\ Zero \notin Addr /\ Lcid \subseteq Nat \ {0}
    /\ MaxDev \in Nat /\ MaxReq \in Nat /\ MaxAir \in Nat /\ MaxFault \in Nat
    /\ BgLists \subseteq Seq(Addr) /\ Ends \subseteq {"SCAN", "ADV"} \X {"G", "T"}

VARIABLES
    host,     \* links, devs and asks: see above
    cmds,     \* the commands under way to the controller
    evts,     \* the events under way to CM
    ctl,      \* the controller: initiating, its filter list, its connections
    reqs,     \* the requests so far
    air,      \* what the peers did so far
    faults,   \* the calls that failed so far
    stale     \* a call failed since the allow list was last given to the controller

vars == <<host, cmds, evts, ctl, reqs, air, faults, stale>>

NoLcid == 0

\* SleLogicLink_S: "told" when the modules have heard that it is connected.
Link == [addr : Addr \cup {Zero}, lcid : Lcid \cup {NoLcid},
         status : {"CONNECTING", "CONNECTED", "DISCONNECTING"},
         type : {"SCAN", "ADV"}, role : {"G", "T"}, told : BOOLEAN]

\* CM_AppConnectingDev_S: only CM_MODULE_ADPT may connect in the background.
Dev == [bg : BOOLEAN, direct : SUBSET Module]
NoDev == [bg |-> FALSE, direct |-> {}]

Reads == {"VERSION", "FEATURES", "DATALEN"}
Command == [op : {"LIST"}, addrs : SUBSET Addr] \cup [op : {"CREATE", "CANCEL"}]
               \cup [op : Reads \cup {"RELEASE"}, lcid : Lcid]
Event == [ev : {"COMPLETE"}, addr : Addr, lcid : Lcid, type : {"SCAN", "ADV"},
          role : {"G", "T"}]
             \cup [ev : {"DISCONNECT"}, lcid : Lcid]
             \cup [ev : Reads, lcid : Lcid, ok : BOOLEAN]

\* A call that fails: a command DLI does not take (of a list, "got" was still added),
\* a timer, or the fixed channels.
Failures == [op : {"TIMER", "CANCEL", "CREATE", "RELEASE", "FIXED"} \cup Reads,
             got : {{}}] \cup [op : {"LIST"}, got : SUBSET Addr]
NoFailure == [op |-> "NONE", got |-> {}]

Ok(h) == h.ok

-----------------------------------------------------------------------------
(* Commands and lookups.                                                   *)

Waiting(h) == {a \in Addr : h.devs[a] # NoDev}

\* SleLogicLinkGetByAddr, ...ByLcid, ...ByStatus: the first in list order, or 0.
ByAddr(h, a) == SelectInSeq(h.links, LAMBDA x : x.addr = a)
ByLcid(h, l) == SelectInSeq(h.links, LAMBDA x : x.lcid = l)
ByStatus(h, s) == SelectInSeq(h.links, LAMBDA x : x.status = s)

HasStatus(h, a, s) == ByAddr(h, a) # 0 /\ h.links[ByAddr(h, a)].status = s

\* A call that may fail.
Try(h, op) == [h EXCEPT !.ok = @ /\ h.bad.op # op]

\* A command: queued behind the others unless DLI refuses it.
Send(h, cmd) ==
    IF h.bad.op = cmd.op THEN Try(h, cmd.op) ELSE [h EXCEPT !.out = Append(@, cmd)]

\* CM_ExecLogicLinkModuleCbks with DISCONNECTED: these modules hear about a.
Tell(h, a, modules) == [h EXCEPT !.asks = @ \ (modules \X {a})]

\* CM_NotifyLogicLinkCbks: every module hears about a.
TellAll(h, a) == Tell(h, a, Module)

SleLogicLinkRemove(h, i) == [h EXCEPT !.links = RemoveAt(@, i)]

SleLogicLinkAdd(h, link) == [h EXCEPT !.links = Append(@, link)]

-----------------------------------------------------------------------------
(* Giving the controller the allow list and taking it back.                *)

\* Mutant of ConnectCancelReq: the CONNECTING link is kept.
ConnectCancelReqKeepsLink(h) ==
    IF ByStatus(h, "CONNECTING") = 0 THEN h ELSE Send(h, [op |-> "CANCEL"])

\* CM_ConnectCancelReq: the link goes first, whether or not the command is taken.
ConnectCancelReq(h) ==
    LET i == ByStatus(h, "CONNECTING")
    IN  IF i = 0 THEN h ELSE Send(SleLogicLinkRemove(h, i), [op |-> "CANCEL"])

\* CM_ConnectEstablishReq with the zero address: an allow-list connection that is
\* there already answers the request.
ConnectEstablishReq(h) ==
    LET link == [addr |-> Zero, lcid |-> NoLcid, status |-> "CONNECTING",
                 type |-> "SCAN", role |-> "G", told |-> FALSE]
        asked == Send(SleLogicLinkAdd(h, link), [op |-> "CREATE"])
    IN  IF ByAddr(h, Zero) # 0 \/ ByStatus(h, "CONNECTING") # 0 THEN h
        ELSE IF Ok(asked) THEN asked ELSE [asked EXCEPT !.links = h.links]

\* CM_SetConnectParamAndResetAllowList: clear the filter list, add every device.
ResetAllowList(h) ==
    IF h.bad.op = "LIST"
    THEN [Try(h, "LIST") EXCEPT
            !.out = Append(@, [op |-> "LIST", addrs |-> Waiting(h) \cap h.bad.got])]
    ELSE Send(h, [op |-> "LIST", addrs |-> Waiting(h)])

\* CM_StartAllowListConnReq: nothing to do when nobody is waited for.
StartAllowListConnReq(h) ==
    LET listed == ResetAllowList(h)
    IN  CASE Waiting(h) = {} -> h
          [] Waiting(h) # {} /\ ~Ok(listed) -> listed
          [] OTHER -> ConnectEstablishReq(listed)

\* CM_StartRmvAllowListConnReq, CM_RestartAllowListConnReq.
Restart(h) ==
    LET cancelled == ConnectCancelReq(h)
    IN  IF Ok(cancelled) THEN StartAllowListConnReq(cancelled) ELSE cancelled

-----------------------------------------------------------------------------
(* The requests of the modules.                                            *)

\* CM_DestroyConnectingDevMap: the devices are forgotten for every module.
Forget(h, addrs) == [h EXCEPT !.devs = [a \in Addr |-> IF a \in addrs THEN NoDev ELSE @[a]]]

\* CM_DoingConnDirectInsert: the timer, then the old command is cancelled, then the
\* device is entered and the allow list given again.
DoingConnDirectInsert(h, m, a) ==
    LET timed == Try(h, "TIMER")
        cancelled == ConnectCancelReq(timed)
        entered == [cancelled EXCEPT !.devs[a].direct = @ \cup {m}, !.asks = @ \cup {<<m, a>>}]
    IN  CASE ~Ok(timed) -> timed
          [] Ok(timed) /\ ~Ok(cancelled) -> cancelled
          [] OTHER -> StartAllowListConnReq(entered)

\* CM_DirectConnectAddInner and CM_DirectConnectDoingConnList. A module that waits
\* for the device already gets its timer restarted.
DirectConnectAddInner(h, m, a) ==
    LET done == IF m \in h.devs[a].direct THEN Try(h, "TIMER") ELSE DoingConnDirectInsert(h, m, a)
    IN  IF Cardinality(Waiting(h)) >= MaxDev \/ HasStatus(h, a, "CONNECTED") THEN h
        ELSE IF Ok(done) THEN done ELSE Forget(Tell(done, a, {m}), {a})

\* CM_ConnectReleaseReq on a connected link.
ConnectReleaseReq(h, i) ==
    LET sent == Send([h EXCEPT !.links[i].status = "DISCONNECTING"],
                     [op |-> "RELEASE", lcid |-> h.links[i].lcid])
    IN  IF Ok(sent) THEN sent ELSE TellAll([sent EXCEPT !.links = h.links], h.links[i].addr)

\* Mutant of DoingConnDirectRemove: only the module that asks hears of it.
DoingConnDirectRemoveTellsOne(h, m, a) ==
    IF h.devs[a] = NoDev THEN Tell(h, a, {m}) ELSE Restart(Forget(Tell(h, a, {m}), {a}))

\* CM_DoingConnDirectRemove: every module that waits for the device hears of it.
DoingConnDirectRemove(h, m, a) ==
    IF h.devs[a] = NoDev THEN Tell(h, a, {m})
    ELSE Restart(Forget(Tell(h, a, h.devs[a].direct), {a}))

\* CM_DirectConnectRmvInner.
DirectConnectRmvInner(h, m, a) ==
    CASE HasStatus(h, a, "CONNECTED") -> ConnectReleaseReq(h, ByAddr(h, a))
      [] HasStatus(h, a, "DISCONNECTING") -> h
      [] OTHER -> DoingConnDirectRemove(h, m, a)

\* CM_DirectConnTimeoutCbkInner: the module hears of it last, and not at all when the
\* allow list could not be given again.
DirectConnTimeoutCbkInner(h, m, a) ==
    LET done == Restart([h EXCEPT !.devs[a].direct = @ \ {m}])
    IN  IF Ok(done) THEN Tell(done, a, {m}) ELSE done

\* One address of CM_BgConnectAddDoingConnBgList.
BgInsert(h, a) ==
    IF \/ ~h.devs[a].bg /\ HasStatus(h, a, "CONNECTED")
       \/ h.devs[a] = NoDev /\ Cardinality(Waiting(h)) >= MaxDev
    THEN h
    ELSE [h EXCEPT !.devs[a].bg = TRUE]

\* CM_BgConnectAddDoingConnBgList: the first n addresses, one after the other.
BgInsertFirst(h, list) ==
    LET f[n \in 0 .. Len(list)] == IF n = 0 THEN h ELSE BgInsert(f[n - 1], list[n])
    IN  f

\* CM_BgConnectAddInner: the old command is cancelled if there were devices before;
\* nothing happens when no address of the list is connected in the background now.
BgConnectAddInner(h, list) ==
    LET added == BgInsertFirst(h, list)[Len(list)]
        done == IF Waiting(h) = {} THEN StartAllowListConnReq(added) ELSE Restart(added)
    IN  IF \/ Cardinality(Waiting(h)) >= MaxDev
           \/ \A i \in DOMAIN list : ~added.devs[list[i]].bg
        THEN h
        ELSE IF Ok(done) THEN done ELSE Forget(done, {list[i] : i \in DOMAIN list})

\* CM_BgConnectRmvInner.
BgConnectRmvInner(h, a) ==
    IF h.devs[a].bg THEN Restart([h EXCEPT !.devs[a].bg = FALSE]) ELSE h

\* CM_BgConnectClearInner: the command is given again even if nothing was removed.
BgConnectClearInner(h) ==
    Restart([h EXCEPT !.devs = [a \in Addr |-> [@[a] EXCEPT !.bg = FALSE]]])

-----------------------------------------------------------------------------
(* The events of the controller.                                           *)

\* Mutant of Interrupt: the link is marked as gone before it is.
InterruptMarksGone(h, i) ==
    Send([h EXCEPT !.links[i].status = "DISCONNECTED"],
         [op |-> "RELEASE", lcid |-> h.links[i].lcid])

\* CM_ConnectionProcInterruptReq.
Interrupt(h, i) ==
    Send([h EXCEPT !.links[i].status = "DISCONNECTING"],
         [op |-> "RELEASE", lcid |-> h.links[i].lcid])

\* SleAccessConnectCbkSetLinkStatusAndInfo: the link of a connection that came up.
LinkOf(e) == [addr |-> e.addr, lcid |-> e.lcid, status |-> "CONNECTED",
              type |-> e.type, role |-> e.role, told |-> FALSE]

\* Mutant of NobodyWaits: the connection is left to itself.
NobodyWaitsKeeps(h, l) == h

\* The end of SleLogicLinkSetAddrWhenActiveConnDone: no CONNECTING link.
NobodyWaits(h, l) == Send(h, [op |-> "RELEASE", lcid |-> l])

\* SleAccessConnectCbkProc, SleLogicLinkSetAddrWhenActiveConnDone: a passive connection
\* gets a link of its own; an active one takes the CONNECTING link, whichever request
\* that stands for, and is released when there is none.
Completed(h, e) ==
    LET p == ByStatus(h, "CONNECTING")
    IN  CASE e.type = "ADV" /\ ByAddr(h, e.addr) = 0 -> SleLogicLinkAdd(h, LinkOf(e))
          [] e.type = "SCAN" /\ ~HasStatus(h, e.addr, "CONNECTED") ->
                 IF p # 0 THEN [h EXCEPT !.links[p] = LinkOf(e)] ELSE NobodyWaits(h, e.lcid)
          [] OTHER -> h

\* CM_ConcurrentConnDoingComplete.
ConcurrentConnDoingComplete(h, a) == StartAllowListConnReq(Forget(h, {a}))

\* CM_SleCreateConnectionProc: the first link of that address should be connected now.
\* A passive connection removes the CONNECTING link, which is then added anew for the
\* devices left.
CreateConnectionProc(h, e) ==
    LET i == ByAddr(h, e.addr)
        reading == Send(h, [op |-> "VERSION", lcid |-> e.lcid])
        active == Try(reading, "FIXED")
        settled == LET p == ByStatus(active, "CONNECTING")
                   IN  IF e.type = "ADV" /\ p # 0 THEN SleLogicLinkRemove(active, p) ELSE active
    IN  CASE h.links[i].status # "CONNECTED" ->
                 StartAllowListConnReq(TellAll(SleLogicLinkRemove(h, i), e.addr))
          [] h.links[i].status = "CONNECTED" /\ ~Ok(active) -> Interrupt(active, i)
          [] OTHER -> ConcurrentConnDoingComplete(settled, e.addr)

\* SleAccessConnectCbk with success.
ConnectCbk(h, e) ==
    LET done == Completed(h, e)
    IN  IF done.links = h.links THEN done ELSE CreateConnectionProc(done, e)

\* SleAccessDisconnectCbk, CM_SleDisconnectProc.
DisconnectCbk(h, e) ==
    LET i == ByLcid(h, e.lcid)
    IN  IF i = 0 THEN h ELSE TellAll(SleLogicLinkRemove(h, i), h.links[i].addr)

\* SleAccessReadRemoteVersionCbk, SleAccessReadRemoteFeatureCbk and
\* SleAccessSetDataLenCbk: version, features, data length, each asked for when the one
\* before has come; then the modules hear of the link. A failed read releases the link,
\* through two reports. A data length that cannot be asked for has no consequence.
ReadCbk(h, e) ==
    LET i == ByLcid(h, e.lcid)
        told == TellAll([h EXCEPT !.links[i].told = TRUE], h.links[i].addr)
        next == Send(h, [op |-> IF e.ev = "VERSION" THEN "FEATURES" ELSE "DATALEN",
                         lcid |-> e.lcid])
    IN  CASE i = 0 -> h
          [] i # 0 /\ ~e.ok /\ e.ev = "DATALEN" -> Interrupt(h, i)
          [] i # 0 /\ ~e.ok /\ e.ev # "DATALEN" -> Interrupt(Interrupt(h, i), i)
          [] i # 0 /\ e.ok /\ e.ev = "VERSION" /\ h.links[i].role = "T" -> told
          [] i # 0 /\ e.ok /\ e.ev = "VERSION" /\ h.links[i].role = "G" ->
                 IF Ok(next) THEN next ELSE Interrupt(next, i)
          [] i # 0 /\ e.ok /\ e.ev = "FEATURES" -> next
          [] OTHER -> told

\* The event at the head of the queue is handled.
Handle(h, e) ==
    CASE e.ev = "COMPLETE" -> ConnectCbk(h, e)
      [] e.ev = "DISCONNECT" -> DisconnectCbk(h, e)
      [] OTHER -> ReadCbk(h, e)

-----------------------------------------------------------------------------
(* The host's actions: a handler, with the call that fails in it, if any.  *)

Init ==
    /\ host = [links |-> <<>>, devs |-> [a \in Addr |-> NoDev], asks |-> {}]
    /\ cmds = <<>> /\ evts = <<>>
    /\ ctl = [initiating |-> FALSE, list |-> {}, conn |-> [l \in Lcid |-> Zero]]
    /\ reqs = 0 /\ air = 0 /\ faults = 0 /\ stale = FALSE

\* One handler runs. A failure is chosen only if the handler makes that call.
Run(Handler(_)) ==
    \E bad \in Failures \cup {NoFailure} :
        \E h \in {Handler([links |-> host.links, devs |-> host.devs, asks |-> host.asks,
                           out |-> <<>>, ok |-> TRUE, bad |-> bad])} :
            LET listed == \E i \in DOMAIN h.out : h.out[i].op = "LIST"
            IN  /\ bad = NoFailure \/ (faults < MaxFault /\ ~h.ok)
                /\ host' = [links |-> h.links, devs |-> h.devs, asks |-> h.asks]
                /\ cmds' = cmds \o h.out
                /\ faults' = faults + (IF h.ok THEN 0 ELSE 1)
                /\ stale' = (~h.ok \/ (stale /\ ~listed))

Request(Handler(_)) ==
    /\ reqs < MaxReq /\ reqs' = reqs + 1
    /\ Run(Handler)
    /\ UNCHANGED <<evts, ctl, air>>

DirectConnectAdd(m, a) == Request(LAMBDA h : DirectConnectAddInner(h, m, a))
DirectConnectRemove(m, a) == Request(LAMBDA h : DirectConnectRmvInner(h, m, a))
BackgroundConnectAdd(list) == Request(LAMBDA h : BgConnectAddInner(h, list))
BackgroundConnectRemove(a) == Request(LAMBDA h : BgConnectRmvInner(h, a))
BackgroundConnectClear == Request(BgConnectClearInner)

\* The 10 s timer of a direct connection fires.
DirectConnTimeout(m, a) ==
    /\ m \in host.devs[a].direct
    /\ Run(LAMBDA h : DirectConnTimeoutCbkInner(h, m, a))
    /\ UNCHANGED <<evts, ctl, reqs, air>>

\* CM handles the oldest event.
Recv ==
    /\ evts # <<>>
    /\ Run(LAMBDA h : Handle(h, Head(evts)))
    /\ evts' = Tail(evts)
    /\ UNCHANGED <<ctl, reqs, air>>

-----------------------------------------------------------------------------
(* The controller, as CM uses it. A status other than success is dropped   *)
(* by SleAccessConnectCbk, so a refused or cancelled CREATE has no event.   *)

Connected == {ctl.conn[l] : l \in Lcid} \ {Zero}

\* CREATE: disallowed while it initiates; the chip may refuse it (0x20).
CtlCreate ==
    \E refused \in {FALSE} \cup (IF faults < MaxFault THEN {TRUE} ELSE {}) :
        /\ ctl' = [ctl EXCEPT !.initiating = @ \/ ~refused]
        /\ faults' = faults + (IF refused THEN 1 ELSE 0)
        /\ stale' = (stale \/ refused)
        /\ UNCHANGED evts

\* RELEASE: a handle without a connection is a command error, which
\* SleAccessDisconnectCbk takes for a disconnection of that handle.
CtlRelease(l) ==
    /\ ctl' = [ctl EXCEPT !.conn[l] = Zero]
    /\ evts' = Append(evts, [ev |-> "DISCONNECT", lcid |-> l])
    /\ UNCHANGED <<faults, stale>>

\* VERSION, FEATURES, DATALEN: fails when the connection is gone, or over the air.
CtlRead(op, l) ==
    \E ok \in IF ctl.conn[l] = Zero THEN {FALSE}
              ELSE {TRUE} \cup (IF faults < MaxFault THEN {FALSE} ELSE {}) :
        /\ evts' = Append(evts, [ev |-> op, lcid |-> l, ok |-> ok])
        /\ faults' = faults + (IF ctl.conn[l] # Zero /\ ~ok THEN 1 ELSE 0)
        /\ UNCHANGED <<ctl, stale>>

\* The controller takes the oldest command.
CtlCommand ==
    /\ cmds # <<>>
    /\ cmds' = Tail(cmds)
    /\ LET c == Head(cmds)
       IN  \/ c.op = "LIST" /\ ctl' = [ctl EXCEPT !.list = c.addrs]
                            /\ UNCHANGED <<evts, faults, stale>>
           \/ c.op = "CANCEL" /\ ctl' = [ctl EXCEPT !.initiating = FALSE]
                              /\ UNCHANGED <<evts, faults, stale>>
           \/ c.op = "CREATE" /\ CtlCreate
           \/ c.op = "RELEASE" /\ CtlRelease(c.lcid)
           \/ c.op \in Reads /\ CtlRead(c.op, c.lcid)
    /\ UNCHANGED <<host, reqs, air>>

\* A connection comes up: with a listed device while initiating, or by a peer that
\* answers an advertisement. Its handle is the lowest free one, so handles are reused
\* as early as can be.
CtlConnect(a, l, type, role) ==
    /\ air < MaxAir /\ air' = air + 1
    /\ a \notin Connected /\ ctl.conn[l] = Zero
    /\ \A k \in Lcid : k < l => ctl.conn[k] # Zero
    /\ type = "SCAN" => ctl.initiating /\ a \in ctl.list
    /\ ctl' = [ctl EXCEPT !.conn[l] = a, !.initiating = @ /\ type = "ADV"]
    /\ evts' = Append(evts, [ev |-> "COMPLETE", addr |-> a, lcid |-> l, type |-> type,
                             role |-> role])
    /\ UNCHANGED <<host, cmds, reqs, faults, stale>>

\* The peer leaves, or its connection is lost.
CtlLose(l) ==
    /\ air < MaxAir /\ air' = air + 1
    /\ ctl.conn[l] # Zero
    /\ ctl' = [ctl EXCEPT !.conn[l] = Zero]
    /\ evts' = Append(evts, [ev |-> "DISCONNECT", lcid |-> l])
    /\ UNCHANGED <<host, cmds, reqs, faults, stale>>

Next ==
    \/ \E m \in Module, a \in Addr :
          DirectConnectAdd(m, a) \/ DirectConnectRemove(m, a) \/ DirectConnTimeout(m, a)
    \/ \E list \in BgLists : BackgroundConnectAdd(list)
    \/ \E a \in Addr : BackgroundConnectRemove(a)
    \/ BackgroundConnectClear
    \/ Recv
    \/ CtlCommand
    \/ \E a \in Addr, l \in Lcid, end \in Ends : CtlConnect(a, l, end[1], end[2])
    \/ \E l \in Lcid : CtlLose(l)

Spec == Init /\ [][Next]_vars

-----------------------------------------------------------------------------
(* Properties.                                                             *)

\* The links, the devices waited for, the commands and the events keep the shape the
\* code gives them.
TypeOK ==
    /\ host.links \in Seq(Link) /\ host.devs \in [Addr -> Dev]
    /\ host.asks \subseteq Module \X Addr
    /\ cmds \in Seq(Command) /\ evts \in Seq(Event)
    /\ ctl \in [initiating : BOOLEAN, list : SUBSET Addr, conn : [Lcid -> Addr \cup {Zero}]]
    /\ reqs \in 0 .. MaxReq /\ air \in 0 .. MaxAir /\ faults \in 0 .. MaxFault
    /\ stale \in BOOLEAN

\* The filter list the controller will have when it has taken the commands under way.
ListToBe ==
    LET i == SelectLastInSeq(cmds, LAMBDA c : c.op = "LIST")
    IN  IF i = 0 THEN ctl.list ELSE cmds[i].addrs

\* Somebody is waiting for a device: then the device is in the filter list, a CONNECTING
\* link stands for the command, and the controller initiates or will, or has connected
\* and CM will hear of it (every handler of cm_concurrent_conn.c cancels and starts again).
\* Only a call that fails breaks this, until the list is given again; after two failures the
\* new list may find the CONNECTING link of a refused command and start none.
WaitingIsPursued ==
    \A a \in Waiting(host) :
        stale \/
        /\ a \in ListToBe
        /\ ByStatus(host, "CONNECTING") # 0
        /\ \/ ctl.initiating
           \/ \E i \in DOMAIN cmds : cmds[i].op = "CREATE"
           \/ \E i \in DOMAIN evts : evts[i].ev = "COMPLETE" /\ evts[i].type = "SCAN"

Coming(l) == \E i \in DOMAIN evts : evts[i].ev = "COMPLETE" /\ evts[i].lcid = l
Going(l) == \E i \in DOMAIN evts : evts[i].ev = "DISCONNECT" /\ evts[i].lcid = l
Releasing(l) == \E i \in DOMAIN cmds : cmds[i].op = "RELEASE" /\ cmds[i].lcid = l

\* No connection of the controller is forgotten and no link outlives its connection,
\* however connections, releases and losses cross: up to the events under way the links
\* with a handle are the connections, one for each device (SleAccessConnectCbkProc,
\* CM_SleDisconnectProc).
LinksMatchController ==
    /\ \A l \in Lcid :
          ctl.conn[l] # Zero =>
              \/ Coming(l) \/ Releasing(l) \/ faults # 0
              \/ ByLcid(host, l) # 0 /\ host.links[ByLcid(host, l)].addr = ctl.conn[l]
    /\ \A i \in DOMAIN host.links :
          LET k == host.links[i]
          IN  /\ k.lcid # NoLcid => ctl.conn[k.lcid] = k.addr \/ Going(k.lcid)
              /\ \A j \in DOMAIN host.links : i # j => host.links[j].addr # k.addr

\* Link k is still being asked about, or on its way out.
Asked(k) ==
    \/ Going(k.lcid)
    \/ \E j \in DOMAIN cmds : cmds[j].op \in Reads \cup {"RELEASE"} /\ cmds[j].lcid = k.lcid
    \/ \E j \in DOMAIN evts : evts[j].ev \in Reads /\ evts[j].lcid = k.lcid

\* No direct request is lost: until its module hears of the device, the request's timer
\* runs or the device has a link the modules will still hear of, connected or gone
\* (CM_DirectConnTimeoutCbkInner, CM_DoingConnDirectRemove, CM_SleSetDataLenProc,
\* CM_SleDisconnectProc). Only a call that fails breaks this.
AskIsPending ==
    \A m \in Module, a \in Addr :
        <<m, a>> \in host.asks =>
            \/ faults # 0
            \/ m \in host.devs[a].direct
            \/ ByAddr(host, a) # 0 /\ Asked(host.links[ByAddr(host, a)])
=============================================================================
