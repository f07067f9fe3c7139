------------------------------ MODULE SsapLink ------------------------------
(***************************************************************************)
(* Service management (SSAP): the links of the client applications.        *)
(*                                                                         *)
(* A client application is registered for one address and asks SSAP to     *)
(* connect and to disconnect it.  Several applications may share an        *)
(* address, and with it the one connection that CM keeps: the table        *)
(* g_linkState holds what SSAP believes of that connection, and each       *)
(* application has a state of its own and at most one operation kept for   *)
(* later.  Everything runs on the schedule thread, one task after another: *)
(* the calls of the services, the requests SSAP posts to CM, and CM's      *)
(* reactions to the controller, from which CM calls SSAP back at once.     *)
(*                                                                         *)
(* A task is an operator from the stack's record to its next value:        *)
(*   apps      g_regList, NoApp where there is no application;             *)
(*   links     g_linkState: NONE where the address has no used entry;      *)
(*   cleaning  g_ssapClientCleanUp;                                        *)
(*   cm        CM's link with the address, whether CM connects it for      *)
(*             SSAP, and whether the modules heard of the link;            *)
(*   out       the tasks posted;  bad: what fails in this task, if any.    *)
(***************************************************************************)
EXTENDS Integers, Sequences, FiniteSets, SequencesExt

CONSTANTS
    MaxApp,      \* NLSTK_SSAP_CLIENT_APP_MAX_NUM
    Addr,        \* the peer addresses
    MaxLink,     \* NLSTK_SSAP_MAX_NUM_OF_LINK
    MaxReq,      \* bound: the calls of the services
    MaxAir,      \* bound: what peers and other modules do to the connections
    MaxFault     \* bound: tasks in which a call fails

ASSUME SsapLinkAssumption ==
    /\ IsFiniteSet(Addr)
    /\ MaxApp \in Nat /\ MaxLink \in Nat /\ MaxReq \in Nat /\ MaxAir \in Nat /\ MaxFault \in Nat

VARIABLES
    ssap,     \* apps, links, cleaning and cm: see above
    tasks,    \* the work list of the schedule thread
    conn,     \* the addresses the controller is connected with
    reqs,     \* the calls of the services so far
    air,      \* what peers and other modules did so far
    faults    \* the tasks so far in which a call failed

vars == <<ssap, tasks, conn, reqs, air, faults>>

AppIds == 0 .. MaxApp - 1

AppStates == {"IDLE", "CONNECTING", "CONNECTED", "DISCONNECTING", "DISCONNECTED"}
LinkStates == {"NONE", "CONNECTING", "CONNECTED", "DISCONNECTING"}
Opers == {"NONE", "CONNECT", "DISCONNECT"}

\* SsapcAppRegParam_S; want is the last thing the service asked for.
RegParam == [addr : Addr, state : AppStates, next : Opers, want : Opers]
NoApp == [addr |-> "NONE"]

CmLink == [link : {"NONE", "CONNECTED", "DISCONNECTING"}, waits : BOOLEAN, told : BOOLEAN]

Task == [op : {"CONNECT", "DISCONNECT", "DEREGISTER"}, app : AppIds]
            \cup [op : {"REGISTER", "ADD", "REMOVE", "UP", "READY", "DOWN"}, addr : Addr]
            \cup [op : {"CLEAN"}]

\* What can fail in a task: posting to CM, CM taking an address in, CM having too many
\* addresses already, CM's release command.
Failures == {"POST", "ADD", "FULL", "RELEASE"}

-----------------------------------------------------------------------------
(* The actual links: ssap_link_state.c.                                    *)

Post(s, task) == [s EXCEPT !.out = Append(@, task)]

HasRoom(s) == Cardinality({a \in Addr : s.links[a] # "NONE"}) < MaxLink

\* SsapLinkHandleUserConnect, SsapLinkHandleTryConnect: the state afterwards is the
\* answer, an entry that is free again stands for DISCONNECTED.
SsapLinkHandleUserConnect(s, a) ==
    IF s.links[a] = "NONE" /\ HasRoom(s) /\ s.bad # "POST"
    THEN Post([s EXCEPT !.links[a] = "CONNECTING"], [op |-> "ADD", addr |-> a])
    ELSE s

\* SsapLinkHandleUserDisconnect, SsapLinkHandleTryDisconnect.
SsapLinkHandleUserDisconnect(s, a) ==
    CASE s.links[a] = "CONNECTED" /\ s.bad = "POST" -> [s EXCEPT !.links[a] = "NONE"]
      [] s.links[a] = "CONNECTED" /\ s.bad # "POST" ->
             Post([s EXCEPT !.links[a] = "DISCONNECTING"], [op |-> "REMOVE", addr |-> a])
      [] OTHER -> s

\* Mutant of RecordLinkStateFromCm: the entry is kept when the link is gone.
RecordLinkStateFromCmKeeps(s, a, up) ==
    [s EXCEPT !.links[a] = IF up THEN "CONNECTED" ELSE "DISCONNECTED"]

\* SsapLinkHandleRecordLinkStateFromCm.
RecordLinkStateFromCm(s, a, up) ==
    CASE ~up -> [s EXCEPT !.links[a] = "NONE"]
      [] up /\ (s.links[a] # "NONE" \/ HasRoom(s)) -> [s EXCEPT !.links[a] = "CONNECTED"]
      [] OTHER -> s

-----------------------------------------------------------------------------
(* The applications: ssapc_app_link_sm.c.                                  *)

SetLinkState(s, p, state) == [s EXCEPT !.apps[p].state = state]
CacheLinkOper(s, p, oper) == [s EXCEPT !.apps[p].next = oper]
ClearLinkOper(s, p) == CacheLinkOper(s, p, "NONE")

\* The applications of an address.
AppsOf(s, a) == {p \in AppIds : s.apps[p] # NoApp /\ s.apps[p].addr = a}

\* Mutant of DisconnectCmLinkCheck: applications that are still connecting do not count.
DisconnectCmLinkCheckConnected(s, p) ==
    \A q \in AppsOf(s, s.apps[p].addr) \ {p} : s.apps[q].state # "CONNECTED"

\* SsapcAppClientDisconnectCmLinkCheck: no other application uses the connection.
DisconnectCmLinkCheck(s, p) ==
    \A q \in AppsOf(s, s.apps[p].addr) \ {p} : s.apps[q].state \notin {"CONNECTED", "CONNECTING"}

\* An application that is not connected finds out what the link is doing; while the link
\* is being released its connect is kept. The same in IDLE and DISCONNECTED.
UserConnectInIdleState(s, p) ==
    LET a == s.apps[p].addr
        asked == SsapLinkHandleUserConnect(ClearLinkOper(s, p), a)
    IN  CASE asked.links[a] = "DISCONNECTING" -> CacheLinkOper(asked, p, "CONNECT")
          [] asked.links[a] = "NONE" -> SetLinkState(asked, p, "DISCONNECTED")
          [] OTHER -> SetLinkState(asked, p, asked.links[a])

UserConnectInConnectingState(s, p) == ClearLinkOper(s, p)
UserConnectInDisconnectingState(s, p) == CacheLinkOper(s, p, "CONNECT")

\* SsapClientLinkStateMachineCall: one handler for every state and event. A connected
\* application is only told so.
UserConnect(s, p) ==
    CASE s.apps[p].state = "CONNECTING" -> UserConnectInConnectingState(s, p)
      [] s.apps[p].state = "CONNECTED" -> s
      [] s.apps[p].state = "DISCONNECTING" -> UserConnectInDisconnectingState(s, p)
      [] s.apps[p].state \in {"IDLE", "DISCONNECTED"} -> UserConnectInIdleState(s, p)

UserDisconnectInConnectingState(s, p) == CacheLinkOper(s, p, "DISCONNECT")
UserDisconnectInDisconnectingState(s, p) == ClearLinkOper(s, p)

\* The connection is released by the last application that uses it.
UserDisconnectInConnectedState(s, p) ==
    LET a == s.apps[p].addr
        cleared == ClearLinkOper(s, p)
        asked == SsapLinkHandleUserDisconnect(cleared, a)
    IN  IF DisconnectCmLinkCheck(s, p)
        THEN SetLinkState(asked, p, IF asked.links[a] = "DISCONNECTING" THEN "DISCONNECTING"
                                                                        ELSE "DISCONNECTED")
        ELSE SetLinkState(cleared, p, "DISCONNECTED")

\* An application that is not connected is only told so; the connect it may have kept
\* stays.
UserDisconnect(s, p) ==
    CASE s.apps[p].state \in {"IDLE", "DISCONNECTED"} -> s
      [] s.apps[p].state = "CONNECTING" -> UserDisconnectInConnectingState(s, p)
      [] s.apps[p].state = "CONNECTED" -> UserDisconnectInConnectedState(s, p)
      [] s.apps[p].state = "DISCONNECTING" -> UserDisconnectInDisconnectingState(s, p)

\* Mutant of Replay: what was kept stays kept.
ReplayKeeps(s, p) == s

\* The operation kept for later is carried out now.
Replay(s, p) ==
    CASE s.apps[p].next = "CONNECT" -> UserConnect(ClearLinkOper(s, p), p)
      [] s.apps[p].next = "DISCONNECT" -> UserDisconnect(ClearLinkOper(s, p), p)
      [] OTHER -> s

LinkConnectedInIdleState(s, p) == ClearLinkOper(s, p)
LinkConnectedInConnectingState(s, p) == Replay(SetLinkState(s, p, "CONNECTED"), p)
LinkConnectedInDisconnectingState(s, p) ==
    SetLinkState(ClearLinkOper(s, p), p, "DISCONNECTED")

LinkConnected(s, p) ==
    CASE s.apps[p].state = "IDLE" -> LinkConnectedInIdleState(s, p)
      [] s.apps[p].state = "CONNECTING" -> LinkConnectedInConnectingState(s, p)
      [] s.apps[p].state = "DISCONNECTING" -> LinkConnectedInDisconnectingState(s, p)
      [] OTHER -> Replay(s, p)

LinkDisconnectedInIdleState(s, p) == Replay(s, p)
LinkDisconnectedInConnectedState(s, p) == Replay(SetLinkState(s, p, "DISCONNECTED"), p)

\* CONNECTING, CONNECTED, DISCONNECTING and DISCONNECTED all end in DISCONNECTED.
LinkDisconnected(s, p) ==
    IF s.apps[p].state = "IDLE" THEN LinkDisconnectedInIdleState(s, p)
    ELSE LinkDisconnectedInConnectedState(s, p)

LinkChange(s, p, up) == IF up THEN LinkConnected(s, p) ELSE LinkDisconnected(s, p)

\* SsapTriggerLinkStateMachineChange: the applications of the address, in the order of
\* their ids; after[k] is the stack when those below k have been called.
TriggerLinkStateMachineChange(s, a, up) ==
    LET after[k \in 0 .. MaxApp] ==
            IF k = 0 THEN s
            ELSE IF k - 1 \in AppsOf(s, a) THEN LinkChange(after[k - 1], k - 1, up)
            ELSE after[k - 1]
    IN  after[MaxApp]

-----------------------------------------------------------------------------
(* Switching off: every application goes, and the connections first.       *)

Unused(s, p) == s.apps[p].state \in {"IDLE", "DISCONNECTED"}
Registered(s) == {p \in AppIds : s.apps[p] # NoApp}
Freed(s, ids) == [s EXCEPT !.apps = [p \in AppIds |-> IF p \in ids THEN NoApp ELSE @[p]]]

\* SsapcAppNotifyClientCleanUp: goes through the applications up to one in use.
NotifyClientCleanUp(s) ==
    LET inUse == {p \in Registered(s) : ~Unused(s, p)}
        gone == {p \in Registered(s) : \A q \in inUse : p < q}
    IN  IF ~s.cleaning THEN s
        ELSE [Freed(s, gone) EXCEPT !.cleaning = inUse # {}]

\* The requests to CM for these applications, in the order of their ids.
Removes(s, ids) ==
    LET upTo[k \in 0 .. MaxApp] ==
            IF k = 0 THEN <<>>
            ELSE IF k - 1 \in ids
                 THEN Append(upTo[k - 1], [op |-> "REMOVE", addr |-> s.apps[k - 1].addr])
            ELSE upTo[k - 1]
    IN  upTo[MaxApp]

\* SsapcClientCleanApp, SsapRemoveLink. A request for every application in use, even if
\* they share the address; what they kept for later is dropped.
ClientCleanApp(s) ==
    LET inUse == {p \in Registered(s) : ~Unused(s, p)}
    IN  [s EXCEPT !.apps = [p \in AppIds |-> IF p \in inUse THEN [s.apps[p] EXCEPT !.next = "NONE"]
                                                           ELSE NoApp],
                  !.cleaning = inUse # {},
                  !.out = IF s.bad = "POST" THEN @ ELSE @ \o Removes(s, inUse)]

\* SSAP_CMLogicLinkCbk: CM reports that the address is connected or not.
LogicLinkCbk(s, a, up) ==
    NotifyClientCleanUp(TriggerLinkStateMachineChange(RecordLinkStateFromCm(s, a, up), a, up))

-----------------------------------------------------------------------------
(* The calls of the services.                                              *)

\* SsapClientConnect, SsapClientDisconnect: not while SSAP is being switched off.
ClientConnect(s, p) ==
    IF s.apps[p] = NoApp \/ s.cleaning THEN s
    ELSE UserConnect([s EXCEPT !.apps[p].want = "CONNECT"], p)

ClientDisconnect(s, p) ==
    IF s.apps[p] = NoApp \/ s.cleaning THEN s
    ELSE UserDisconnect([s EXCEPT !.apps[p].want = "DISCONNECT"], p)

\* GetAppId: the first free id; SsapcAppDeregister.
AppRegister(s, a) ==
    LET free == AppIds \ Registered(s)
        id == CHOOSE p \in free : \A q \in free : p <= q
    IN  IF free = {} THEN s
        ELSE [s EXCEPT !.apps[id] =
                 [addr |-> a, state |-> "IDLE", next |-> "NONE", want |-> "NONE"]]

AppDeregister(s, p) == Freed(s, {p})

-----------------------------------------------------------------------------
(* CM, as far as SSAP sees it (CmConnect is the whole of it).              *)

\* CM_DirectConnectAddInner: ignored when the link is connected already or when too
\* many addresses are waited for; a failure is reported. A second request for the address
\* is answered with CONNECTING, which makes SSAP look at its clean-up only.
CmAdd(s, a) ==
    CASE s.cm[a].link = "CONNECTED" \/ s.bad = "FULL" -> s
      [] s.cm[a].link # "CONNECTED" /\ s.bad = "ADD" ->
             LogicLinkCbk([s EXCEPT !.cm[a].waits = FALSE], a, FALSE)
      [] OTHER -> IF s.cm[a].waits THEN NotifyClientCleanUp(s) ELSE [s EXCEPT !.cm[a].waits = TRUE]

\* CM_DirectConnectRmvInner: releases the link, or gives up connecting. A release that
\* fails is reported twice. With neither, SSAP hears DISCONNECTED all the same, unless
\* another module waits for the address.
CmRemove(s, a, othersWait) ==
    CASE s.cm[a].link = "CONNECTED" /\ s.bad = "RELEASE" ->
             LogicLinkCbk(LogicLinkCbk(s, a, FALSE), a, FALSE)
      [] s.cm[a].link = "CONNECTED" /\ s.bad # "RELEASE" ->
             [s EXCEPT !.cm[a].link = "DISCONNECTING"]
      [] s.cm[a].link = "DISCONNECTING" -> NotifyClientCleanUp(s)
      [] s.cm[a].link = "NONE" /\ othersWait /\ ~s.cm[a].waits -> s
      [] OTHER -> LogicLinkCbk([s EXCEPT !.cm[a].waits = FALSE], a, FALSE)

\* CM_SleCreateConnectionProc: the connection is there; the modules hear of it when the
\* peer's version and features have been read (CM_SleSetDataLenProc).
CmUp(s, a) == [s EXCEPT !.cm[a] = [link |-> "CONNECTED", waits |-> FALSE, told |-> FALSE]]
CmReady(s, a) == LogicLinkCbk([s EXCEPT !.cm[a].told = TRUE], a, TRUE)

\* CM_SleDisconnectProc.
CmDown(s, a) ==
    LogicLinkCbk([s EXCEPT !.cm[a].link = "NONE", !.cm[a].told = FALSE], a, FALSE)

\* CM_DirectConnTimeoutCbkInner.
CmTimeout(s, a) == LogicLinkCbk([s EXCEPT !.cm[a].waits = FALSE], a, FALSE)

-----------------------------------------------------------------------------
(* Actions.                                                                *)

Init ==
    /\ ssap = [apps |-> [p \in AppIds |-> NoApp], links |-> [a \in Addr |-> "NONE"],
               cleaning |-> FALSE,
               cm |-> [a \in Addr |-> [link |-> "NONE", waits |-> FALSE, told |-> FALSE]]]
    /\ tasks = <<>> /\ conn = {} /\ reqs = 0 /\ air = 0 /\ faults = 0

Handle(s, t, othersWait) ==
    CASE t.op = "CONNECT" -> ClientConnect(s, t.app)
      [] t.op = "DISCONNECT" -> ClientDisconnect(s, t.app)
      [] t.op = "REGISTER" -> AppRegister(s, t.addr)
      [] t.op = "DEREGISTER" -> AppDeregister(s, t.app)
      [] t.op = "CLEAN" -> ClientCleanApp(s)
      [] t.op = "ADD" -> CmAdd(s, t.addr)
      [] t.op = "REMOVE" -> CmRemove(s, t.addr, othersWait)
      [] t.op = "UP" -> CmUp(s, t.addr)
      [] t.op = "READY" -> CmReady(s, t.addr)
      [] t.op = "DOWN" -> CmDown(s, t.addr)

Stack(bad) == [apps |-> ssap.apps, links |-> ssap.links, cleaning |-> ssap.cleaning,
               cm |-> ssap.cm, out |-> <<>>, bad |-> bad]

\* The stack is s now, with these tasks left before the ones s posts.
Becomes(s, left) ==
    /\ tasks' = left \o s.out
    /\ ssap' = [apps |-> s.apps, links |-> s.links, cleaning |-> s.cleaning, cm |-> s.cm]

\* A service posts a call; only ids that are registered pass NLSTK_SsapClient....
Call(t) ==
    /\ reqs < MaxReq /\ reqs' = reqs + 1
    /\ tasks' = Append(tasks, t)
    /\ UNCHANGED <<ssap, conn, air, faults>>

Connect(p) == ssap.apps[p] # NoApp /\ Call([op |-> "CONNECT", app |-> p])
Disconnect(p) == ssap.apps[p] # NoApp /\ Call([op |-> "DISCONNECT", app |-> p])
Deregister(p) == ssap.apps[p] # NoApp /\ Call([op |-> "DEREGISTER", app |-> p])
Register(a) == Call([op |-> "REGISTER", addr |-> a])
Clean == Call([op |-> "CLEAN"])

\* The schedule thread runs the oldest task. A failure is one that makes a difference.
RunTask ==
    /\ tasks # <<>>
    /\ UNCHANGED <<conn, reqs, air>>
    /\ \E bad \in {"NONE"} \cup (IF faults < MaxFault THEN Failures ELSE {}) :
          /\ faults' = faults + (IF bad = "NONE" THEN 0 ELSE 1)
          /\ \E othersWait \in IF Head(tasks).op = "REMOVE" THEN BOOLEAN ELSE {FALSE} :
                \E s \in {Handle(Stack(bad), Head(tasks), othersWait)} :
                    /\ bad # "NONE" => [s EXCEPT !.bad = "NONE"]
                                           # Handle(Stack("NONE"), Head(tasks), othersWait)
                    /\ Becomes(s, Tail(tasks))

\* The 10 s of a direct connection are over.
Timeout(a) ==
    /\ ssap.cm[a].waits
    /\ UNCHANGED <<conn, reqs, air, faults>>
    /\ Becomes(CmTimeout(Stack("NONE"), a), tasks)

\* Another module takes the address back.
OtherRemoves(a) ==
    /\ air < MaxAir /\ air' = air + 1
    /\ ssap.cm[a].link = "CONNECTED" \/ (ssap.cm[a].link = "NONE" /\ ssap.cm[a].waits)
    /\ Becomes(CmRemove(Stack("NONE"), a, TRUE), tasks)
    /\ UNCHANGED <<conn, reqs, faults>>

\* The controller connects, for SSAP, for another module or for the peer.
CtlConnect(a) ==
    /\ air < MaxAir /\ air' = air + 1
    /\ a \notin conn /\ conn' = conn \cup {a}
    /\ tasks' = Append(tasks, [op |-> "UP", addr |-> a])
    /\ UNCHANGED <<ssap, reqs, faults>>

\* The reads CM asked for are answered.
CtlRead(a) ==
    /\ a \in conn /\ ssap.cm[a].link # "NONE" /\ ~ssap.cm[a].told
    /\ \A op \in {"READY", "DOWN"} : ~Contains(tasks, [op |-> op, addr |-> a])
    /\ tasks' = Append(tasks, [op |-> "READY", addr |-> a])
    /\ UNCHANGED <<ssap, conn, reqs, air, faults>>

Gone(a) ==
    /\ a \in conn /\ conn' = conn \ {a}
    /\ tasks' = Append(tasks, [op |-> "DOWN", addr |-> a])
    /\ UNCHANGED <<ssap, reqs, faults>>

\* The controller has released the connection, or loses it.
CtlRelease(a) == ssap.cm[a].link = "DISCONNECTING" /\ Gone(a) /\ UNCHANGED air
CtlLose(a) == air < MaxAir /\ air' = air + 1 /\ Gone(a)

Next ==
    \/ \E p \in AppIds : Connect(p) \/ Disconnect(p) \/ Deregister(p)
    \/ \E a \in Addr : Register(a)
    \/ Clean
    \/ RunTask
    \/ \E a \in Addr : Timeout(a) \/ OtherRemoves(a)
    \/ \E a \in Addr : CtlConnect(a) \/ CtlRead(a) \/ CtlRelease(a) \/ CtlLose(a)

Spec == Init /\ [][Next]_vars

-----------------------------------------------------------------------------
(* Properties.                                                             *)

\* Every part of the stack keeps its type.
TypeOK ==
    /\ ssap.apps \in [AppIds -> RegParam \cup {NoApp}]
    /\ ssap.links \in [Addr -> LinkStates]
    /\ ssap.cleaning \in BOOLEAN /\ ssap.cm \in [Addr -> CmLink]
    /\ tasks \in Seq(Task) /\ conn \subseteq Addr
    /\ reqs \in 0 .. MaxReq /\ air \in 0 .. MaxAir /\ faults \in 0 .. MaxFault

\* An application that is connecting, connected or disconnecting is what the shared link
\* is, whatever the others on that address asked for meanwhile; and unless a call failed
\* SSAP's table agrees with what CM last reported (SsapcAppClientDisconnectCmLinkCheck,
\* SsapLinkHandleRecordLinkStateFromCm).
AppsMatchLink ==
    /\ \A p \in Registered(ssap) : ~Unused(ssap, p) => ssap.apps[p].state = ssap.links[ssap.apps[p].addr]
    /\ \A a \in Addr :
          /\ ssap.links[a] \in {"CONNECTED", "DISCONNECTING"} => ssap.cm[a].told
          /\ ssap.cm[a].told /\ ssap.cm[a].link = "CONNECTED" /\ faults = 0 =>
                 ssap.links[a] \in {"CONNECTED", "DISCONNECTING"}

Queued(op, a) == Contains(tasks, [op |-> op, addr |-> a])

\* CM is releasing the connection, or will.
Leaving(a) == Queued("REMOVE", a) \/ ssap.cm[a].link = "DISCONNECTING"

\* Nobody waits for an answer that does not come, unless a call failed: a link that is
\* being connected is in CM's hands or on its way there, one that is being disconnected is
\* being released; an operation is kept only while an answer is due that replays it; and
\* switching off waits for a connection that is leaving (SsapLinkHandleTryConnect,
\* SsapLinkHandleTryDisconnect, the replays of ssapc_app_link_sm.c,
\* SsapcAppNotifyClientCleanUp).
AnswerIsDue ==
    \/ faults # 0
    \/ /\ \A a \in Addr :
             /\ ssap.links[a] = "CONNECTING" =>
                    \/ Queued("ADD", a) \/ ssap.cm[a].waits
                    \/ ssap.cm[a].link # "NONE" /\ ~ssap.cm[a].told
             /\ ssap.links[a] = "DISCONNECTING" => Leaving(a)
       /\ \A p \in Registered(ssap) : ssap.apps[p].next # "NONE" =>
             ssap.links[ssap.apps[p].addr] \in {"CONNECTING", "DISCONNECTING"}
       /\ ssap.cleaning => \E a \in Addr : Leaving(a)

\* "a disconnect cancels the connect that was kept": an application is connected or
\* connecting, with no disconnect kept, only if that is what its service asked for last.
LastRequestWins ==
    \A p \in Registered(ssap) :
        /\ ssap.apps[p].state \in {"CONNECTING", "CONNECTED"} /\ ~ssap.cleaning
        /\ ssap.apps[p].next # "DISCONNECT"
        => ssap.apps[p].want = "CONNECT"
=============================================================================
