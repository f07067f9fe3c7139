--------------------------- MODULE SsapLinkProofs ---------------------------
(***************************************************************************)
(* The applications of SSAP: each is in the state of the link it shares,   *)
(* SSAP's table agrees with what CM reported, and whoever waits has an     *)
(* answer under way.                                                       *)
(*                                                                         *)
(* The invariant relates four things: the applications, the table of       *)
(* links, CM's links, and the work list.  The events of the controller in  *)
(* the work list are the steps of a history of its connections that starts *)
(* at what CM believes and ends at what is the case (Connected); with it   *)
(* an UP finds no link and a DOWN and a READY find one.                    *)
(***************************************************************************)
EXTENDS SsapLink, NaturalsInduction, WellFoundedInduction, SequenceTheorems,
        FiniteSetTheorems, TLAPS

\* The record of a task: the stack, what it posted and what fails in it.
StackRec == [apps : [AppIds -> RegParam \cup {NoApp}], links : [Addr -> LinkStates],
             cleaning : BOOLEAN, cm : [Addr -> CmLink], out : Seq(Task),
             bad : Failures \cup {"NONE"}]

InUse(s, p) == s.apps[p] # NoApp /\ ~Unused(s, p)

\* An application in use is in the state of its link.
AppsMatch(s) == \A p \in AppIds : InUse(s, p) => s.apps[p].state = s.links[s.apps[p].addr]

\* CM: no link is known to the modules before there is one, and CM no longer waits for
\* an address that is connected.
CmWell(m) ==
    \A a \in Addr : /\ m[a].link = "NONE" => ~m[a].told
                    /\ m[a].link = "CONNECTED" => ~m[a].waits

\* SSAP's table holds a connection only if CM reported it.
TableTold(s) == \A a \in Addr : s.links[a] \in {"CONNECTED", "DISCONNECTING"} => s.cm[a].told

ADD(a) == [op |-> "ADD", addr |-> a]
REMOVE(a) == [op |-> "REMOVE", addr |-> a]
UP(a) == [op |-> "UP", addr |-> a]
READY(a) == [op |-> "READY", addr |-> a]
DOWN(a) == [op |-> "DOWN", addr |-> a]

\* A read under way is of the link there is, which goes down only after it.
ReadsWell(m, q) ==
    \A a \in Addr : \A i \in 1 .. Len(q) : q[i] = READY(a) =>
        /\ m[a].link # "NONE" /\ ~m[a].told
        /\ \A j \in 1 .. Len(q) : q[j] = READY(a) => j = i
        /\ \A j \in 1 .. Len(q) : q[j] = DOWN(a) => i < j

\* What a task of the work list does to the connections.
Turns(t, before, after) ==
    /\ \A a \in Addr : t = UP(a) => a \notin before /\ after = before \cup {a}
    /\ \A a \in Addr : t = DOWN(a) => a \in before /\ after = before \ {a}
    /\ (\A a \in Addr : t # UP(a) /\ t # DOWN(a)) => after = before

\* h is the history of the connections along the work list q: from CM's links m to what
\* the controller has, c.
History(h, m, q, c) ==
    /\ h \in [0 .. Len(q) -> SUBSET Addr]
    /\ h[0] = {a \in Addr : m[a].link # "NONE"}
    /\ h[Len(q)] = c
    /\ \A i \in 1 .. Len(q) : Turns(q[i], h[i - 1], h[i])

Connected(m, q, c) == \E h \in [0 .. Len(q) -> SUBSET Addr] : History(h, m, q, c)

\* The part that holds whatever fails.
Safe(s, q, c) ==
    /\ AppsMatch(s) /\ CmWell(s.cm) /\ TableTold(s) /\ ReadsWell(s.cm, q) /\ Connected(s.cm, q, c)

-----------------------------------------------------------------------------
(* The part that holds until a call fails.                                 *)

\* The table of links has an entry for every peer.
Roomy == Cardinality(Addr) <= MaxLink

\* What CM reported is in the table.
TableTrue(s) ==
    \A a \in Addr : s.cm[a].told /\ s.cm[a].link = "CONNECTED" =>
        s.links[a] \in {"CONNECTED", "DISCONNECTING"}

LinksDue(s, q) ==
    \A a \in Addr :
        /\ s.links[a] = "CONNECTING" => \/ Contains(q, ADD(a)) \/ s.cm[a].waits
                                        \/ s.cm[a].link # "NONE" /\ ~s.cm[a].told
        /\ s.links[a] = "DISCONNECTING" =>
               Contains(q, REMOVE(a)) \/ s.cm[a].link = "DISCONNECTING"

KeptDue(s) ==
    \A p \in AppIds : s.apps[p] # NoApp /\ s.apps[p].next # "NONE" =>
        s.links[s.apps[p].addr] \in {"CONNECTING", "DISCONNECTING"}

\* The address is being released for good: no request to connect comes after.
LastRemove(q, a) ==
    \E i \in 1 .. Len(q) : q[i] = REMOVE(a) /\ \A j \in 1 .. Len(q) : q[j] = ADD(a) => j < i

Released(s, q, a) == s.cm[a].link = "DISCONNECTING" \/ LastRemove(q, a)

\* While SSAP is being switched off nothing is kept for later, every connection in use is
\* being released, and so is one that SSAP will hear of.
CleanDue(s, q) ==
    s.cleaning =>
        /\ \A p \in AppIds : s.apps[p] # NoApp => s.apps[p].next = "NONE"
        /\ \A p \in AppIds : InUse(s, p) => Released(s, q, s.apps[p].addr)
        /\ \E a \in Addr : s.links[a] # "NONE" /\ Released(s, q, a)

Due(s, q) == TableTrue(s) /\ LinksDue(s, q) /\ KeptDue(s) /\ CleanDue(s, q)

SInv ==
    /\ TypeOK
    /\ Safe(ssap, tasks, conn)
    /\ Roomy /\ faults = 0 => Due(ssap, tasks)

-----------------------------------------------------------------------------
(* Lists.                                                                  *)

LEMMA TailFacts ==
    ASSUME NEW S, NEW q \in Seq(S), q # <<>>
    PROVE  /\ Tail(q) \in Seq(S) /\ Len(Tail(q)) = Len(q) - 1
           /\ \A i \in 1 .. Len(q) - 1 : Tail(q)[i] = q[i + 1] /\ i + 1 \in 1 .. Len(q)
           /\ Len(q) \in Nat /\ Len(q) > 0 /\ Head(q) = q[1] /\ Head(q) \in S
           /\ 1 \in 1 .. Len(q)
  OBVIOUS

LEMMA ConcatFacts ==
    ASSUME NEW S, NEW q \in Seq(S), NEW o \in Seq(S)
    PROVE  /\ q \o o \in Seq(S) /\ Len(q \o o) = Len(q) + Len(o)
           /\ \A i \in 1 .. Len(q) : (q \o o)[i] = q[i] /\ i \in 1 .. Len(q \o o)
           /\ \A i \in 1 .. Len(o) : (q \o o)[Len(q) + i] = o[i]
           /\ Len(q) \in Nat /\ Len(o) \in Nat
  OBVIOUS

\* An element of a concatenation is one of the two lists.
LEMMA ConcatFrom ==
    ASSUME NEW S, NEW q \in Seq(S), NEW o \in Seq(S), NEW i \in 1 .. Len(q \o o)
    PROVE  \/ i \in 1 .. Len(q) /\ (q \o o)[i] = q[i]
           \/ \E k \in 1 .. Len(o) : i = Len(q) + k /\ (q \o o)[i] = o[k]
  <1>1. Len(q) \in Nat /\ Len(o) \in Nat /\ i \in 1 .. Len(q) + Len(o)
    BY ConcatFacts
  <1>2. CASE i <= Len(q)
    BY <1>1, <1>2, ConcatFacts
  <1>3. CASE i > Len(q)
    <2>1. PICK k \in 1 .. Len(o) : i = Len(q) + k
      <3>1. i - Len(q) \in 1 .. Len(o) /\ i = Len(q) + (i - Len(q))
        BY <1>1, <1>3
      <3> QED
        BY <3>1
    <2>2. (q \o o)[i] = o[k]
      BY <2>1, ConcatFacts
    <2> QED
      BY <2>1, <2>2
  <1> QED
    BY <1>1, <1>2, <1>3

LEMMA ContainsTail ==
    ASSUME NEW S, NEW q \in Seq(S), q # <<>>, NEW x, Contains(q, x), x # Head(q)
    PROVE  Contains(Tail(q), x)
  <1>1. PICK i \in 1 .. Len(q) : q[i] = x
    BY DEF Contains
  <1>2. Len(q) \in Nat /\ i # 1
    BY <1>1, TailFacts
  <1>3. PICK k \in 1 .. Len(q) - 1 : i = k + 1
    <2>1. i - 1 \in 1 .. Len(q) - 1 /\ i = (i - 1) + 1
      BY <1>2
    <2> QED
      BY <2>1
  <1>4. k \in 1 .. Len(Tail(q)) /\ Tail(q)[k] = x
    BY <1>1, <1>2, <1>3, TailFacts
  <1> QED
    BY <1>4 DEF Contains

LEMMA ContainsConcat ==
    ASSUME NEW S, NEW q \in Seq(S), NEW o \in Seq(S), NEW x, Contains(q, x) \/ Contains(o, x)
    PROVE  Contains(q \o o, x)
  <1>1. Len(q) \in Nat /\ Len(o) \in Nat
    OBVIOUS
  <1>2. CASE Contains(q, x)
    <2>1. PICK i \in 1 .. Len(q) : q[i] = x
      BY <1>2 DEF Contains
    <2>2. i \in 1 .. Len(q \o o) /\ (q \o o)[i] = x
      BY <2>1, ConcatFacts
    <2> QED
      BY <2>2 DEF Contains
  <1>3. CASE Contains(o, x)
    <2>1. PICK i \in 1 .. Len(o) : o[i] = x
      BY <1>3 DEF Contains
    <2>2. PICK k \in Nat : k = Len(q) + i
      BY <1>1
    <2>3. k \in 1 .. Len(q \o o) /\ (q \o o)[k] = x
      BY <2>1, <2>2, <1>1, ConcatFacts
    <2> QED
      BY <2>3 DEF Contains
  <1> QED
    BY <1>2, <1>3

LEMMA LastRemoveTail ==
    ASSUME NEW S, NEW q \in Seq(S), q # <<>>, NEW a, LastRemove(q, a)
    PROVE  \/ LastRemove(Tail(q), a)
           \/ Head(q) = REMOVE(a) /\ ~Contains(Tail(q), ADD(a))
  <1>1. PICK i \in 1 .. Len(q) : q[i] = REMOVE(a) /\ \A j \in 1 .. Len(q) : q[j] = ADD(a) => j < i
    BY DEF LastRemove
  <1>2. Len(q) \in Nat /\ Len(q) > 0
    BY TailFacts
  <1>3. CASE i = 1
    <2>1. Head(q) = REMOVE(a)
      BY <1>1, <1>3, TailFacts
    <2>2. ASSUME NEW k \in 1 .. Len(Tail(q)), Tail(q)[k] = ADD(a) PROVE FALSE
      <3>1. k \in 1 .. Len(q) - 1 /\ k + 1 \in 1 .. Len(q) /\ q[k + 1] = ADD(a)
        BY <2>2, TailFacts
      <3>2. k + 1 < 1
        BY <3>1, <1>1, <1>3
      <3> QED
        BY <3>1, <3>2, <1>2
    <2> QED
      BY <2>1, <2>2 DEF Contains
  <1>4. CASE i # 1
    <2>1. PICK k \in 1 .. Len(q) - 1 : i = k + 1
      <3>1. i - 1 \in 1 .. Len(q) - 1 /\ i = (i - 1) + 1
        BY <1>2, <1>4
      <3> QED
        BY <3>1
    <2>2. k \in 1 .. Len(Tail(q)) /\ Tail(q)[k] = REMOVE(a)
      BY <2>1, <1>1, TailFacts
    <2>3. ASSUME NEW j \in 1 .. Len(Tail(q)), Tail(q)[j] = ADD(a) PROVE j < k
      <3>1. j \in 1 .. Len(q) - 1 /\ j + 1 \in 1 .. Len(q) /\ q[j + 1] = ADD(a)
        BY <2>3, TailFacts
      <3>2. j + 1 < k + 1
        BY <3>1, <1>1, <2>1
      <3> QED
        BY <3>1, <3>2, <1>2, <2>1
    <2> QED
      BY <2>2, <2>3 DEF LastRemove
  <1> QED
    BY <1>3, <1>4

LEMMA LastRemoveConcat ==
    ASSUME NEW S, NEW q \in Seq(S), NEW o \in Seq(S), NEW a, ~Contains(o, ADD(a)),
           LastRemove(q, a) \/ Contains(o, REMOVE(a))
    PROVE  LastRemove(q \o o, a)
  <1>1. Len(q) \in Nat /\ Len(o) \in Nat
    OBVIOUS
  <1>2. ASSUME NEW j \in 1 .. Len(q \o o), (q \o o)[j] = ADD(a)
        PROVE  j \in 1 .. Len(q) /\ q[j] = ADD(a)
    <2>1. ~ \E k \in 1 .. Len(o) : o[k] = ADD(a)
      BY DEF Contains
    <2> QED
      BY <1>2, <2>1, ConcatFrom
  <1>3. CASE LastRemove(q, a)
    <2>1. PICK i \in 1 .. Len(q) : q[i] = REMOVE(a) /\ \A j \in 1 .. Len(q) : q[j] = ADD(a) => j < i
      BY <1>3 DEF LastRemove
    <2>2. i \in 1 .. Len(q \o o) /\ (q \o o)[i] = REMOVE(a)
      BY <2>1, ConcatFacts
    <2>3. \A j \in 1 .. Len(q \o o) : (q \o o)[j] = ADD(a) => j < i
      BY <1>2, <2>1
    <2> QED
      BY <2>2, <2>3 DEF LastRemove
  <1>4. CASE Contains(o, REMOVE(a))
    <2>1. PICK i \in 1 .. Len(o) : o[i] = REMOVE(a)
      BY <1>4 DEF Contains
    <2>2. PICK k \in Nat : k = Len(q) + i
      BY <1>1
    <2>3. k \in 1 .. Len(q \o o) /\ (q \o o)[k] = REMOVE(a)
      BY <2>1, <2>2, <1>1, ConcatFacts
    <2>4. \A j \in 1 .. Len(q \o o) : (q \o o)[j] = ADD(a) => j < k
      BY <1>2, <2>2, <2>1, <1>1
    <2> QED
      BY <2>3, <2>4 DEF LastRemove
  <1> QED
    BY <1>3, <1>4


-----------------------------------------------------------------------------
(* The events of the controller in the work list.                          *)

\* A task that is no event of the controller.
Quiet(x) == \A a \in Addr : x # UP(a) /\ x # DOWN(a) /\ x # READY(a)

\* The oldest task is gone and CM has changed: a read that is still under way is of a
\* link there is.
LEMMA ReadsTail ==
    ASSUME NEW S, NEW q \in Seq(S), q # <<>>, NEW m, NEW n, ReadsWell(m, q),
           \A a \in Addr : Contains(Tail(q), READY(a)) => n[a].link # "NONE" /\ ~n[a].told
    PROVE  ReadsWell(n, Tail(q))
  <1> SUFFICES ASSUME NEW a \in Addr, NEW i \in 1 .. Len(Tail(q)), Tail(q)[i] = READY(a)
               PROVE  /\ n[a].link # "NONE" /\ ~n[a].told
                      /\ \A j \in 1 .. Len(Tail(q)) : Tail(q)[j] = READY(a) => j = i
                      /\ \A j \in 1 .. Len(Tail(q)) : Tail(q)[j] = DOWN(a) => i < j
    BY DEF ReadsWell
  <1>0. Contains(Tail(q), READY(a)) /\ Len(q) \in Nat /\ Len(Tail(q)) = Len(q) - 1
    BY TailFacts DEF Contains
  <1>1. i + 1 \in 1 .. Len(q) /\ q[i + 1] = READY(a)
    BY <1>0, TailFacts
  <1>2. ASSUME NEW j \in 1 .. Len(Tail(q)), Tail(q)[j] = READY(a) PROVE j = i
    <2>1. j + 1 \in 1 .. Len(q) /\ q[j + 1] = READY(a)
      BY <1>0, <1>2, TailFacts
    <2>2. j + 1 = i + 1
      BY <1>1, <2>1 DEF ReadsWell
    <2> QED
      BY <2>2, <1>0
  <1>3. ASSUME NEW j \in 1 .. Len(Tail(q)), Tail(q)[j] = DOWN(a) PROVE i < j
    <2>1. j + 1 \in 1 .. Len(q) /\ q[j + 1] = DOWN(a)
      BY <1>0, <1>3, TailFacts
    <2>2. i + 1 < j + 1
      BY <1>1, <2>1 DEF ReadsWell
    <2> QED
      BY <2>2, <1>0
  <1> QED
    BY <1>0, <1>2, <1>3

\* Posting tasks that are no events disturbs no read.
LEMMA ReadsConcat ==
    ASSUME NEW S, NEW q \in Seq(S), NEW o \in Seq(S), NEW m, ReadsWell(m, q),
           \A k \in 1 .. Len(o) : Quiet(o[k])
    PROVE  ReadsWell(m, q \o o)
  <1> SUFFICES ASSUME NEW a \in Addr, NEW i \in 1 .. Len(q \o o), (q \o o)[i] = READY(a)
               PROVE  /\ m[a].link # "NONE" /\ ~m[a].told
                      /\ \A j \in 1 .. Len(q \o o) : (q \o o)[j] = READY(a) => j = i
                      /\ \A j \in 1 .. Len(q \o o) : (q \o o)[j] = DOWN(a) => i < j
    BY DEF ReadsWell
  <1>1. ASSUME NEW j \in 1 .. Len(q \o o), (q \o o)[j] = READY(a) \/ (q \o o)[j] = DOWN(a)
        PROVE  j \in 1 .. Len(q) /\ q[j] = (q \o o)[j]
    <2>1. \A k \in 1 .. Len(o) : o[k] # READY(a) /\ o[k] # DOWN(a)
      BY DEF Quiet
    <2> QED
      BY <1>1, <2>1, ConcatFrom
  <1>2. i \in 1 .. Len(q) /\ q[i] = READY(a)
    BY <1>1
  <1>3. /\ m[a].link # "NONE" /\ ~m[a].told
        /\ \A j \in 1 .. Len(q) : q[j] = READY(a) => j = i
        /\ \A j \in 1 .. Len(q) : q[j] = DOWN(a) => i < j
    BY <1>2 DEF ReadsWell
  <1> QED
    BY <1>1, <1>3

\* The history goes on from its second entry.
LEMMA ConnectedTail ==
    ASSUME NEW S, NEW q \in Seq(S), q # <<>>, NEW m, NEW n, NEW c, NEW h, History(h, m, q, c),
           {a \in Addr : n[a].link # "NONE"} = h[1]
    PROVE  Connected(n, Tail(q), c)
  <1>0. Len(q) \in Nat /\ Len(q) > 0 /\ Len(Tail(q)) = Len(q) - 1
    BY TailFacts
  <1>1. PICK k \in Nat : k = Len(q) - 1 /\ Len(q) = k + 1
    <2>1. Len(q) - 1 \in Nat /\ Len(q) = (Len(q) - 1) + 1
      BY <1>0
    <2> QED
      BY <2>1
  <1>h. /\ h \in [0 .. Len(q) -> SUBSET Addr] /\ h[Len(q)] = c
        /\ \A i \in 1 .. Len(q) : Turns(q[i], h[i - 1], h[i])
    BY DEF History
  <1> DEFINE g == [i \in 0 .. k |-> h[i + 1]]
  <1>2. g \in [0 .. k -> SUBSET Addr]
    BY <1>h, <1>1
  <1>3. g[0] = h[1] /\ g[k] = c
    BY <1>h, <1>1
  <1>4. ASSUME NEW i \in 1 .. k PROVE Turns(Tail(q)[i], g[i - 1], g[i])
    <2>1. Tail(q)[i] = q[i + 1] /\ i + 1 \in 1 .. Len(q)
      BY <1>0, <1>1, TailFacts
    <2>2. PICK j \in 1 .. Len(q) : j = i + 1
      BY <2>1
    <2>3. g[i - 1] = h[j - 1] /\ g[i] = h[j]
      <3>1. i - 1 \in 0 .. k /\ i \in 0 .. k /\ j - 1 = i /\ (i - 1) + 1 = i
        BY <1>1, <2>2
      <3> QED
        BY <3>1, <2>2
    <2>4. Turns(q[j], h[j - 1], h[j])
      BY <1>h
    <2> QED
      BY <2>1, <2>2, <2>3, <2>4
  <1>5. Len(Tail(q)) = k
    BY <1>0, <1>1
  <1> HIDE DEF g
  <1>6. History(g, n, Tail(q), c)
    BY <1>2, <1>3, <1>4, <1>5 DEF History
  <1> QED
    BY <1>6, <1>2, <1>5 DEF Connected

\* Posting one more task.
LEMMA ConnectedAppend ==
    ASSUME NEW S, NEW q \in Seq(S), NEW x \in S, NEW m, NEW c, NEW d \in SUBSET Addr,
           Connected(m, q, c), Turns(x, c, d)
    PROVE  Connected(m, Append(q, x), d)
  <1>0. Len(q) \in Nat /\ Len(Append(q, x)) = Len(q) + 1
    OBVIOUS
  <1>1. PICK k \in Nat : k = Len(q)
    BY <1>0
  <1>2. PICK h \in [0 .. Len(q) -> SUBSET Addr] : History(h, m, q, c)
    BY DEF Connected
  <1>h. /\ h \in [0 .. k -> SUBSET Addr] /\ h[k] = c
        /\ h[0] = {a \in Addr : m[a].link # "NONE"}
        /\ \A i \in 1 .. k : Turns(q[i], h[i - 1], h[i])
    BY <1>1, <1>2 DEF History
  <1> DEFINE g == [i \in 0 .. k + 1 |-> IF i <= k THEN h[i] ELSE d]
  <1>3. g \in [0 .. k + 1 -> SUBSET Addr]
    BY <1>h, <1>1
  <1>4. g[0] = h[0] /\ g[k + 1] = d
    BY <1>1
  <1>5. ASSUME NEW i \in 1 .. k + 1 PROVE Turns(Append(q, x)[i], g[i - 1], g[i])
    <2>1. CASE i <= k
      <3>1. i \in 1 .. k /\ i - 1 \in 0 .. k + 1 /\ i \in 0 .. k + 1 /\ i - 1 <= k
        BY <2>1
      <3>2. g[i - 1] = h[i - 1] /\ g[i] = h[i]
        BY <3>1, <2>1
      <3>3. Append(q, x)[i] = q[i]
        BY <3>1, <1>1
      <3> QED
        BY <3>1, <3>2, <3>3, <1>h
    <2>2. CASE i > k
      <3>1. i = k + 1 /\ i - 1 = k /\ k \in 0 .. k + 1
        BY <2>2
      <3>2. g[i - 1] = c /\ g[i] = d
        BY <3>1, <1>4, <1>h
      <3>3. Append(q, x)[i] = x
        BY <3>1, <1>1
      <3> QED
        BY <3>2, <3>3
    <2>3. i <= k \/ i > k
      OBVIOUS
    <2> QED
      BY <2>1, <2>2, <2>3
  <1>6. Len(Append(q, x)) = k + 1
    BY <1>0, <1>1
  <1> HIDE DEF g
  <1>7. History(g, m, Append(q, x), d)
    BY <1>3, <1>4, <1>5, <1>6, <1>h DEF History
  <1> QED
    BY <1>7, <1>3, <1>6 DEF Connected

\* Posting tasks that are no events keeps the history.
LEMMA ConnectedConcat ==
    ASSUME NEW S, NEW q \in Seq(S), NEW o \in Seq(S), NEW m, NEW c, Connected(m, q, c),
           \A k \in 1 .. Len(o) : Quiet(o[k])
    PROVE  Connected(m, q \o o, c)
  <1>0. Len(q) \in Nat /\ Len(o) \in Nat /\ Len(q \o o) = Len(q) + Len(o)
    BY ConcatFacts
  <1>q. \A j \in 1 .. Len(o) : Quiet(o[j])
    OBVIOUS
  <1>1. PICK k \in Nat : k = Len(q)
    BY <1>0
  <1>l. PICK l \in Nat : l = Len(o)
    BY <1>0
  <1>2. PICK h \in [0 .. Len(q) -> SUBSET Addr] : History(h, m, q, c)
    BY DEF Connected
  <1>h. /\ h \in [0 .. k -> SUBSET Addr] /\ h[k] = c
        /\ h[0] = {a \in Addr : m[a].link # "NONE"}
        /\ \A i \in 1 .. k : Turns(q[i], h[i - 1], h[i])
    BY <1>1, <1>2 DEF History
  <1>c. c \in SUBSET Addr
    BY <1>h, <1>1
  <1> DEFINE g == [i \in 0 .. k + l |-> IF i <= k THEN h[i] ELSE c]
  <1>3. g \in [0 .. k + l -> SUBSET Addr]
    BY <1>h, <1>1, <1>c
  <1>4. g[0] = h[0]
    BY <1>1, <1>l
  <1>e. g[k + l] = c
    <2>1. k + l \in 0 .. k + l
      OBVIOUS
    <2>2. CASE l = 0
      BY <2>1, <2>2, <1>h
    <2>3. CASE l # 0
      BY <2>1, <2>3
    <2> QED
      BY <2>2, <2>3
  <1>5. ASSUME NEW i \in 1 .. k + l PROVE Turns((q \o o)[i], g[i - 1], g[i])
    <2>1. CASE i <= k
      <3>1. i \in 1 .. k /\ i - 1 \in 0 .. k + l /\ i \in 0 .. k + l /\ i - 1 <= k
        BY <2>1
      <3>2. g[i - 1] = h[i - 1] /\ g[i] = h[i]
        BY <3>1, <2>1
      <3>3. (q \o o)[i] = q[i]
        BY <3>1, <1>1, ConcatFacts
      <3> QED
        BY <3>1, <3>2, <3>3, <1>h
    <2>2. CASE i > k
      <3>0. i - 1 \in 0 .. k + l /\ i \in 0 .. k + l /\ (i - 1 <= k => i - 1 = k)
        BY <2>2
      <3>2. g[i - 1] = c /\ g[i] = c
        BY <3>0, <2>2, <1>h
      <3>3. PICK j \in 1 .. Len(o) : (q \o o)[i] = o[j]
        <4>1. i \in 1 .. Len(q \o o) /\ i \notin 1 .. Len(q)
          BY <1>0, <1>1, <1>l, <2>2
        <4>2. \/ i \in 1 .. Len(q) /\ (q \o o)[i] = q[i]
              \/ \E j \in 1 .. Len(o) : i = Len(q) + j /\ (q \o o)[i] = o[j]
          <5> HIDE DEF g
          <5> QED
            BY <4>1, ConcatFrom
        <4> QED
          BY <4>1, <4>2, Zenon
      <3>4. Quiet(o[j])
        BY <1>q, Zenon
      <3> QED
        BY <3>2, <3>3, <3>4 DEF Turns, Quiet
    <2>3. i <= k \/ i > k
      OBVIOUS
    <2> QED
      BY <2>1, <2>2, <2>3
  <1>6. Len(q \o o) = k + l
    BY <1>0, <1>1, <1>l
  <1> HIDE DEF g
  <1>7. History(g, m, q \o o, c)
    BY <1>3, <1>4, <1>e, <1>5, <1>6, <1>h DEF History
  <1> QED
    BY <1>7, <1>3, <1>6 DEF Connected


-----------------------------------------------------------------------------
(* What the state machines do to one application.                          *)

LEMMA ParamFacts ==
    ASSUME NEW r \in RegParam
    PROVE  /\ r # NoApp /\ r.addr \in Addr /\ r.state \in AppStates /\ r.next \in Opers
           /\ r.want \in Opers
  <1>1. DOMAIN r = {"addr", "state", "next", "want"}
    BY DEF RegParam
  <1>2. DOMAIN NoApp = {"addr"}
    BY DEF NoApp
  <1>3. r # NoApp
    BY <1>1, <1>2
  <1> QED
    BY <1>3 DEF RegParam

\* The entry r with this state and this kept operation.
With(r, st, nx) == [addr |-> r.addr, state |-> st, next |-> nx, want |-> r.want]

\* t is s with the state and the kept operation of p, the entry of p's address in the
\* table of links, and what was posted.
Result(s, t, p, st, nx, lk, o) ==
    /\ t.apps = [s.apps EXCEPT ![p] = With(s.apps[p], st, nx)]
    /\ t.links = [s.links EXCEPT ![s.apps[p].addr] = lk]
    /\ t.cleaning = s.cleaning /\ t.cm = s.cm /\ t.bad = s.bad
    /\ t.out = o
    /\ t \in StackRec

LEMMA StackFacts ==
    ASSUME NEW s \in StackRec
    PROVE  /\ s.apps \in [AppIds -> RegParam \cup {NoApp}] /\ s.links \in [Addr -> LinkStates]
           /\ s.cleaning \in BOOLEAN /\ s.cm \in [Addr -> CmLink] /\ s.out \in Seq(Task)
           /\ s.bad \in Failures \cup {"NONE"}
  BY DEF StackRec

LEMMA NewApps ==
    ASSUME NEW s \in StackRec, NEW A \in [AppIds -> RegParam \cup {NoApp}]
    PROVE  LET t == [s EXCEPT !.apps = A]
           IN  /\ t \in StackRec /\ t.apps = A /\ t.links = s.links /\ t.cleaning = s.cleaning
               /\ t.cm = s.cm /\ t.out = s.out /\ t.bad = s.bad
  BY DEF StackRec

LEMMA NewLinks ==
    ASSUME NEW s \in StackRec, NEW L \in [Addr -> LinkStates]
    PROVE  LET t == [s EXCEPT !.links = L]
           IN  /\ t \in StackRec /\ t.links = L /\ t.apps = s.apps /\ t.cleaning = s.cleaning
               /\ t.cm = s.cm /\ t.out = s.out /\ t.bad = s.bad
  BY DEF StackRec

LEMMA NewOut ==
    ASSUME NEW s \in StackRec, NEW o \in Seq(Task)
    PROVE  LET t == [s EXCEPT !.out = o]
           IN  /\ t \in StackRec /\ t.out = o /\ t.apps = s.apps /\ t.links = s.links
               /\ t.cleaning = s.cleaning /\ t.cm = s.cm /\ t.bad = s.bad
  BY DEF StackRec

LEMMA NewCm ==
    ASSUME NEW s \in StackRec, NEW m \in [Addr -> CmLink]
    PROVE  LET t == [s EXCEPT !.cm = m]
           IN  /\ t \in StackRec /\ t.cm = m /\ t.apps = s.apps /\ t.links = s.links
               /\ t.cleaning = s.cleaning /\ t.out = s.out /\ t.bad = s.bad
  BY DEF StackRec

LEMMA NewEntry ==
    ASSUME NEW r \in RegParam, NEW st \in AppStates, NEW nx \in Opers
    PROVE  /\ With(r, st, nx) \in RegParam
           /\ r = With(r, r.state, r.next)
           /\ [r EXCEPT !.state = st] = With(r, st, r.next)
           /\ [r EXCEPT !.next = nx] = With(r, r.state, nx)
  <1>1. With(r, st, nx) \in RegParam
    BY ParamFacts DEF With, RegParam
  <1>2. r = With(r, r.state, r.next)
    BY DEF With, RegParam
  <1>3. [r EXCEPT !.state = st] = With(r, st, r.next)
    BY DEF With, RegParam
  <1>4. [r EXCEPT !.next = nx] = With(r, r.state, nx)
    BY DEF With, RegParam
  <1> QED
    BY <1>1, <1>2, <1>3, <1>4

LEMMA CacheIs ==
    ASSUME NEW s \in StackRec, NEW p \in AppIds, s.apps[p] \in RegParam, NEW x \in Opers
    PROVE  Result(s, CacheLinkOper(s, p, x), p, s.apps[p].state, x, s.links[s.apps[p].addr], s.out)
  <1> DEFINE A == [s.apps EXCEPT ![p] = With(s.apps[p], s.apps[p].state, x)]
  <1>0. /\ s.apps \in [AppIds -> RegParam \cup {NoApp}] /\ s.links \in [Addr -> LinkStates]
        /\ s.apps[p].state \in AppStates /\ s.apps[p].next \in Opers /\ s.apps[p].addr \in Addr
    BY StackFacts, ParamFacts
  <1>e. /\ With(s.apps[p], s.apps[p].state, x) \in RegParam
        /\ [s.apps[p] EXCEPT !.next = x] = With(s.apps[p], s.apps[p].state, x)
    <2>1. PICK r \in RegParam : r = s.apps[p]
      OBVIOUS
    <2>2. r.state \in AppStates /\ r.next \in Opers
      BY <1>0, <2>1
    <2>3. With(r, r.state, x) \in RegParam /\ [r EXCEPT !.next = x] = With(r, r.state, x)
      BY <2>2, NewEntry
    <2> QED
      BY <2>1, <2>3
  <1>1. A \in [AppIds -> RegParam \cup {NoApp}]
    BY <1>0, <1>e
  <1>2. CacheLinkOper(s, p, x) = [s EXCEPT !.apps = A]
    BY <1>e DEF CacheLinkOper
  <1>3. s.links = [s.links EXCEPT ![s.apps[p].addr] = s.links[s.apps[p].addr]]
    BY <1>0
  <1> HIDE DEF A
  <1>4. LET t == [s EXCEPT !.apps = A]
        IN  /\ t \in StackRec /\ t.apps = A /\ t.links = s.links /\ t.cleaning = s.cleaning
            /\ t.cm = s.cm /\ t.out = s.out /\ t.bad = s.bad
    BY <1>1, NewApps
  <1>5. PICK t : t = CacheLinkOper(s, p, x)
    OBVIOUS
  <1>6. /\ t \in StackRec /\ t.apps = A /\ t.links = s.links /\ t.cleaning = s.cleaning
        /\ t.cm = s.cm /\ t.out = s.out /\ t.bad = s.bad
    BY <1>2, <1>4, <1>5
  <1>7. Result(s, t, p, s.apps[p].state, x, s.links[s.apps[p].addr], s.out)
    BY <1>3, <1>6 DEF Result, A
  <1> QED
    BY <1>5, <1>7

LEMMA SetIs ==
    ASSUME NEW s \in StackRec, NEW p \in AppIds, s.apps[p] \in RegParam, NEW x \in AppStates
    PROVE  Result(s, SetLinkState(s, p, x), p, x, s.apps[p].next, s.links[s.apps[p].addr], s.out)
  <1> DEFINE A == [s.apps EXCEPT ![p] = With(s.apps[p], x, s.apps[p].next)]
  <1>0. /\ s.apps \in [AppIds -> RegParam \cup {NoApp}] /\ s.links \in [Addr -> LinkStates]
        /\ s.apps[p].next \in Opers /\ s.apps[p].addr \in Addr /\ s.apps[p].state \in AppStates
    BY StackFacts, ParamFacts
  <1>e. /\ With(s.apps[p], x, s.apps[p].next) \in RegParam
        /\ [s.apps[p] EXCEPT !.state = x] = With(s.apps[p], x, s.apps[p].next)
    <2>1. PICK r \in RegParam : r = s.apps[p]
      OBVIOUS
    <2>2. r.state \in AppStates /\ r.next \in Opers
      BY <1>0, <2>1
    <2>3. With(r, x, r.next) \in RegParam /\ [r EXCEPT !.state = x] = With(r, x, r.next)
      BY <2>2, NewEntry
    <2> QED
      BY <2>1, <2>3
  <1>1. A \in [AppIds -> RegParam \cup {NoApp}]
    BY <1>0, <1>e
  <1>2. SetLinkState(s, p, x) = [s EXCEPT !.apps = A]
    BY <1>e DEF SetLinkState
  <1>3. s.links = [s.links EXCEPT ![s.apps[p].addr] = s.links[s.apps[p].addr]]
    BY <1>0
  <1> HIDE DEF A
  <1>4. LET t == [s EXCEPT !.apps = A]
        IN  /\ t \in StackRec /\ t.apps = A /\ t.links = s.links /\ t.cleaning = s.cleaning
            /\ t.cm = s.cm /\ t.out = s.out /\ t.bad = s.bad
    BY <1>1, NewApps
  <1>5. PICK t : t = SetLinkState(s, p, x)
    OBVIOUS
  <1>6. /\ t \in StackRec /\ t.apps = A /\ t.links = s.links /\ t.cleaning = s.cleaning
        /\ t.cm = s.cm /\ t.out = s.out /\ t.bad = s.bad
    BY <1>2, <1>4, <1>5
  <1>7. Result(s, t, p, x, s.apps[p].next, s.links[s.apps[p].addr], s.out)
    BY <1>3, <1>6 DEF Result, A
  <1> QED
    BY <1>5, <1>7

LEMMA SameIs ==
    ASSUME NEW s \in StackRec, NEW p \in AppIds, s.apps[p] \in RegParam
    PROVE  Result(s, s, p, s.apps[p].state, s.apps[p].next, s.links[s.apps[p].addr], s.out)
  <1>0. /\ s.apps \in [AppIds -> RegParam \cup {NoApp}] /\ s.links \in [Addr -> LinkStates]
        /\ s.apps[p].next \in Opers /\ s.apps[p].addr \in Addr /\ s.apps[p].state \in AppStates
    BY StackFacts, ParamFacts
  <1>e. s.apps[p] = With(s.apps[p], s.apps[p].state, s.apps[p].next)
    BY NewEntry, <1>0
  <1>1. s.apps = [s.apps EXCEPT ![p] = With(s.apps[p], s.apps[p].state, s.apps[p].next)]
    BY <1>0, <1>e
  <1>3. s.links = [s.links EXCEPT ![s.apps[p].addr] = s.links[s.apps[p].addr]]
    BY <1>0
  <1> QED
    BY <1>1, <1>3 DEF Result

LEMMA ResultFacts ==
    ASSUME NEW s \in StackRec, NEW p \in AppIds, s.apps[p] \in RegParam,
           NEW t, NEW st, NEW nx, NEW lk, NEW o, Result(s, t, p, st, nx, lk, o)
    PROVE  /\ t \in StackRec /\ t.apps[p] = With(s.apps[p], st, nx)
           /\ t.apps[p].addr = s.apps[p].addr
           /\ t.apps[p].state = st /\ t.apps[p].next = nx /\ t.apps[p].want = s.apps[p].want
           /\ \A q \in AppIds : q # p => t.apps[q] = s.apps[q]
           /\ t.links[s.apps[p].addr] = lk
           /\ \A b \in Addr : b # s.apps[p].addr => t.links[b] = s.links[b]
           /\ t.cleaning = s.cleaning /\ t.cm = s.cm /\ t.bad = s.bad /\ t.out = o
           /\ s.apps[p].addr \in Addr
  <1>0. /\ s.apps \in [AppIds -> RegParam \cup {NoApp}] /\ s.links \in [Addr -> LinkStates]
        /\ s.apps[p].addr \in Addr
    BY StackFacts, ParamFacts
  <1>1. /\ t.apps = [s.apps EXCEPT ![p] = With(s.apps[p], st, nx)]
        /\ t.links = [s.links EXCEPT ![s.apps[p].addr] = lk] /\ t \in StackRec
        /\ t.cleaning = s.cleaning /\ t.cm = s.cm /\ t.bad = s.bad /\ t.out = o
    BY DEF Result
  <1>2. t.apps[p] = With(s.apps[p], st, nx) /\ \A q \in AppIds : q # p => t.apps[q] = s.apps[q]
    BY <1>0, <1>1
  <1>3. /\ t.apps[p].addr = s.apps[p].addr /\ t.apps[p].state = st /\ t.apps[p].next = nx
        /\ t.apps[p].want = s.apps[p].want
    BY <1>2 DEF With
  <1>4. t.links[s.apps[p].addr] = lk /\ \A b \in Addr : b # s.apps[p].addr => t.links[b] = s.links[b]
    BY <1>0, <1>1
  <1> QED
    BY <1>0, <1>1, <1>2, <1>3, <1>4

\* A result is an entry again.
LEMMA ResultParam ==
    ASSUME NEW s \in StackRec, NEW p \in AppIds, s.apps[p] \in RegParam,
           NEW t, NEW st, NEW nx, NEW lk, NEW o, Result(s, t, p, st, nx, lk, o)
    PROVE  t.apps[p] \in RegParam
  <1>1. t \in StackRec /\ t.apps[p] = With(s.apps[p], st, nx)
    BY ResultFacts
  <1>2. t.apps[p] \in RegParam \cup {NoApp}
    BY <1>1, StackFacts
  <1>3. DOMAIN t.apps[p] = {"addr", "state", "next", "want"}
    BY <1>1 DEF With
  <1>4. DOMAIN NoApp = {"addr"}
    BY DEF NoApp
  <1> QED
    BY <1>2, <1>3, <1>4

\* Two changes in a row.
LEMMA ResultChain ==
    ASSUME NEW s \in StackRec, NEW p \in AppIds, s.apps[p] \in RegParam,
           NEW t, NEW st, NEW nx, NEW lk, NEW o, Result(s, t, p, st, nx, lk, o),
           NEW u, NEW st2, NEW nx2, NEW lk2, NEW o2, Result(t, u, p, st2, nx2, lk2, o2)
    PROVE  Result(s, u, p, st2, nx2, lk2, o2)
  <1>0. /\ s.apps \in [AppIds -> RegParam \cup {NoApp}] /\ s.links \in [Addr -> LinkStates]
    BY StackFacts
  <1>1. /\ t.apps = [s.apps EXCEPT ![p] = With(s.apps[p], st, nx)]
        /\ t.links = [s.links EXCEPT ![s.apps[p].addr] = lk]
        /\ t.cleaning = s.cleaning /\ t.cm = s.cm /\ t.bad = s.bad
    BY DEF Result
  <1>a. t.apps[p] = With(s.apps[p], st, nx) /\ t.apps[p].addr = s.apps[p].addr
    BY <1>0, <1>1 DEF With
  <1>2. /\ u.apps = [t.apps EXCEPT ![p] = With(t.apps[p], st2, nx2)]
        /\ u.links = [t.links EXCEPT ![t.apps[p].addr] = lk2]
        /\ u.cleaning = t.cleaning /\ u.cm = t.cm /\ u.bad = t.bad
        /\ u.out = o2 /\ u \in StackRec
    BY DEF Result
  <1>3. With(t.apps[p], st2, nx2) = With(s.apps[p], st2, nx2)
    BY <1>a DEF With
  <1>4. u.apps = [s.apps EXCEPT ![p] = With(s.apps[p], st2, nx2)]
    BY <1>0, <1>1, <1>2, <1>3
  <1>5. u.links = [s.links EXCEPT ![s.apps[p].addr] = lk2]
    BY <1>0, <1>1, <1>2, <1>a
  <1> QED
    BY <1>1, <1>2, <1>4, <1>5 DEF Result


\* The outcomes of a connect by an application that is not connected.
IdleConnect(s, t, p) ==
    LET a == s.apps[p].addr
    IN  \/ /\ s.links[a] = "DISCONNECTING"
           /\ Result(s, t, p, s.apps[p].state, "CONNECT", "DISCONNECTING", s.out)
        \/ /\ s.links[a] = "NONE" /\ HasRoom(s) /\ s.bad # "POST"
           /\ Result(s, t, p, "CONNECTING", "NONE", "CONNECTING", Append(s.out, ADD(a)))
        \/ /\ s.links[a] = "NONE" /\ ~(HasRoom(s) /\ s.bad # "POST")
           /\ Result(s, t, p, "DISCONNECTED", "NONE", "NONE", s.out)
        \/ /\ s.links[a] \in {"CONNECTING", "CONNECTED"}
           /\ Result(s, t, p, s.links[a], "NONE", s.links[a], s.out)

\* The outcomes of a disconnect by an application that is connected.
Leave(s, t, p) ==
    LET a == s.apps[p].addr
    IN  \/ /\ DisconnectCmLinkCheck(s, p) /\ s.bad # "POST"
           /\ Result(s, t, p, "DISCONNECTING", "NONE", "DISCONNECTING", Append(s.out, REMOVE(a)))
        \/ /\ DisconnectCmLinkCheck(s, p) /\ s.bad = "POST"
           /\ Result(s, t, p, "DISCONNECTED", "NONE", "NONE", s.out)
        \/ /\ ~DisconnectCmLinkCheck(s, p)
           /\ Result(s, t, p, "DISCONNECTED", "NONE", "CONNECTED", s.out)

LEMMA TaskFacts ==
    ASSUME NEW a \in Addr
    PROVE  ADD(a) \in Task /\ REMOVE(a) \in Task /\ UP(a) \in Task /\ DOWN(a) \in Task
           /\ READY(a) \in Task
  BY DEF Task, ADD, REMOVE, UP, DOWN, READY

LEMMA AskIs ==
    ASSUME NEW s \in StackRec, NEW p \in AppIds, s.apps[p] \in RegParam,
           NEW lk \in LinkStates, NEW x \in Task
    PROVE  Result(s, Post([s EXCEPT !.links[s.apps[p].addr] = lk], x), p,
                  s.apps[p].state, s.apps[p].next, lk, Append(s.out, x))
  <1>0. /\ s.apps \in [AppIds -> RegParam \cup {NoApp}] /\ s.links \in [Addr -> LinkStates]
        /\ s.apps[p].next \in Opers /\ s.apps[p].addr \in Addr /\ s.apps[p].state \in AppStates
        /\ s.out \in Seq(Task)
    BY StackFacts, ParamFacts
  <1>1. PICK L : L = [s.links EXCEPT ![s.apps[p].addr] = lk]
    OBVIOUS
  <1>2. L \in [Addr -> LinkStates]
    BY <1>0, <1>1
  <1>3. PICK u : u = [s EXCEPT !.links = L]
    OBVIOUS
  <1>4. /\ u \in StackRec /\ u.links = L /\ u.apps = s.apps /\ u.cleaning = s.cleaning
        /\ u.cm = s.cm /\ u.out = s.out /\ u.bad = s.bad
    BY <1>2, <1>3, NewLinks
  <1>5. PICK o : o = Append(s.out, x)
    OBVIOUS
  <1>6. o \in Seq(Task)
    BY <1>5, <1>0
  <1>7. PICK t : t = [u EXCEPT !.out = o]
    OBVIOUS
  <1>8. /\ t \in StackRec /\ t.out = o /\ t.apps = u.apps /\ t.links = u.links
        /\ t.cleaning = u.cleaning /\ t.cm = u.cm /\ t.bad = u.bad
    BY <1>4, <1>6, <1>7, NewOut
  <1>9. Post([s EXCEPT !.links[s.apps[p].addr] = lk], x) = t
    BY <1>1, <1>3, <1>4, <1>5, <1>7 DEF Post
  <1>10. s.apps = [s.apps EXCEPT ![p] = With(s.apps[p], s.apps[p].state, s.apps[p].next)]
    BY SameIs DEF Result
  <1>11. Result(s, t, p, s.apps[p].state, s.apps[p].next, lk, o)
    BY <1>1, <1>4, <1>8, <1>10 DEF Result
  <1> QED
    BY <1>5, <1>9, <1>11

LEMMA DropIs ==
    ASSUME NEW s \in StackRec, NEW p \in AppIds, s.apps[p] \in RegParam, NEW lk \in LinkStates
    PROVE  Result(s, [s EXCEPT !.links[s.apps[p].addr] = lk], p,
                  s.apps[p].state, s.apps[p].next, lk, s.out)
  <1>0. /\ s.apps \in [AppIds -> RegParam \cup {NoApp}] /\ s.links \in [Addr -> LinkStates]
        /\ s.apps[p].next \in Opers /\ s.apps[p].addr \in Addr /\ s.apps[p].state \in AppStates
    BY StackFacts, ParamFacts
  <1>1. PICK L : L = [s.links EXCEPT ![s.apps[p].addr] = lk]
    OBVIOUS
  <1>2. L \in [Addr -> LinkStates]
    BY <1>0, <1>1
  <1>3. PICK u : u = [s EXCEPT !.links = L]
    OBVIOUS
  <1>4. /\ u \in StackRec /\ u.links = L /\ u.apps = s.apps /\ u.cleaning = s.cleaning
        /\ u.cm = s.cm /\ u.out = s.out /\ u.bad = s.bad
    BY <1>2, <1>3, NewLinks
  <1>9. [s EXCEPT !.links[s.apps[p].addr] = lk] = u
    BY <1>1, <1>3
  <1>10. s.apps = [s.apps EXCEPT ![p] = With(s.apps[p], s.apps[p].state, s.apps[p].next)]
    BY SameIs DEF Result
  <1>11. Result(s, u, p, s.apps[p].state, s.apps[p].next, lk, s.out)
    BY <1>1, <1>4, <1>10 DEF Result
  <1> QED
    BY <1>9, <1>11


LEMMA IdleConnectIs ==
    ASSUME NEW s \in StackRec, NEW p \in AppIds, s.apps[p] \in RegParam
    PROVE  IdleConnect(s, UserConnectInIdleState(s, p), p)
  <1>1. PICK a \in Addr : a = s.apps[p].addr
    BY ParamFacts
  <1>2. PICK u : u = ClearLinkOper(s, p)
    OBVIOUS
  <1>3. Result(s, u, p, s.apps[p].state, "NONE", s.links[a], s.out)
    <2>1. "NONE" \in Opers
      BY DEF Opers
    <2>2. Result(s, CacheLinkOper(s, p, "NONE"), p, s.apps[p].state, "NONE", s.links[s.apps[p].addr], s.out)
      BY <2>1, CacheIs
    <2> QED
      BY <2>2, <1>1, <1>2 DEF ClearLinkOper
  <1>4. /\ u \in StackRec /\ u.apps[p].addr = a /\ u.links[a] = s.links[a] /\ u.out = s.out
        /\ u.bad = s.bad /\ u.apps[p].state = s.apps[p].state /\ u.apps[p].next = "NONE"
        /\ \A b \in Addr : b # a => u.links[b] = s.links[b]
    BY <1>1, <1>3, ResultFacts
  <1>5. u.apps[p] \in RegParam
    BY <1>3, ResultParam
  <1>6. HasRoom(u) <=> HasRoom(s)
    <2>1. {b \in Addr : u.links[b] # "NONE"} = {b \in Addr : s.links[b] # "NONE"}
      BY <1>4
    <2> QED
      BY <2>1 DEF HasRoom
  <1>7. s.links[a] \in LinkStates
    BY StackFacts
  <1>8. PICK w : w = SsapLinkHandleUserConnect(u, a)
    OBVIOUS
  <1>9. UserConnectInIdleState(s, p) =
            CASE w.links[a] = "DISCONNECTING" -> CacheLinkOper(w, p, "CONNECT")
              [] w.links[a] = "NONE" -> SetLinkState(w, p, "DISCONNECTED")
              [] OTHER -> SetLinkState(w, p, w.links[a])
    BY <1>1, <1>2, <1>8 DEF UserConnectInIdleState
  <1>10. CASE s.links[a] = "NONE" /\ HasRoom(s) /\ s.bad # "POST"
    <2>1. w = Post([u EXCEPT !.links[u.apps[p].addr] = "CONNECTING"], ADD(a))
      BY <1>4, <1>6, <1>8, <1>10 DEF SsapLinkHandleUserConnect, ADD
    <2>2. "CONNECTING" \in LinkStates /\ ADD(a) \in Task
      BY TaskFacts DEF LinkStates
    <2>3. Result(u, w, p, u.apps[p].state, u.apps[p].next, "CONNECTING", Append(u.out, ADD(a)))
      BY <2>1, <2>2, <1>4, <1>5, AskIs
    <2>4. w \in StackRec /\ w.links[a] = "CONNECTING" /\ w.out = Append(s.out, ADD(a)) /\ w.apps[p].next = "NONE"
          /\ w.apps[p].addr = a
      <3>1. PICK o : o = Append(u.out, ADD(a))
        OBVIOUS
      <3>2. Result(u, w, p, u.apps[p].state, u.apps[p].next, "CONNECTING", o)
        BY <2>3, <3>1
      <3>3. /\ w \in StackRec /\ w.links[u.apps[p].addr] = "CONNECTING" /\ w.out = o
            /\ w.apps[p].next = u.apps[p].next /\ w.apps[p].addr = u.apps[p].addr
        BY <3>2, <1>4, <1>5, ResultFacts
      <3> QED
        BY <3>1, <3>3, <1>4
    <2>5. w.apps[p] \in RegParam
      BY <2>3, <1>4, <1>5, ResultParam
    <2>6. UserConnectInIdleState(s, p) = SetLinkState(w, p, "CONNECTING")
      BY <1>9, <2>4
    <2>7. "CONNECTING" \in AppStates
      BY DEF AppStates
    <2>8. Result(w, SetLinkState(w, p, "CONNECTING"), p, "CONNECTING", "NONE", "CONNECTING", Append(s.out, ADD(a)))
      BY <2>4, <2>5, <2>7, SetIs
    <2>9. Result(s, w, p, u.apps[p].state, u.apps[p].next, "CONNECTING", Append(u.out, ADD(a)))
      BY <1>3, <2>3, ResultChain
    <2>10. Result(s, SetLinkState(w, p, "CONNECTING"), p, "CONNECTING", "NONE", "CONNECTING", Append(s.out, ADD(a)))
      BY <2>8, <2>9, ResultChain
    <2> QED
      BY <2>6, <2>10, <1>10, <1>1 DEF IdleConnect
  <1>11. CASE ~(s.links[a] = "NONE" /\ HasRoom(s) /\ s.bad # "POST")
    <2>1. w = u
      BY <1>4, <1>6, <1>8, <1>11 DEF SsapLinkHandleUserConnect
    <2>2. CASE s.links[a] = "DISCONNECTING"
      <3>1. UserConnectInIdleState(s, p) = CacheLinkOper(u, p, "CONNECT") /\ "CONNECT" \in Opers
        BY <1>9, <2>1, <2>2, <1>4 DEF Opers
      <3>2. Result(u, CacheLinkOper(u, p, "CONNECT"), p, s.apps[p].state, "CONNECT", "DISCONNECTING", s.out)
        BY <3>1, <1>4, <1>5, <2>2, CacheIs
      <3>3. Result(s, CacheLinkOper(u, p, "CONNECT"), p, s.apps[p].state, "CONNECT", "DISCONNECTING", s.out)
        BY <3>2, <1>3, ResultChain
      <3> QED
        BY <3>1, <3>3, <2>2, <1>1 DEF IdleConnect
    <2>3. CASE s.links[a] = "NONE"
      <3>1. UserConnectInIdleState(s, p) = SetLinkState(u, p, "DISCONNECTED") /\ "DISCONNECTED" \in AppStates
        BY <1>9, <2>1, <2>3, <1>4 DEF AppStates
      <3>2. Result(u, SetLinkState(u, p, "DISCONNECTED"), p, "DISCONNECTED", "NONE", "NONE", s.out)
        BY <3>1, <1>4, <1>5, <2>3, SetIs
      <3>3. Result(s, SetLinkState(u, p, "DISCONNECTED"), p, "DISCONNECTED", "NONE", "NONE", s.out)
        BY <3>2, <1>3, ResultChain
      <3> QED
        BY <3>1, <3>3, <2>3, <1>1, <1>11 DEF IdleConnect
    <2>4. CASE s.links[a] \in {"CONNECTING", "CONNECTED"}
      <3>1. UserConnectInIdleState(s, p) = SetLinkState(u, p, s.links[a]) /\ s.links[a] \in AppStates
        BY <1>9, <2>1, <2>4, <1>4 DEF AppStates
      <3>2. Result(u, SetLinkState(u, p, s.links[a]), p, s.links[a], "NONE", s.links[a], s.out)
        BY <3>1, <1>4, <1>5, SetIs
      <3>3. Result(s, SetLinkState(u, p, s.links[a]), p, s.links[a], "NONE", s.links[a], s.out)
        BY <3>2, <1>3, ResultChain
      <3> QED
        BY <3>1, <3>3, <2>4, <1>1 DEF IdleConnect
    <2> QED
      BY <1>7, <2>2, <2>3, <2>4 DEF LinkStates
  <1> QED
    BY <1>10, <1>11

LEMMA LeaveIs ==
    ASSUME NEW s \in StackRec, NEW p \in AppIds, s.apps[p] \in RegParam,
           s.links[s.apps[p].addr] = "CONNECTED"
    PROVE  Leave(s, UserDisconnectInConnectedState(s, p), p)
  <1>1. PICK a \in Addr : a = s.apps[p].addr
    BY ParamFacts
  <1>2. PICK u : u = ClearLinkOper(s, p)
    OBVIOUS
  <1>3. Result(s, u, p, s.apps[p].state, "NONE", "CONNECTED", s.out)
    <2>1. "NONE" \in Opers
      BY DEF Opers
    <2>2. Result(s, CacheLinkOper(s, p, "NONE"), p, s.apps[p].state, "NONE", s.links[s.apps[p].addr], s.out)
      BY <2>1, CacheIs
    <2> QED
      BY <2>2, <1>1, <1>2 DEF ClearLinkOper
  <1>4. /\ u \in StackRec /\ u.apps[p].addr = a /\ u.links[a] = "CONNECTED" /\ u.out = s.out
        /\ u.bad = s.bad /\ u.apps[p].state = s.apps[p].state /\ u.apps[p].next = "NONE"
    BY <1>1, <1>3, ResultFacts
  <1>5. u.apps[p] \in RegParam
    BY <1>3, ResultParam
  <1>6. "DISCONNECTED" \in AppStates /\ "DISCONNECTING" \in AppStates /\ "NONE" \in LinkStates
        /\ "DISCONNECTING" \in LinkStates /\ REMOVE(a) \in Task
    BY TaskFacts DEF AppStates, LinkStates
  <1>8. PICK w : w = SsapLinkHandleUserDisconnect(u, a)
    OBVIOUS
  <1>9. UserDisconnectInConnectedState(s, p) =
            IF DisconnectCmLinkCheck(s, p)
            THEN SetLinkState(w, p, IF w.links[a] = "DISCONNECTING" THEN "DISCONNECTING" ELSE "DISCONNECTED")
            ELSE SetLinkState(u, p, "DISCONNECTED")
    BY <1>1, <1>2, <1>8 DEF UserDisconnectInConnectedState
  <1>10. CASE DisconnectCmLinkCheck(s, p) /\ s.bad # "POST"
    <2>1. w = Post([u EXCEPT !.links[u.apps[p].addr] = "DISCONNECTING"], REMOVE(a))
      BY <1>4, <1>8, <1>10 DEF SsapLinkHandleUserDisconnect, REMOVE
    <2>3. Result(u, w, p, u.apps[p].state, u.apps[p].next, "DISCONNECTING", Append(u.out, REMOVE(a)))
      BY <2>1, <1>6, <1>4, <1>5, AskIs
    <2>4. w \in StackRec /\ w.links[a] = "DISCONNECTING" /\ w.out = Append(s.out, REMOVE(a)) /\ w.apps[p].next = "NONE"
          /\ w.apps[p].addr = a
      <3>1. PICK o : o = Append(u.out, REMOVE(a))
        OBVIOUS
      <3>2. Result(u, w, p, u.apps[p].state, u.apps[p].next, "DISCONNECTING", o)
        BY <2>3, <3>1
      <3>3. /\ w \in StackRec /\ w.links[u.apps[p].addr] = "DISCONNECTING" /\ w.out = o
            /\ w.apps[p].next = u.apps[p].next /\ w.apps[p].addr = u.apps[p].addr
        BY <3>2, <1>4, <1>5, ResultFacts
      <3> QED
        BY <3>1, <3>3, <1>4
    <2>5. w.apps[p] \in RegParam
      BY <2>3, <1>4, <1>5, ResultParam
    <2>6. UserDisconnectInConnectedState(s, p) = SetLinkState(w, p, "DISCONNECTING")
      BY <1>9, <2>4, <1>10
    <2>8. Result(w, SetLinkState(w, p, "DISCONNECTING"), p, "DISCONNECTING", "NONE", "DISCONNECTING", Append(s.out, REMOVE(a)))
      BY <2>4, <2>5, <1>6, SetIs
    <2>9. Result(s, w, p, u.apps[p].state, u.apps[p].next, "DISCONNECTING", Append(u.out, REMOVE(a)))
      BY <1>3, <2>3, ResultChain
    <2>10. Result(s, SetLinkState(w, p, "DISCONNECTING"), p, "DISCONNECTING", "NONE", "DISCONNECTING", Append(s.out, REMOVE(a)))
      BY <2>8, <2>9, ResultChain
    <2> QED
      BY <2>6, <2>10, <1>10, <1>1 DEF Leave
  <1>11. CASE DisconnectCmLinkCheck(s, p) /\ s.bad = "POST"
    <2>1. w = [u EXCEPT !.links[u.apps[p].addr] = "NONE"]
      BY <1>4, <1>8, <1>11 DEF SsapLinkHandleUserDisconnect
    <2>3. Result(u, w, p, u.apps[p].state, u.apps[p].next, "NONE", u.out)
      BY <2>1, <1>6, <1>4, <1>5, DropIs
    <2>4. w \in StackRec /\ w.links[a] = "NONE" /\ w.out = s.out /\ w.apps[p].next = "NONE"
          /\ w.apps[p].addr = a
      BY <2>3, <1>4, <1>5, ResultFacts
    <2>5. w.apps[p] \in RegParam
      BY <2>3, <1>4, <1>5, ResultParam
    <2>6. UserDisconnectInConnectedState(s, p) = SetLinkState(w, p, "DISCONNECTED")
      BY <1>9, <2>4, <1>11
    <2>8. Result(w, SetLinkState(w, p, "DISCONNECTED"), p, "DISCONNECTED", "NONE", "NONE", s.out)
      BY <2>4, <2>5, <1>6, SetIs
    <2>9. Result(s, w, p, u.apps[p].state, u.apps[p].next, "NONE", u.out)
      BY <1>3, <2>3, ResultChain
    <2>10. Result(s, SetLinkState(w, p, "DISCONNECTED"), p, "DISCONNECTED", "NONE", "NONE", s.out)
      BY <2>8, <2>9, ResultChain
    <2> QED
      BY <2>6, <2>10, <1>11, <1>1 DEF Leave
  <1>12. CASE ~DisconnectCmLinkCheck(s, p)
    <2>1. UserDisconnectInConnectedState(s, p) = SetLinkState(u, p, "DISCONNECTED")
      BY <1>9, <1>12
    <2>2. Result(u, SetLinkState(u, p, "DISCONNECTED"), p, "DISCONNECTED", "NONE", "CONNECTED", s.out)
      BY <1>4, <1>5, <1>6, SetIs
    <2>3. Result(s, SetLinkState(u, p, "DISCONNECTED"), p, "DISCONNECTED", "NONE", "CONNECTED", s.out)
      BY <2>2, <1>3, ResultChain
    <2> QED
      BY <2>1, <2>3, <1>12, <1>1 DEF Leave
  <1> QED
    BY <1>10, <1>11, <1>12


LEMMA SameRoom ==
    ASSUME NEW s, NEW u, \A b \in Addr : u.links[b] = s.links[b]
    PROVE  HasRoom(u) <=> HasRoom(s)
  <1>1. {b \in Addr : u.links[b] # "NONE"} = {b \in Addr : s.links[b] # "NONE"}
    OBVIOUS
  <1> QED
    BY <1>1 DEF HasRoom

\* A change of p's own entry beforehand makes no difference to a connect.
LEMMA IdleConnectFrom ==
    ASSUME NEW s \in StackRec, NEW p \in AppIds, s.apps[p] \in RegParam,
           NEW u, NEW st, NEW nx, Result(s, u, p, st, nx, s.links[s.apps[p].addr], s.out),
           s.links[s.apps[p].addr] # "DISCONNECTING" \/ st = s.apps[p].state,
           NEW t, IdleConnect(u, t, p)
    PROVE  IdleConnect(s, t, p)
  <1>1. PICK a \in Addr : a = s.apps[p].addr
    BY ParamFacts
  <1>r. Result(s, u, p, st, nx, s.links[a], s.out)
    BY <1>1
  <1>2. /\ u.apps[p].addr = a /\ u.links[a] = s.links[a] /\ u.out = s.out /\ u.bad = s.bad
        /\ u.apps[p].state = st /\ \A b \in Addr : b # a => u.links[b] = s.links[b]
    BY <1>1, <1>r, ResultFacts
  <1>3. HasRoom(u) <=> HasRoom(s)
    BY <1>2, SameRoom
  <1>4. ASSUME NEW x, NEW y, NEW l, NEW o, Result(u, t, p, x, y, l, o)
        PROVE  Result(s, t, p, x, y, l, o)
    BY <1>r, <1>4, ResultChain
  <1>5. \/ /\ s.links[a] = "DISCONNECTING"
           /\ Result(u, t, p, st, "CONNECT", "DISCONNECTING", s.out)
        \/ /\ s.links[a] = "NONE" /\ HasRoom(s) /\ s.bad # "POST"
           /\ Result(u, t, p, "CONNECTING", "NONE", "CONNECTING", Append(s.out, ADD(a)))
        \/ /\ s.links[a] = "NONE" /\ ~(HasRoom(s) /\ s.bad # "POST")
           /\ Result(u, t, p, "DISCONNECTED", "NONE", "NONE", s.out)
        \/ /\ s.links[a] \in {"CONNECTING", "CONNECTED"}
           /\ Result(u, t, p, s.links[a], "NONE", s.links[a], s.out)
    BY <1>2, <1>3 DEF IdleConnect
  <1>6. \/ /\ s.links[a] = "DISCONNECTING"
           /\ Result(s, t, p, st, "CONNECT", "DISCONNECTING", s.out)
        \/ /\ s.links[a] = "NONE" /\ HasRoom(s) /\ s.bad # "POST"
           /\ Result(s, t, p, "CONNECTING", "NONE", "CONNECTING", Append(s.out, ADD(a)))
        \/ /\ s.links[a] = "NONE" /\ ~(HasRoom(s) /\ s.bad # "POST")
           /\ Result(s, t, p, "DISCONNECTED", "NONE", "NONE", s.out)
        \/ /\ s.links[a] \in {"CONNECTING", "CONNECTED"}
           /\ Result(s, t, p, s.links[a], "NONE", s.links[a], s.out)
    BY <1>4, <1>5
  <1> QED
    BY <1>6, <1>1 DEF IdleConnect

LEMMA LeaveFrom ==
    ASSUME NEW s \in StackRec, NEW p \in AppIds, s.apps[p] \in RegParam,
           NEW u, NEW st, NEW nx, Result(s, u, p, st, nx, s.links[s.apps[p].addr], s.out),
           NEW t, Leave(u, t, p)
    PROVE  Leave(s, t, p)
  <1>1. PICK a \in Addr : a = s.apps[p].addr
    BY ParamFacts
  <1>r. Result(s, u, p, st, nx, s.links[a], s.out)
    BY <1>1
  <1>2. /\ u.apps[p].addr = a /\ u.out = s.out /\ u.bad = s.bad
        /\ \A q \in AppIds : q # p => u.apps[q] = s.apps[q]
    BY <1>1, <1>r, ResultFacts
  <1>3. DisconnectCmLinkCheck(u, p) <=> DisconnectCmLinkCheck(s, p)
    <2>1. AppsOf(u, a) \ {p} = AppsOf(s, a) \ {p}
      BY <1>2 DEF AppsOf
    <2>2. \A q \in AppsOf(s, a) \ {p} : u.apps[q] = s.apps[q]
      BY <1>2 DEF AppsOf
    <2> QED
      BY <2>1, <2>2, <1>1, <1>2 DEF DisconnectCmLinkCheck
  <1>4. ASSUME NEW x, NEW y, NEW l, NEW o, Result(u, t, p, x, y, l, o)
        PROVE  Result(s, t, p, x, y, l, o)
    BY <1>r, <1>4, ResultChain
  <1>5. \/ /\ DisconnectCmLinkCheck(s, p) /\ s.bad # "POST"
           /\ Result(u, t, p, "DISCONNECTING", "NONE", "DISCONNECTING", Append(s.out, REMOVE(a)))
        \/ /\ DisconnectCmLinkCheck(s, p) /\ s.bad = "POST"
           /\ Result(u, t, p, "DISCONNECTED", "NONE", "NONE", s.out)
        \/ /\ ~DisconnectCmLinkCheck(s, p)
           /\ Result(u, t, p, "DISCONNECTED", "NONE", "CONNECTED", s.out)
    BY <1>2, <1>3 DEF Leave
  <1>6. \/ /\ DisconnectCmLinkCheck(s, p) /\ s.bad # "POST"
           /\ Result(s, t, p, "DISCONNECTING", "NONE", "DISCONNECTING", Append(s.out, REMOVE(a)))
        \/ /\ DisconnectCmLinkCheck(s, p) /\ s.bad = "POST"
           /\ Result(s, t, p, "DISCONNECTED", "NONE", "NONE", s.out)
        \/ /\ ~DisconnectCmLinkCheck(s, p)
           /\ Result(s, t, p, "DISCONNECTED", "NONE", "CONNECTED", s.out)
    BY <1>4, <1>5
  <1> QED
    BY <1>6, <1>1 DEF Leave

\* The outcomes of the calls of a service.
Connects(s, t, p) ==
    LET st == s.apps[p].state  l == s.links[s.apps[p].addr]
    IN  \/ st = "CONNECTING" /\ Result(s, t, p, st, "NONE", l, s.out)
        \/ st = "CONNECTED" /\ Result(s, t, p, st, s.apps[p].next, l, s.out)
        \/ st = "DISCONNECTING" /\ Result(s, t, p, st, "CONNECT", l, s.out)
        \/ st \in {"IDLE", "DISCONNECTED"} /\ IdleConnect(s, t, p)

Disconnects(s, t, p) ==
    LET st == s.apps[p].state  l == s.links[s.apps[p].addr]
    IN  \/ st \in {"IDLE", "DISCONNECTED"} /\ Result(s, t, p, st, s.apps[p].next, l, s.out)
        \/ st = "CONNECTING" /\ Result(s, t, p, st, "DISCONNECT", l, s.out)
        \/ st = "CONNECTED" /\ Leave(s, t, p)
        \/ st = "DISCONNECTING" /\ Result(s, t, p, st, "NONE", l, s.out)

LEMMA ConnectsIs ==
    ASSUME NEW s \in StackRec, NEW p \in AppIds, s.apps[p] \in RegParam
    PROVE  Connects(s, UserConnect(s, p), p)
  <1>1. s.apps[p].state \in AppStates
    BY ParamFacts
  <1>2. CASE s.apps[p].state = "CONNECTING"
    <2>1. UserConnect(s, p) = CacheLinkOper(s, p, "NONE") /\ "NONE" \in Opers
      BY <1>2 DEF UserConnect, UserConnectInConnectingState, ClearLinkOper, Opers
    <2>2. Result(s, CacheLinkOper(s, p, "NONE"), p, s.apps[p].state, "NONE", s.links[s.apps[p].addr], s.out)
      BY <2>1, CacheIs
    <2> QED
      BY <2>1, <2>2, <1>2 DEF Connects
  <1>3. CASE s.apps[p].state = "CONNECTED"
    <2>1. UserConnect(s, p) = s
      BY <1>3 DEF UserConnect
    <2> QED
      BY <2>1, <1>3, SameIs DEF Connects
  <1>4. CASE s.apps[p].state = "DISCONNECTING"
    <2>1. UserConnect(s, p) = CacheLinkOper(s, p, "CONNECT") /\ "CONNECT" \in Opers
      BY <1>4 DEF UserConnect, UserConnectInDisconnectingState, Opers
    <2>2. Result(s, CacheLinkOper(s, p, "CONNECT"), p, s.apps[p].state, "CONNECT", s.links[s.apps[p].addr], s.out)
      BY <2>1, CacheIs
    <2> QED
      BY <2>1, <2>2, <1>4 DEF Connects
  <1>5. CASE s.apps[p].state \in {"IDLE", "DISCONNECTED"}
    <2>1. UserConnect(s, p) = UserConnectInIdleState(s, p)
      BY <1>5 DEF UserConnect
    <2> QED
      BY <2>1, <1>5, IdleConnectIs DEF Connects
  <1> QED
    BY <1>1, <1>2, <1>3, <1>4, <1>5 DEF AppStates

LEMMA DisconnectsIs ==
    ASSUME NEW s \in StackRec, NEW p \in AppIds, s.apps[p] \in RegParam,
           s.apps[p].state = "CONNECTED" => s.links[s.apps[p].addr] = "CONNECTED"
    PROVE  Disconnects(s, UserDisconnect(s, p), p)
  <1>1. s.apps[p].state \in AppStates
    BY ParamFacts
  <1>2. CASE s.apps[p].state = "CONNECTING"
    <2>1. UserDisconnect(s, p) = CacheLinkOper(s, p, "DISCONNECT") /\ "DISCONNECT" \in Opers
      BY <1>2 DEF UserDisconnect, UserDisconnectInConnectingState, Opers
    <2>2. Result(s, CacheLinkOper(s, p, "DISCONNECT"), p, s.apps[p].state, "DISCONNECT", s.links[s.apps[p].addr], s.out)
      BY <2>1, CacheIs
    <2> QED
      BY <2>1, <2>2, <1>2 DEF Disconnects
  <1>3. CASE s.apps[p].state = "CONNECTED"
    <2>1. UserDisconnect(s, p) = UserDisconnectInConnectedState(s, p)
      BY <1>3 DEF UserDisconnect
    <2> QED
      BY <2>1, <1>3, LeaveIs DEF Disconnects
  <1>4. CASE s.apps[p].state = "DISCONNECTING"
    <2>1. UserDisconnect(s, p) = CacheLinkOper(s, p, "NONE") /\ "NONE" \in Opers
      BY <1>4 DEF UserDisconnect, UserDisconnectInDisconnectingState, ClearLinkOper, Opers
    <2>2. Result(s, CacheLinkOper(s, p, "NONE"), p, s.apps[p].state, "NONE", s.links[s.apps[p].addr], s.out)
      BY <2>1, CacheIs
    <2> QED
      BY <2>1, <2>2, <1>4 DEF Disconnects
  <1>5. CASE s.apps[p].state \in {"IDLE", "DISCONNECTED"}
    <2>1. UserDisconnect(s, p) = s
      BY <1>5 DEF UserDisconnect
    <2> QED
      BY <2>1, <1>5, SameIs DEF Disconnects
  <1> QED
    BY <1>1, <1>2, <1>3, <1>4, <1>5 DEF AppStates


\* The outcomes of a link that is up, for an application that is connecting or not in use.
Raises(s, t, p) ==
    LET st == s.apps[p].state  l == s.links[s.apps[p].addr]  nx == s.apps[p].next
    IN  \/ st = "IDLE" /\ Result(s, t, p, st, "NONE", l, s.out)
        \/ st = "DISCONNECTED" /\ nx = "CONNECT" /\ IdleConnect(s, t, p)
        \/ st = "DISCONNECTED" /\ nx # "CONNECT" /\ Result(s, t, p, st, "NONE", l, s.out)
        \/ st = "CONNECTING" /\ nx = "DISCONNECT" /\ Leave(s, t, p)
        \/ st = "CONNECTING" /\ nx # "DISCONNECT" /\ Result(s, t, p, "CONNECTED", "NONE", l, s.out)

\* The outcomes of a link that is gone.
Falls(s, t, p) ==
    LET st == s.apps[p].state  l == s.links[s.apps[p].addr]  nx == s.apps[p].next
    IN  \/ nx = "CONNECT" /\ IdleConnect(s, t, p)
        \/ /\ nx # "CONNECT"
           /\ Result(s, t, p, IF st = "IDLE" THEN "IDLE" ELSE "DISCONNECTED", "NONE", l, s.out)

LEMMA ClearIs ==
    ASSUME NEW s \in StackRec, NEW p \in AppIds, s.apps[p] \in RegParam
    PROVE  /\ Result(s, ClearLinkOper(s, p), p, s.apps[p].state, "NONE", s.links[s.apps[p].addr], s.out)
           /\ ClearLinkOper(s, p) \in StackRec /\ ClearLinkOper(s, p).apps[p] \in RegParam
           /\ ClearLinkOper(s, p).apps[p].state = s.apps[p].state
           /\ ClearLinkOper(s, p).apps[p].next = "NONE"
           /\ ClearLinkOper(s, p).apps[p].addr = s.apps[p].addr
           /\ ClearLinkOper(s, p).links = s.links /\ ClearLinkOper(s, p).out = s.out
  <1>1. PICK u : u = ClearLinkOper(s, p)
    OBVIOUS
  <1>2. Result(s, u, p, s.apps[p].state, "NONE", s.links[s.apps[p].addr], s.out)
    <2>1. "NONE" \in Opers
      BY DEF Opers
    <2>2. Result(s, CacheLinkOper(s, p, "NONE"), p, s.apps[p].state, "NONE", s.links[s.apps[p].addr], s.out)
      BY <2>1, CacheIs
    <2> QED
      BY <2>2, <1>1 DEF ClearLinkOper
  <1>3. /\ u \in StackRec /\ u.apps[p].state = s.apps[p].state /\ u.apps[p].next = "NONE"
        /\ u.apps[p].addr = s.apps[p].addr /\ u.out = s.out
    BY <1>2, ResultFacts
  <1>4. u.apps[p] \in RegParam
    BY <1>2, ResultParam
  <1>5. u.links = s.links
    BY <1>1, StackFacts DEF ClearLinkOper, CacheLinkOper
  <1> QED
    BY <1>1, <1>2, <1>3, <1>4, <1>5

\* A kept operation of an application that is not in use.
LEMMA IdleReplay ==
    ASSUME NEW s \in StackRec, NEW p \in AppIds, s.apps[p] \in RegParam,
           s.apps[p].state \in {"IDLE", "DISCONNECTED"}
    PROVE  \/ s.apps[p].next = "CONNECT" /\ IdleConnect(s, Replay(s, p), p)
           \/ /\ s.apps[p].next # "CONNECT"
              /\ Result(s, Replay(s, p), p, s.apps[p].state, "NONE", s.links[s.apps[p].addr], s.out)
  <1>1. s.apps[p].next \in Opers
    BY ParamFacts
  <1>2. PICK u : u = ClearLinkOper(s, p)
    OBVIOUS
  <1>3. /\ Result(s, u, p, s.apps[p].state, "NONE", s.links[s.apps[p].addr], s.out)
        /\ u \in StackRec /\ u.apps[p] \in RegParam /\ u.apps[p].state = s.apps[p].state
        /\ u.apps[p].next = "NONE"
    BY <1>2, ClearIs
  <1>4. CASE s.apps[p].next = "CONNECT"
    <2>1. Replay(s, p) = UserConnect(u, p)
      BY <1>2, <1>4 DEF Replay
    <2>2. UserConnect(u, p) = UserConnectInIdleState(u, p)
      BY <1>3 DEF UserConnect
    <2>3. IdleConnect(u, UserConnectInIdleState(u, p), p)
      BY <1>3, IdleConnectIs
    <2>4. PICK t : t = UserConnectInIdleState(u, p)
      OBVIOUS
    <2>5. IdleConnect(s, t, p)
      BY <2>3, <2>4, <1>3, IdleConnectFrom
    <2> QED
      BY <2>1, <2>2, <2>4, <2>5, <1>4
  <1>5. CASE s.apps[p].next = "DISCONNECT"
    <2>1. Replay(s, p) = UserDisconnect(u, p)
      BY <1>2, <1>5 DEF Replay
    <2>2. UserDisconnect(u, p) = u
      BY <1>3 DEF UserDisconnect
    <2> QED
      BY <2>1, <2>2, <1>3, <1>5
  <1>6. CASE s.apps[p].next = "NONE"
    <2>1. Replay(s, p) = s
      BY <1>6 DEF Replay
    <2>2. Result(s, s, p, s.apps[p].state, s.apps[p].next, s.links[s.apps[p].addr], s.out)
      BY SameIs
    <2> QED
      BY <2>1, <2>2, <1>6
  <1> QED
    BY <1>1, <1>4, <1>5, <1>6 DEF Opers

LEMMA RaisesIs ==
    ASSUME NEW s \in StackRec, NEW p \in AppIds, s.apps[p] \in RegParam,
           \/ s.apps[p].state \in {"IDLE", "DISCONNECTED"}
           \/ s.apps[p].state = "CONNECTING" /\ s.links[s.apps[p].addr] = "CONNECTED"
    PROVE  Raises(s, LinkConnected(s, p), p)
  <1>1. CASE s.apps[p].state = "IDLE"
    <2>1. LinkConnected(s, p) = ClearLinkOper(s, p)
      BY <1>1 DEF LinkConnected, LinkConnectedInIdleState
    <2>2. Result(s, ClearLinkOper(s, p), p, s.apps[p].state, "NONE", s.links[s.apps[p].addr], s.out)
      BY ClearIs
    <2> QED
      BY <2>1, <2>2, <1>1 DEF Raises
  <1>2. CASE s.apps[p].state = "DISCONNECTED"
    <2>1. LinkConnected(s, p) = Replay(s, p)
      BY <1>2 DEF LinkConnected
    <2> QED
      BY <2>1, <1>2, IdleReplay DEF Raises
  <1>3. CASE s.apps[p].state = "CONNECTING" /\ s.links[s.apps[p].addr] = "CONNECTED"
    <2>0. s.apps[p].next \in Opers
      BY ParamFacts
    <2>1. PICK u : u = SetLinkState(s, p, "CONNECTED")
      OBVIOUS
    <2>2. LinkConnected(s, p) = Replay(u, p)
      BY <1>3, <2>1 DEF LinkConnected, LinkConnectedInConnectingState
    <2>3. Result(s, u, p, "CONNECTED", s.apps[p].next, s.links[s.apps[p].addr], s.out)
      <3>1. "CONNECTED" \in AppStates
        BY DEF AppStates
      <3> QED
        BY <3>1, <2>1, SetIs
    <2>4. /\ u \in StackRec /\ u.apps[p].state = "CONNECTED" /\ u.apps[p].next = s.apps[p].next
          /\ u.apps[p].addr = s.apps[p].addr /\ u.links[s.apps[p].addr] = "CONNECTED" /\ u.out = s.out
      BY <2>3, <1>3, ResultFacts
    <2>5. u.apps[p] \in RegParam
      BY <2>3, ResultParam
    <2>6. PICK w : w = ClearLinkOper(u, p)
      OBVIOUS
    <2>7. /\ Result(u, w, p, "CONNECTED", "NONE", u.links[u.apps[p].addr], u.out)
          /\ w \in StackRec /\ w.apps[p] \in RegParam /\ w.apps[p].state = "CONNECTED"
          /\ w.apps[p].addr = s.apps[p].addr /\ w.links = u.links /\ w.out = s.out
          /\ w.apps[p].next = "NONE"
      BY <2>4, <2>5, <2>6, ClearIs
    <2>8. Result(s, w, p, "CONNECTED", "NONE", s.links[s.apps[p].addr], s.out)
      <3>1. Result(u, w, p, "CONNECTED", "NONE", s.links[s.apps[p].addr], s.out)
        BY <2>7, <2>4, <1>3
      <3> QED
        BY <2>3, <3>1, ResultChain
    <2>9. CASE s.apps[p].next = "NONE"
      <3>1. Replay(u, p) = u
        BY <2>4, <2>9 DEF Replay
      <3> QED
        BY <2>2, <2>3, <3>1, <2>9, <1>3 DEF Raises
    <2>10. CASE s.apps[p].next = "CONNECT"
      <3>1. Replay(u, p) = UserConnect(w, p)
        BY <2>4, <2>6, <2>10 DEF Replay
      <3>2. UserConnect(w, p) = w
        BY <2>7 DEF UserConnect
      <3> QED
        BY <2>2, <2>8, <3>1, <3>2, <2>10, <1>3 DEF Raises
    <2>11. CASE s.apps[p].next = "DISCONNECT"
      <3>1. Replay(u, p) = UserDisconnect(w, p)
        BY <2>4, <2>6, <2>11 DEF Replay
      <3>2. UserDisconnect(w, p) = UserDisconnectInConnectedState(w, p)
        BY <2>7 DEF UserDisconnect
      <3>3. PICK t : t = UserDisconnectInConnectedState(w, p)
        OBVIOUS
      <3>4. Leave(w, t, p)
        BY <3>3, <2>7, <2>4, LeaveIs
      <3>5. Leave(s, t, p)
        BY <3>4, <2>8, LeaveFrom
      <3> QED
        BY <2>2, <3>1, <3>2, <3>3, <3>5, <2>11, <1>3 DEF Raises
    <2> QED
      BY <2>0, <2>9, <2>10, <2>11 DEF Opers
  <1> QED
    BY <1>1, <1>2, <1>3

LEMMA FallsIs ==
    ASSUME NEW s \in StackRec, NEW p \in AppIds, s.apps[p] \in RegParam,
           s.links[s.apps[p].addr] # "DISCONNECTING"
    PROVE  Falls(s, LinkDisconnected(s, p), p)
  <1>1. CASE s.apps[p].state = "IDLE"
    <2>1. LinkDisconnected(s, p) = Replay(s, p)
      BY <1>1 DEF LinkDisconnected, LinkDisconnectedInIdleState
    <2> QED
      BY <2>1, <1>1, IdleReplay DEF Falls
  <1>2. CASE s.apps[p].state # "IDLE"
    <2>1. PICK u : u = SetLinkState(s, p, "DISCONNECTED")
      OBVIOUS
    <2>2. LinkDisconnected(s, p) = Replay(u, p)
      BY <1>2, <2>1 DEF LinkDisconnected, LinkDisconnectedInConnectedState
    <2>3. Result(s, u, p, "DISCONNECTED", s.apps[p].next, s.links[s.apps[p].addr], s.out)
      <3>1. "DISCONNECTED" \in AppStates
        BY DEF AppStates
      <3> QED
        BY <3>1, <2>1, SetIs
    <2>4. /\ u \in StackRec /\ u.apps[p].state = "DISCONNECTED" /\ u.apps[p].next = s.apps[p].next
          /\ u.apps[p].addr = s.apps[p].addr /\ u.links[s.apps[p].addr] = s.links[s.apps[p].addr]
          /\ u.out = s.out
      BY <2>3, ResultFacts
    <2>5. u.apps[p] \in RegParam
      BY <2>3, ResultParam
    <2>6. PICK t : t = Replay(u, p)
      OBVIOUS
    <2>7. \/ u.apps[p].next = "CONNECT" /\ IdleConnect(u, t, p)
          \/ /\ u.apps[p].next # "CONNECT"
             /\ Result(u, t, p, u.apps[p].state, "NONE", u.links[u.apps[p].addr], u.out)
      BY <2>4, <2>5, <2>6, IdleReplay
    <2>8. CASE s.apps[p].next = "CONNECT"
      <3>1. IdleConnect(u, t, p)
        BY <2>7, <2>8, <2>4
      <3>2. IdleConnect(s, t, p)
        BY <3>1, <2>3, IdleConnectFrom
      <3> QED
        BY <3>2, <2>8, <2>2, <2>6 DEF Falls
    <2>9. CASE s.apps[p].next # "CONNECT"
      <3>1. Result(u, t, p, "DISCONNECTED", "NONE", s.links[s.apps[p].addr], s.out)
        BY <2>7, <2>9, <2>4
      <3>2. Result(s, t, p, "DISCONNECTED", "NONE", s.links[s.apps[p].addr], s.out)
        BY <3>1, <2>3, ResultChain
      <3> QED
        BY <3>2, <2>9, <2>2, <2>6, <1>2 DEF Falls
    <2> QED
      BY <2>8, <2>9
  <1> QED
    BY <1>1, <1>2


-----------------------------------------------------------------------------
(* The loop over the applications of an address.                           *)

Posts(a) == {ADD(a), REMOVE(a)}

\* What is true when the loop starts.
LoopStart(s, a, up) ==
    /\ s \in StackRec /\ s.out \in Seq(Posts(a))
    /\ ~up => s.links[a] = "NONE"
    /\ up => /\ s.links[a] \in {"NONE", "CONNECTED"}
             /\ \A p \in AppsOf(s, a) : ~Unused(s, p) =>
                    s.apps[p].state = "CONNECTING" /\ s.links[a] = "CONNECTED"

\* Only the applications of the address, its entry and the posts have changed.
LoopFrame(s, t, a, k) ==
    /\ t \in StackRec /\ t.cleaning = s.cleaning /\ t.cm = s.cm /\ t.bad = s.bad
    /\ \A b \in Addr : b # a => t.links[b] = s.links[b]
    /\ \A p \in AppIds : p \notin AppsOf(s, a) \/ p >= k => t.apps[p] = s.apps[p]
    /\ \A p \in AppsOf(s, a) : t.apps[p] \in RegParam /\ t.apps[p].addr = a

\* The applications below k have been called.
LoopDone(s, t, a, k) ==
    \A p \in AppsOf(s, a) : p < k =>
        /\ ~Unused(t, p) => t.apps[p].state = t.links[a]
        /\ t.apps[p].next # "NONE" => t.links[a] \in {"CONNECTING", "DISCONNECTING"}

LoopOut(t, a) ==
    /\ t.out \in Seq(Posts(a))
    /\ t.links[a] = "CONNECTING" => Contains(t.out, ADD(a))
    /\ t.links[a] = "DISCONNECTING" => Contains(t.out, REMOVE(a))

LoopWay(s, t, a, k, up) ==
    /\ ~up => t.links[a] \in {"NONE", "CONNECTING"}
    /\ up => \A p \in AppsOf(s, a) : p >= k /\ ~Unused(t, p) =>
                 t.apps[p].state = "CONNECTING" /\ t.links[a] = "CONNECTED"
    /\ up /\ s.bad # "POST" /\ s.links[a] = "CONNECTED" =>
           t.links[a] \in {"CONNECTED", "DISCONNECTING"}

\* With nothing kept nobody does anything new.
LoopStill(s, t, a) ==
    (\A p \in AppsOf(s, a) : s.apps[p].next = "NONE") =>
        /\ t.out = s.out
        /\ \A p \in AppsOf(s, a) : t.apps[p].next = "NONE" /\ (Unused(s, p) => Unused(t, p))

Loop(s, t, a, k, up) ==
    /\ LoopFrame(s, t, a, k) /\ LoopDone(s, t, a, k) /\ LoopOut(t, a)
    /\ LoopWay(s, t, a, k, up) /\ LoopStill(s, t, a)

\* What one call may do to its application, to the link and to the posts.
Allowed(t, a, p, up, st, nx, lk, o) ==
    /\ st \notin {"IDLE", "DISCONNECTED"} => st = lk
    /\ nx # "NONE" => lk \in {"CONNECTING", "DISCONNECTING"}
    /\ ~up => lk \in {"NONE", "CONNECTING"}
    /\ t.apps[p].next = "NONE" => o = t.out /\ nx = "NONE"
           /\ (t.apps[p].state \in {"IDLE", "DISCONNECTED"} => st \in {"IDLE", "DISCONNECTED"})
    /\ \/ lk = t.links[a] /\ o = t.out
       \/ lk = "CONNECTING" /\ t.links[a] = "NONE" /\ o = Append(t.out, ADD(a))
       \/ /\ lk = "DISCONNECTING" /\ t.links[a] = "CONNECTED" /\ o = Append(t.out, REMOVE(a))
          /\ DisconnectCmLinkCheck(t, p)
       \/ /\ lk = "NONE" /\ t.links[a] = "CONNECTED" /\ o = t.out /\ t.bad = "POST"
          /\ DisconnectCmLinkCheck(t, p)

LEMMA LoopBegin ==
    ASSUME NEW s, NEW a \in Addr, NEW up \in BOOLEAN, LoopStart(s, a, up)
    PROVE  Loop(s, s, a, 0, up)
  <1>1. s \in StackRec
    BY DEF LoopStart
  <1>2. \A p \in AppIds : s.apps[p] \in RegParam \cup {NoApp}
    BY <1>1, StackFacts
  <1>3. LoopFrame(s, s, a, 0)
    BY <1>1, <1>2 DEF LoopFrame, AppsOf
  <1>4. LoopDone(s, s, a, 0)
    BY DEF LoopDone, AppsOf, AppIds
  <1>5. LoopOut(s, a)
    BY DEF LoopStart, LoopOut
  <1>6. LoopWay(s, s, a, 0, up)
    BY DEF LoopStart, LoopWay
  <1>7. LoopStill(s, s, a)
    BY DEF LoopStill
  <1> QED
    BY <1>3, <1>4, <1>5, <1>6, <1>7 DEF Loop

LEMMA LoopStep ==
    ASSUME NEW s, NEW a \in Addr, NEW up \in BOOLEAN, NEW t, NEW p \in AppIds,
           Loop(s, t, a, p, up), p \in AppsOf(s, a),
           NEW u, NEW st, NEW nx, NEW lk, NEW o, Result(t, u, p, st, nx, lk, o),
           Allowed(t, a, p, up, st, nx, lk, o)
    PROVE  Loop(s, u, a, p + 1, up)
  <1>1. /\ t \in StackRec /\ t.cleaning = s.cleaning /\ t.cm = s.cm /\ t.bad = s.bad
        /\ \A b \in Addr : b # a => t.links[b] = s.links[b]
        /\ \A q \in AppIds : q \notin AppsOf(s, a) \/ q >= p => t.apps[q] = s.apps[q]
        /\ \A q \in AppsOf(s, a) : t.apps[q] \in RegParam /\ t.apps[q].addr = a
    BY DEF Loop, LoopFrame
  <1>2. t.apps[p] \in RegParam /\ t.apps[p].addr = a
    BY <1>1
  <1>3. /\ u \in StackRec /\ u.apps[p].addr = a
        /\ u.apps[p].state = st /\ u.apps[p].next = nx
        /\ \A q \in AppIds : q # p => u.apps[q] = t.apps[q]
        /\ u.links[a] = lk
        /\ \A b \in Addr : b # a => u.links[b] = t.links[b]
        /\ u.cleaning = t.cleaning /\ u.cm = t.cm /\ u.bad = t.bad /\ u.out = o
    BY <1>1, <1>2, ResultFacts
  <1>4. u.apps[p] \in RegParam
    BY <1>1, <1>2, ResultParam
  <1>5. AppsOf(s, a) \subseteq AppIds /\ AppIds \subseteq Int
    BY DEF AppsOf, AppIds
  <1>6. LoopFrame(s, u, a, p + 1)
    <2>1. \A b \in Addr : b # a => u.links[b] = s.links[b]
      BY <1>1, <1>3
    <2>2. ASSUME NEW q \in AppIds, q \notin AppsOf(s, a) \/ q >= p + 1 PROVE u.apps[q] = s.apps[q]
      <3>1. q # p
        BY <2>2, <1>5
      <3>2. q \notin AppsOf(s, a) \/ q >= p
        BY <2>2, <1>5
      <3> QED
        BY <3>1, <3>2, <1>1, <1>3
    <2>3. ASSUME NEW q \in AppsOf(s, a) PROVE u.apps[q] \in RegParam /\ u.apps[q].addr = a
      BY <1>1, <1>3, <1>4, <1>5
    <2> QED
      BY <1>1, <1>3, <2>1, <2>2, <2>3 DEF LoopFrame
  <1>7. /\ st \notin {"IDLE", "DISCONNECTED"} => st = lk
        /\ nx # "NONE" => lk \in {"CONNECTING", "DISCONNECTING"}
        /\ ~up => lk \in {"NONE", "CONNECTING"}
        /\ t.apps[p].next = "NONE" => o = t.out /\ nx = "NONE"
               /\ (t.apps[p].state \in {"IDLE", "DISCONNECTED"} => st \in {"IDLE", "DISCONNECTED"})
    BY DEF Allowed
  <1>8. \/ lk = t.links[a] /\ o = t.out
        \/ lk = "CONNECTING" /\ t.links[a] = "NONE" /\ o = Append(t.out, ADD(a))
        \/ /\ lk = "DISCONNECTING" /\ t.links[a] = "CONNECTED" /\ o = Append(t.out, REMOVE(a))
           /\ DisconnectCmLinkCheck(t, p)
        \/ /\ lk = "NONE" /\ t.links[a] = "CONNECTED" /\ o = t.out /\ t.bad = "POST"
           /\ DisconnectCmLinkCheck(t, p)
    BY DEF Allowed
  <1>9. ASSUME NEW q \in AppsOf(s, a), q # p, DisconnectCmLinkCheck(t, p)
        PROVE  t.apps[q].state \notin {"CONNECTED", "CONNECTING"}
    <2>1. t.apps[q] # NoApp /\ t.apps[q].addr = a
      BY <1>1, ParamFacts
    <2>2. q \in AppsOf(t, t.apps[p].addr) \ {p}
      BY <2>1, <1>2, <1>5, <1>9 DEF AppsOf
    <2> QED
      BY <2>2, <1>9 DEF DisconnectCmLinkCheck
  <1>10. ASSUME NEW q \in AppsOf(s, a) PROVE t.apps[q].state \in AppStates
    BY <1>1, ParamFacts
  <1>11. LoopDone(s, u, a, p + 1)
    <2> SUFFICES ASSUME NEW q \in AppsOf(s, a), q < p + 1
                 PROVE  /\ ~Unused(u, q) => u.apps[q].state = lk
                        /\ u.apps[q].next # "NONE" => lk \in {"CONNECTING", "DISCONNECTING"}
      BY <1>3 DEF LoopDone
    <2>1. CASE q = p
      BY <2>1, <1>3, <1>7 DEF Unused
    <2>2. CASE q # p
      <3>1. q < p
        BY <2>2, <1>5
      <3>2. u.apps[q] = t.apps[q]
        BY <2>2, <1>3, <1>5
      <3>3. /\ ~Unused(t, q) => t.apps[q].state = t.links[a]
            /\ t.apps[q].next # "NONE" => t.links[a] \in {"CONNECTING", "DISCONNECTING"}
        BY <3>1 DEF Loop, LoopDone
      <3>4. Unused(u, q) <=> Unused(t, q)
        BY <3>2 DEF Unused
      <3>5. CASE lk = t.links[a]
        BY <3>2, <3>3, <3>4, <3>5
      <3>6. CASE t.links[a] = "NONE"
        <4>1. Unused(t, q)
          BY <3>3, <3>6, <1>10 DEF AppStates
        <4> QED
          BY <4>1, <3>2, <3>3, <3>4, <3>6
      <3>7. CASE t.links[a] = "CONNECTED" /\ DisconnectCmLinkCheck(t, p)
        <4>1. Unused(t, q)
          BY <3>3, <3>7, <1>9, <2>2
        <4> QED
          BY <4>1, <3>2, <3>3, <3>4, <3>7
      <3> QED
        BY <1>8, <3>5, <3>6, <3>7
    <2> QED
      BY <2>1, <2>2
  <1>12. LoopOut(u, a)
    <2>1. /\ t.out \in Seq(Posts(a))
          /\ t.links[a] = "CONNECTING" => Contains(t.out, ADD(a))
          /\ t.links[a] = "DISCONNECTING" => Contains(t.out, REMOVE(a))
      BY DEF Loop, LoopOut
    <2>2. CASE lk = t.links[a] /\ o = t.out
      BY <2>1, <2>2, <1>3 DEF LoopOut
    <2>3. CASE lk = "CONNECTING" /\ o = Append(t.out, ADD(a))
      <3>1. o \in Seq(Posts(a)) /\ o[Len(t.out) + 1] = ADD(a) /\ Len(t.out) + 1 \in 1 .. Len(o)
        BY <2>1, <2>3 DEF Posts
      <3>2. Contains(o, ADD(a))
        BY <3>1 DEF Contains
      <3> QED
        BY <3>1, <3>2, <2>3, <1>3 DEF LoopOut
    <2>4. CASE lk = "DISCONNECTING" /\ o = Append(t.out, REMOVE(a))
      <3>1. o \in Seq(Posts(a)) /\ o[Len(t.out) + 1] = REMOVE(a) /\ Len(t.out) + 1 \in 1 .. Len(o)
        BY <2>1, <2>4 DEF Posts
      <3>2. Contains(o, REMOVE(a))
        BY <3>1 DEF Contains
      <3> QED
        BY <3>1, <3>2, <2>4, <1>3 DEF LoopOut
    <2>5. CASE lk = "NONE" /\ o = t.out
      BY <2>1, <2>5, <1>3 DEF LoopOut
    <2> QED
      BY <1>8, <2>2, <2>3, <2>4, <2>5
  <1>13. LoopWay(s, u, a, p + 1, up)
    <2>1. /\ up => \A q \in AppsOf(s, a) : q >= p /\ ~Unused(t, q) =>
                 t.apps[q].state = "CONNECTING" /\ t.links[a] = "CONNECTED"
          /\ up /\ s.bad # "POST" /\ s.links[a] = "CONNECTED" =>
                 t.links[a] \in {"CONNECTED", "DISCONNECTING"}
      BY DEF Loop, LoopWay
    <2>2. ASSUME up, NEW q \in AppsOf(s, a), q >= p + 1, ~Unused(u, q)
          PROVE  u.apps[q].state = "CONNECTING" /\ lk = "CONNECTED"
      <3>1. q # p /\ q >= p
        BY <2>2, <1>5
      <3>2. u.apps[q] = t.apps[q]
        BY <3>1, <1>3, <1>5
      <3>3. t.apps[q].state = "CONNECTING" /\ t.links[a] = "CONNECTED"
        BY <2>1, <2>2, <3>1, <3>2 DEF Unused
      <3>4. ~DisconnectCmLinkCheck(t, p)
        BY <3>1, <3>3, <1>9
      <3> QED
        BY <3>2, <3>3, <3>4, <1>8
    <2>3. ASSUME up, s.bad # "POST", s.links[a] = "CONNECTED"
          PROVE  lk \in {"CONNECTED", "DISCONNECTING"}
      BY <2>1, <2>3, <1>1, <1>8
    <2> QED
      BY <2>2, <2>3, <1>3, <1>7 DEF LoopWay
  <1>14. LoopStill(s, u, a)
    <2> SUFFICES ASSUME \A q \in AppsOf(s, a) : s.apps[q].next = "NONE"
                 PROVE  /\ u.out = s.out
                        /\ \A q \in AppsOf(s, a) : u.apps[q].next = "NONE" /\ (Unused(s, q) => Unused(u, q))
      BY DEF LoopStill
    <2>1. /\ t.out = s.out
          /\ \A q \in AppsOf(s, a) : t.apps[q].next = "NONE" /\ (Unused(s, q) => Unused(t, q))
      BY DEF Loop, LoopStill
    <2>2. o = t.out /\ nx = "NONE" /\ (Unused(t, p) => Unused(u, p))
      BY <2>1, <1>7, <1>3 DEF Unused
    <2>3. ASSUME NEW q \in AppsOf(s, a), q # p
          PROVE  u.apps[q].next = "NONE" /\ (Unused(s, q) => Unused(u, q))
      <3>1. u.apps[q] = t.apps[q]
        BY <2>3, <1>3, <1>5
      <3> QED
        BY <3>1, <2>1 DEF Unused
    <2> QED
      BY <2>1, <2>2, <2>3, <1>3
  <1> QED
    BY <1>6, <1>11, <1>12, <1>13, <1>14 DEF Loop


\* The step of an application that is not connected.
LEMMA IdleAllowed ==
    ASSUME NEW t \in StackRec, NEW p \in AppIds, t.apps[p] \in RegParam,
           NEW a \in Addr, t.apps[p].addr = a, NEW up \in BOOLEAN,
           ~up => t.links[a] \in {"NONE", "CONNECTING"},
           t.apps[p].state \in {"IDLE", "DISCONNECTED"} \/ t.links[a] # "DISCONNECTING",
           t.apps[p].next = "CONNECT", NEW u, IdleConnect(t, u, p)
    PROVE  \E st, nx, lk, o : Result(t, u, p, st, nx, lk, o) /\ Allowed(t, a, p, up, st, nx, lk, o)
  <1>1. CASE /\ t.links[a] = "DISCONNECTING"
             /\ Result(t, u, p, t.apps[p].state, "CONNECT", "DISCONNECTING", t.out)
    <2>1. Allowed(t, a, p, up, t.apps[p].state, "CONNECT", "DISCONNECTING", t.out)
      BY <1>1 DEF Allowed
    <2> QED
      BY <1>1, <2>1
  <1>2. CASE /\ t.links[a] = "NONE"
             /\ Result(t, u, p, "CONNECTING", "NONE", "CONNECTING", Append(t.out, ADD(a)))
    <2>1. Allowed(t, a, p, up, "CONNECTING", "NONE", "CONNECTING", Append(t.out, ADD(a)))
      BY <1>2 DEF Allowed
    <2> QED
      BY <1>2, <2>1
  <1>3. CASE /\ t.links[a] = "NONE"
             /\ Result(t, u, p, "DISCONNECTED", "NONE", "NONE", t.out)
    <2>1. Allowed(t, a, p, up, "DISCONNECTED", "NONE", "NONE", t.out)
      BY <1>3 DEF Allowed
    <2> QED
      BY <1>3, <2>1
  <1>4. CASE /\ t.links[a] \in {"CONNECTING", "CONNECTED"}
             /\ Result(t, u, p, t.links[a], "NONE", t.links[a], t.out)
    <2>1. Allowed(t, a, p, up, t.links[a], "NONE", t.links[a], t.out)
      BY <1>4 DEF Allowed
    <2> QED
      BY <1>4, <2>1
  <1> QED
    BY <1>1, <1>2, <1>3, <1>4 DEF IdleConnect

LEMMA LoopCall ==
    ASSUME NEW s, NEW a \in Addr, NEW up \in BOOLEAN, NEW t, NEW p \in AppIds,
           Loop(s, t, a, p, up), p \in AppsOf(s, a)
    PROVE  Loop(s, LinkChange(t, p, up), a, p + 1, up)
  <1>1. t \in StackRec /\ t.apps[p] \in RegParam /\ t.apps[p].addr = a
    BY DEF Loop, LoopFrame
  <1>2. p >= p
    BY DEF AppIds
  <1>3. /\ ~up => t.links[a] \in {"NONE", "CONNECTING"}
        /\ up /\ ~Unused(t, p) => t.apps[p].state = "CONNECTING" /\ t.links[a] = "CONNECTED"
    BY <1>2 DEF Loop, LoopWay
  <1>4. PICK u : u = LinkChange(t, p, up)
    OBVIOUS
  <1>5. \E st, nx, lk, o : Result(t, u, p, st, nx, lk, o) /\ Allowed(t, a, p, up, st, nx, lk, o)
    <2>1. CASE up
      <3>1. Raises(t, u, p)
        <4>1. \/ t.apps[p].state \in {"IDLE", "DISCONNECTED"}
              \/ t.apps[p].state = "CONNECTING" /\ t.links[t.apps[p].addr] = "CONNECTED"
          BY <1>1, <1>3, <2>1 DEF Unused
        <4>2. u = LinkConnected(t, p)
          BY <1>4, <2>1 DEF LinkChange
        <4> QED
          BY <1>1, <4>1, <4>2, RaisesIs
      <3>2. CASE t.apps[p].state \in {"IDLE", "DISCONNECTED"} /\ Result(t, u, p, t.apps[p].state, "NONE", t.links[a], t.out)
        <4>1. Allowed(t, a, p, up, t.apps[p].state, "NONE", t.links[a], t.out)
          BY <2>1, <3>2 DEF Allowed
        <4> QED
          BY <3>2, <4>1
      <3>3. CASE t.apps[p].state = "DISCONNECTED" /\ t.apps[p].next = "CONNECT" /\ IdleConnect(t, u, p)
        BY <1>1, <1>3, <3>3, IdleAllowed
      <3>4. CASE t.apps[p].state = "CONNECTING" /\ Result(t, u, p, "CONNECTED", "NONE", t.links[a], t.out)
        <4>1. t.links[a] = "CONNECTED"
          BY <1>3, <2>1, <3>4 DEF Unused
        <4>2. Allowed(t, a, p, up, "CONNECTED", "NONE", t.links[a], t.out)
          BY <4>1, <2>1, <3>4 DEF Allowed
        <4> QED
          BY <3>4, <4>2
      <3>5. CASE t.apps[p].state = "CONNECTING" /\ t.apps[p].next = "DISCONNECT" /\ Leave(t, u, p)
        <4>1. t.links[a] = "CONNECTED"
          BY <1>3, <2>1, <3>5 DEF Unused
        <4>2. CASE /\ DisconnectCmLinkCheck(t, p)
                   /\ Result(t, u, p, "DISCONNECTING", "NONE", "DISCONNECTING", Append(t.out, REMOVE(a)))
          <5>1. Allowed(t, a, p, up, "DISCONNECTING", "NONE", "DISCONNECTING", Append(t.out, REMOVE(a)))
            BY <4>1, <4>2, <2>1, <3>5 DEF Allowed
          <5> QED
            BY <4>2, <5>1
        <4>3. CASE /\ DisconnectCmLinkCheck(t, p) /\ t.bad = "POST"
                   /\ Result(t, u, p, "DISCONNECTED", "NONE", "NONE", t.out)
          <5>1. Allowed(t, a, p, up, "DISCONNECTED", "NONE", "NONE", t.out)
            BY <4>1, <4>3, <2>1, <3>5 DEF Allowed
          <5> QED
            BY <4>3, <5>1
        <4>4. CASE Result(t, u, p, "DISCONNECTED", "NONE", "CONNECTED", t.out)
          <5>1. Allowed(t, a, p, up, "DISCONNECTED", "NONE", "CONNECTED", t.out)
            BY <4>1, <4>4, <2>1, <3>5 DEF Allowed
          <5> QED
            BY <4>4, <5>1
        <4> QED
          BY <1>1, <3>5, <4>2, <4>3, <4>4 DEF Leave
      <3> QED
        BY <1>1, <3>1, <3>2, <3>3, <3>4, <3>5 DEF Raises
    <2>2. CASE ~up
      <3>1. Falls(t, u, p)
        <4>1. t.links[t.apps[p].addr] # "DISCONNECTING"
          BY <1>1, <1>3, <2>2
        <4>2. u = LinkDisconnected(t, p)
          BY <1>4, <2>2 DEF LinkChange
        <4> QED
          BY <1>1, <4>1, <4>2, FallsIs
      <3>2. CASE t.apps[p].next = "CONNECT" /\ IdleConnect(t, u, p)
        <4>1. t.links[a] # "DISCONNECTING"
          BY <1>3, <2>2
        <4> QED
          BY <1>1, <1>3, <3>2, <4>1, IdleAllowed
      <3>3. ASSUME NEW x \in {"IDLE", "DISCONNECTED"}, Result(t, u, p, x, "NONE", t.links[a], t.out)
            PROVE  \E st, nx, lk, o : Result(t, u, p, st, nx, lk, o) /\ Allowed(t, a, p, up, st, nx, lk, o)
        <4>1. Allowed(t, a, p, up, x, "NONE", t.links[a], t.out)
          BY <1>3, <2>2, <3>3 DEF Allowed
        <4> QED
          BY <3>3, <4>1
      <3>4. PICK x : x = IF t.apps[p].state = "IDLE" THEN "IDLE" ELSE "DISCONNECTED"
        OBVIOUS
      <3>5. x \in {"IDLE", "DISCONNECTED"}
        BY <3>4
      <3>6. CASE Result(t, u, p, x, "NONE", t.links[a], t.out)
        BY <3>3, <3>5, <3>6
      <3> QED
        BY <1>1, <3>1, <3>2, <3>4, <3>6 DEF Falls
    <2> QED
      BY <2>1, <2>2
  <1>6. PICK st, nx, lk, o : Result(t, u, p, st, nx, lk, o) /\ Allowed(t, a, p, up, st, nx, lk, o)
    BY <1>5
  <1>7. Loop(s, u, a, p + 1, up)
    BY <1>6, LoopStep
  <1> QED
    BY <1>4, <1>7

LEMMA LoopSkip ==
    ASSUME NEW s, NEW a \in Addr, NEW up \in BOOLEAN, NEW t, NEW p \in AppIds,
           Loop(s, t, a, p, up), p \notin AppsOf(s, a)
    PROVE  Loop(s, t, a, p + 1, up)
  <1>0. AppsOf(s, a) \subseteq AppIds /\ AppIds \subseteq Int
    BY DEF AppsOf, AppIds
  <1>1. LoopFrame(s, t, a, p + 1)
    <2>1. LoopFrame(s, t, a, p)
      BY DEF Loop
    <2>2. \A q \in AppIds : q >= p + 1 => q >= p
      BY <1>0
    <2> QED
      BY <2>1, <2>2 DEF LoopFrame
  <1>2. LoopDone(s, t, a, p + 1)
    <2>1. ASSUME NEW q \in AppsOf(s, a), q < p + 1 PROVE q < p
      <3>1. q \in Int /\ p \in Int /\ q # p
        BY <1>0
      <3> QED
        BY <2>1, <3>1
    <2> QED
      BY <2>1 DEF Loop, LoopDone
  <1>3. LoopWay(s, t, a, p + 1, up)
    <2>1. ASSUME NEW q \in AppsOf(s, a), q >= p + 1 PROVE q >= p
      <3>1. q \in Int /\ p \in Int
        BY <1>0
      <3> QED
        BY <2>1, <3>1
    <2> QED
      BY <2>1 DEF Loop, LoopWay
  <1> QED
    BY <1>1, <1>2, <1>3 DEF Loop

-----------------------------------------------------------------------------
(* The recursion behind the loop.                                          *)

\* A set of natural numbers that is not empty has a least element.
LEMMA LeastNumber ==
    ASSUME NEW T \in SUBSET Nat, T # {}
    PROVE  \E m \in T : \A k \in T : m <= k
  <1> DEFINE R == {ss \in Nat \X Nat : ss[1] < ss[2]}
  <1>1. \E x \in T : \A y \in T : ~(<<y, x>> \in OpToRel(<, Nat))
    BY NatLessThanWellFounded, WFMin
  <1>2. \E x \in T : \A y \in T : ~(<<y, x>> \in R)
    BY <1>1, Zenon DEF OpToRel
  <1>3. ASSUME NEW x \in Nat, NEW y \in Nat, y < x
        PROVE  <<y, x>> \in R
    BY <1>3
  <1>4. PICK x \in T : \A y \in T : ~(<<y, x>> \in R)
    BY <1>2
  <1>5. \A y \in T : ~(y < x)
    BY <1>3, <1>4
  <1> QED
    BY <1>5

\* The values of the function behind SsapTriggerLinkStateMachineChange.
AfterStep(s, a, up, f, k) ==
    IF k = 0 THEN s
    ELSE IF k - 1 \in AppsOf(s, a) THEN LinkChange(f[k - 1], k - 1, up)
    ELSE f[k - 1]

IsAfter(s, a, up, n, f) == f = [k \in 0 .. n |-> AfterStep(s, a, up, f, k)]

LEMMA AfterExists ==
    ASSUME NEW s, NEW a, NEW up, NEW n \in Nat
    PROVE  \E f : IsAfter(s, a, up, n, f)
  <1> DEFINE Bad == {m \in Nat : ~ \E f : IsAfter(s, a, up, m, f)}
  <1> SUFFICES ASSUME Bad # {}
               PROVE  FALSE
    OBVIOUS
  <1>1. PICK m \in Bad : \A k \in Bad : m <= k
    BY LeastNumber
  <1>2. m \in Nat /\ ~ \E f : IsAfter(s, a, up, m, f)
    OBVIOUS
  <1>3. CASE m = 0
    <2> DEFINE g == [k \in 0 .. 0 |-> s]
    <2>1. g = [k \in 0 .. 0 |-> AfterStep(s, a, up, g, k)]
      BY DEF AfterStep
    <2> HIDE DEF g
    <2> QED
      BY <2>1, <1>2, <1>3 DEF IsAfter
  <1>4. CASE m # 0
    <2>1. m - 1 \in Nat /\ m - 1 \notin Bad
      BY <1>1, <1>2, <1>4
    <2>2. PICK f : IsAfter(s, a, up, m - 1, f)
      BY <2>1
    <2> HIDE DEF Bad
    <2>3. \A k \in 0 .. m - 1 : f[k] = AfterStep(s, a, up, f, k)
      BY <2>2 DEF IsAfter
    <2> DEFINE g == [k \in 0 .. m |-> AfterStep(s, a, up, f, k)]
    <2>4. \A k \in 0 .. m - 1 : k \in 0 .. m /\ g[k] = f[k]
      BY <1>2, <2>3
    <2>5. \A k \in 0 .. m : g[k] = AfterStep(s, a, up, f, k)
      OBVIOUS
    <2>6. g = [k \in 0 .. m |-> g[k]]
      OBVIOUS
    <2> HIDE DEF g
    <2>7. ASSUME NEW k \in 0 .. m
          PROVE  g[k] = AfterStep(s, a, up, g, k)
      <3>1. CASE k = 0
        BY <3>1, <2>5 DEF AfterStep
      <3>2. CASE k # 0
        <4>1. k - 1 \in 0 .. m - 1
          BY <3>2, <1>2
        <4>2. g[k - 1] = f[k - 1]
          BY <4>1, <2>4
        <4> QED
          BY <4>2, <2>5 DEF AfterStep
      <3> QED
        BY <3>1, <3>2
    <2>8. IsAfter(s, a, up, m, g)
      BY <2>6, <2>7 DEF IsAfter
    <2> QED
      BY <2>8, <1>2
  <1> QED
    BY <1>3, <1>4

\* f holds the stack after each of the applications.
IsTrigger(s, a, up, f) ==
    /\ TriggerLinkStateMachineChange(s, a, up) = f[MaxApp]
    /\ f[0] = s
    /\ \A k \in 1 .. MaxApp :
           f[k] = IF k - 1 \in AppsOf(s, a) THEN LinkChange(f[k - 1], k - 1, up) ELSE f[k - 1]

LEMMA TriggerIs ==
    ASSUME NEW s, NEW a, NEW up
    PROVE  \E f : IsTrigger(s, a, up, f)
  <1>0. PICK n \in Nat : n = MaxApp
    BY SsapLinkAssumption
  <1> DEFINE F == CHOOSE f : IsAfter(s, a, up, n, f)
  <1>3. TriggerLinkStateMachineChange(s, a, up) = F[n]
    BY <1>0 DEF TriggerLinkStateMachineChange, IsAfter, AfterStep
  <1>4. IsAfter(s, a, up, n, F)
    BY AfterExists
  <1> HIDE DEF F
  <1>5. \A k \in 0 .. n : F[k] = AfterStep(s, a, up, F, k)
    BY <1>4 DEF IsAfter
  <1>6. F[0] = s
    BY <1>5 DEF AfterStep
  <1>7. ASSUME NEW k \in 1 .. n
        PROVE  F[k] = IF k - 1 \in AppsOf(s, a) THEN LinkChange(F[k - 1], k - 1, up) ELSE F[k - 1]
    <2>1. k \in 0 .. n /\ k # 0
      OBVIOUS
    <2> QED
      BY <1>5, <2>1 DEF AfterStep
  <1>8. IsTrigger(s, a, up, F)
    BY <1>0, <1>3, <1>6, <1>7 DEF IsTrigger
  <1> QED
    BY <1>8

\* Every application of the address has been called once.
LEMMA TriggerLoops ==
    ASSUME NEW s, NEW a \in Addr, NEW up \in BOOLEAN, LoopStart(s, a, up)
    PROVE  Loop(s, TriggerLinkStateMachineChange(s, a, up), a, MaxApp, up)
  <1>0. PICK n \in Nat : n = MaxApp
    BY SsapLinkAssumption
  <1>1. PICK f : IsTrigger(s, a, up, f)
    BY TriggerIs
  <1>2. /\ TriggerLinkStateMachineChange(s, a, up) = f[n] /\ f[0] = s
        /\ \A k \in 1 .. n :
               f[k] = IF k - 1 \in AppsOf(s, a) THEN LinkChange(f[k - 1], k - 1, up) ELSE f[k - 1]
    BY <1>0, <1>1 DEF IsTrigger
  <1> DEFINE Bad == {k \in 0 .. n : ~Loop(s, f[k], a, k, up)}
  <1>3. Bad = {}
    <2> SUFFICES ASSUME Bad # {}
                 PROVE  FALSE
      OBVIOUS
    <2>0. Bad \in SUBSET Nat
      OBVIOUS
    <2>1. PICK m \in Bad : \A k \in Bad : m <= k
      BY <2>0, LeastNumber
    <2>2. m \in 0 .. n /\ ~Loop(s, f[m], a, m, up)
      OBVIOUS
    <2>3. m # 0
      BY <1>2, <2>2, LoopBegin
    <2>4. PICK p \in Nat : m = p + 1
      <3>1. m - 1 \in Nat /\ m = (m - 1) + 1
        BY <2>2, <2>3
      <3> QED
        BY <3>1
    <2>5. p \in 0 .. n /\ p \in AppIds /\ m \in 1 .. n /\ m - 1 = p
      BY <1>0, <2>2, <2>4 DEF AppIds
    <2>6. Loop(s, f[p], a, p, up)
      <3>1. ~(m <= p)
        BY <2>4
      <3> QED
        BY <3>1, <2>1, <2>5
    <2> HIDE DEF Bad
    <2>7. f[m] = IF p \in AppsOf(s, a) THEN LinkChange(f[p], p, up) ELSE f[p]
      BY <1>2, <2>5
    <2>8. PICK t : t = f[p]
      OBVIOUS
    <2>9. CASE p \in AppsOf(s, a)
      <3>1. Loop(s, LinkChange(t, p, up), a, p + 1, up)
        BY <2>5, <2>6, <2>8, <2>9, LoopCall
      <3> QED
        BY <3>1, <2>2, <2>4, <2>7, <2>8, <2>9
    <2>10. CASE p \notin AppsOf(s, a)
      <3>1. Loop(s, t, a, p + 1, up)
        BY <2>5, <2>6, <2>8, <2>10, LoopSkip
      <3> QED
        BY <3>1, <2>2, <2>4, <2>7, <2>8, <2>10
    <2> QED
      BY <2>9, <2>10
  <1>4. Loop(s, f[n], a, n, up)
    BY <1>3
  <1> QED
    BY <1>0, <1>2, <1>4


-----------------------------------------------------------------------------
(* What a report of CM does.                                               *)

\* SsapcAppNotifyClientCleanUp lets applications go that are not in use.
Notified(s, t) ==
    /\ t \in StackRec /\ t.links = s.links /\ t.cm = s.cm /\ t.out = s.out /\ t.bad = s.bad
    /\ \A p \in AppIds : t.apps[p] = s.apps[p] \/ t.apps[p] = NoApp
    /\ t.cleaning => s.cleaning /\ \E p \in AppIds : InUse(t, p)

LEMMA NotifyIs ==
    ASSUME NEW s \in StackRec
    PROVE  Notified(s, NotifyClientCleanUp(s))
  <1>1. CASE ~s.cleaning
    <2>1. NotifyClientCleanUp(s) = s
      BY <1>1 DEF NotifyClientCleanUp
    <2> QED
      BY <2>1, <1>1 DEF Notified
  <1>2. CASE s.cleaning
    <2>1. PICK U : U = {p \in Registered(s) : ~Unused(s, p)}
      OBVIOUS
    <2>2. PICK G : G = {p \in Registered(s) : \A q \in U : p < q}
      OBVIOUS
    <2>3. PICK A : A = [p \in AppIds |-> IF p \in G THEN NoApp ELSE s.apps[p]]
      OBVIOUS
    <2>4. A \in [AppIds -> RegParam \cup {NoApp}]
      BY <2>3, StackFacts
    <2>5. PICK u : u = [s EXCEPT !.apps = A]
      OBVIOUS
    <2>6. /\ u \in StackRec /\ u.apps = A /\ u.links = s.links /\ u.cleaning = s.cleaning
          /\ u.cm = s.cm /\ u.out = s.out /\ u.bad = s.bad
      BY <2>4, <2>5, NewApps
    <2>7. PICK t : t = [u EXCEPT !.cleaning = (U # {})]
      OBVIOUS
    <2>8. /\ t \in StackRec /\ t.apps = A /\ t.links = s.links /\ t.cleaning = (U # {})
          /\ t.cm = s.cm /\ t.out = s.out /\ t.bad = s.bad
      BY <2>6, <2>7 DEF StackRec
    <2>9. NotifyClientCleanUp(s) = t
      BY <1>2, <2>1, <2>2, <2>3, <2>5, <2>7 DEF NotifyClientCleanUp, Freed
    <2>10. ASSUME NEW p \in U PROVE InUse(t, p) /\ p \in AppIds
      <3>1. p \in AppIds /\ p \in Int /\ s.apps[p] # NoApp /\ ~Unused(s, p)
        BY <2>1 DEF Registered, AppIds
      <3>2. p \notin G
        BY <2>2, <3>1
      <3>3. t.apps[p] = s.apps[p]
        BY <3>1, <3>2, <2>3, <2>8
      <3> QED
        BY <3>1, <3>3 DEF InUse, Unused
    <2>11. \A p \in AppIds : t.apps[p] = s.apps[p] \/ t.apps[p] = NoApp
      BY <2>3, <2>8
    <2>12. t.cleaning => \E p \in AppIds : InUse(t, p)
      BY <2>8, <2>10
    <2> QED
      BY <1>2, <2>8, <2>9, <2>11, <2>12 DEF Notified
  <1> QED
    BY <1>1, <1>2, StackFacts

\* With a table for every peer there is room for one that has no entry.
LEMMA RoomIs ==
    ASSUME Roomy, NEW s, NEW a \in Addr, s.links[a] = "NONE"
    PROVE  HasRoom(s)
  <1>1. PICK T : T = {b \in Addr : s.links[b] # "NONE"}
    OBVIOUS
  <1>2. T \subseteq Addr /\ T # Addr
    BY <1>1
  <1>3. IsFiniteSet(Addr)
    BY SsapLinkAssumption
  <1>s. T \in SUBSET Addr
    BY <1>2
  <1>c. Cardinality(T) <= Cardinality(Addr) /\ (Cardinality(Addr) = Cardinality(T) => Addr = T)
    BY <1>s, <1>3, FS_Subset
  <1>5. Cardinality(T) \in Nat /\ Cardinality(Addr) \in Nat /\ MaxLink \in Nat
    BY <1>2, <1>3, FS_Subset, FS_CardinalityType, SsapLinkAssumption
  <1>4. Cardinality(T) < Cardinality(Addr)
    BY <1>2, <1>5, <1>c
  <1>6. Cardinality(T) < MaxLink
    BY <1>4, <1>5 DEF Roomy
  <1> QED
    BY <1>1, <1>6 DEF HasRoom

\* When CM may report.
Reportable(s, a, up) ==
    /\ s \in StackRec /\ s.out \in Seq(Posts(a)) /\ AppsMatch(s)
    /\ up => s.links[a] \in {"NONE", "CONNECTING"}

\* The table after the report.
Recorded(s, r, a, up) ==
    /\ r \in StackRec /\ r.apps = s.apps /\ r.cleaning = s.cleaning /\ r.cm = s.cm
    /\ r.out = s.out /\ r.bad = s.bad
    /\ \A b \in Addr : b # a => r.links[b] = s.links[b]
    /\ ~up => r.links[a] = "NONE"
    /\ up => \/ r.links[a] = "CONNECTED"
             \/ r.links[a] = "NONE" /\ s.links[a] = "NONE" /\ ~HasRoom(s)

LEMMA RecordIs ==
    ASSUME NEW s \in StackRec, NEW a \in Addr, NEW up \in BOOLEAN
    PROVE  Recorded(s, RecordLinkStateFromCm(s, a, up), a, up)
  <1>0. s.links \in [Addr -> LinkStates] /\ "NONE" \in LinkStates /\ "CONNECTED" \in LinkStates
    BY StackFacts DEF LinkStates
  <1>1. ASSUME NEW l \in LinkStates
        PROVE  LET r == [s EXCEPT !.links[a] = l]
               IN  /\ r \in StackRec /\ r.apps = s.apps /\ r.cleaning = s.cleaning /\ r.cm = s.cm
                   /\ r.out = s.out /\ r.bad = s.bad /\ r.links[a] = l
                   /\ \A b \in Addr : b # a => r.links[b] = s.links[b]
    <2>1. PICK L : L = [s.links EXCEPT ![a] = l]
      OBVIOUS
    <2>2. L \in [Addr -> LinkStates] /\ L[a] = l /\ \A b \in Addr : b # a => L[b] = s.links[b]
      BY <2>1, <1>0
    <2>3. PICK r : r = [s EXCEPT !.links = L]
      OBVIOUS
    <2>4. /\ r \in StackRec /\ r.links = L /\ r.apps = s.apps /\ r.cleaning = s.cleaning
          /\ r.cm = s.cm /\ r.out = s.out /\ r.bad = s.bad
      BY <2>2, <2>3, NewLinks
    <2>5. [s EXCEPT !.links[a] = l] = r
      BY <2>1, <2>3
    <2> QED
      BY <2>2, <2>4, <2>5
  <1>2. CASE ~up
    <2>1. RecordLinkStateFromCm(s, a, up) = [s EXCEPT !.links[a] = "NONE"]
      BY <1>2 DEF RecordLinkStateFromCm
    <2>2. PICK r : r = [s EXCEPT !.links[a] = "NONE"]
      OBVIOUS
    <2>3. /\ r \in StackRec /\ r.apps = s.apps /\ r.cleaning = s.cleaning /\ r.cm = s.cm
          /\ r.out = s.out /\ r.bad = s.bad /\ r.links[a] = "NONE"
          /\ \A b \in Addr : b # a => r.links[b] = s.links[b]
      BY <1>0, <1>1, <2>2
    <2> QED
      BY <1>2, <2>1, <2>2, <2>3 DEF Recorded
  <1>3. CASE up /\ (s.links[a] # "NONE" \/ HasRoom(s))
    <2>1. RecordLinkStateFromCm(s, a, up) = [s EXCEPT !.links[a] = "CONNECTED"]
      BY <1>3 DEF RecordLinkStateFromCm
    <2>2. PICK r : r = [s EXCEPT !.links[a] = "CONNECTED"]
      OBVIOUS
    <2>3. /\ r \in StackRec /\ r.apps = s.apps /\ r.cleaning = s.cleaning /\ r.cm = s.cm
          /\ r.out = s.out /\ r.bad = s.bad /\ r.links[a] = "CONNECTED"
          /\ \A b \in Addr : b # a => r.links[b] = s.links[b]
      BY <1>0, <1>1, <2>2
    <2> QED
      BY <1>3, <2>1, <2>2, <2>3 DEF Recorded
  <1>4. CASE up /\ s.links[a] = "NONE" /\ ~HasRoom(s)
    <2>1. RecordLinkStateFromCm(s, a, up) = s
      BY <1>4 DEF RecordLinkStateFromCm
    <2> QED
      BY <1>4, <2>1 DEF Recorded
  <1> QED
    BY <1>2, <1>3, <1>4

LEMMA RecordStarts ==
    ASSUME NEW s, NEW a \in Addr, NEW up \in BOOLEAN, Reportable(s, a, up),
           NEW r, Recorded(s, r, a, up)
    PROVE  LoopStart(r, a, up)
  <1>1. /\ s \in StackRec /\ s.out \in Seq(Posts(a)) /\ AppsMatch(s)
        /\ up => s.links[a] \in {"NONE", "CONNECTING"}
    BY DEF Reportable
  <1>2. /\ r \in StackRec /\ r.apps = s.apps /\ r.out = s.out
        /\ ~up => r.links[a] = "NONE"
        /\ up => \/ r.links[a] = "CONNECTED"
                 \/ r.links[a] = "NONE" /\ s.links[a] = "NONE"
    BY DEF Recorded
  <1>3. ASSUME up, NEW p \in AppsOf(r, a), ~Unused(r, p)
        PROVE  r.apps[p].state = "CONNECTING" /\ r.links[a] = "CONNECTED"
    <2>1. p \in AppIds /\ s.apps[p] # NoApp /\ s.apps[p].addr = a /\ ~Unused(s, p)
      BY <1>2, <1>3 DEF AppsOf, Unused
    <2>2. s.apps[p].state = s.links[a]
      BY <1>1, <2>1 DEF AppsMatch, InUse
    <2>3. s.apps[p].state \in AppStates
      BY <1>1, <2>1, StackFacts, ParamFacts
    <2>4. s.links[a] = "CONNECTING"
      BY <1>1, <1>3, <2>2, <2>3 DEF AppStates
    <2> QED
      BY <1>2, <1>3, <2>2, <2>4
  <1> QED
    BY <1>1, <1>2, <1>3 DEF LoopStart


\* What is true after a report of CM.
Reported(s, t, a, up) ==
    /\ t \in StackRec /\ t.cm = s.cm /\ t.bad = s.bad
    /\ \A b \in Addr : b # a => t.links[b] = s.links[b]
    /\ \A p \in AppIds : t.apps[p] # NoApp =>
           /\ s.apps[p] # NoApp /\ t.apps[p].addr = s.apps[p].addr
           /\ s.apps[p].addr # a => t.apps[p] = s.apps[p]
    /\ AppsMatch(t) /\ LoopOut(t, a)
    /\ ~up => t.links[a] \in {"NONE", "CONNECTING"}
    /\ up /\ s.bad = "NONE" /\ Roomy => t.links[a] \in {"CONNECTED", "DISCONNECTING"}
    /\ \A p \in AppIds : t.apps[p] # NoApp /\ t.apps[p].addr = a /\ t.apps[p].next # "NONE" =>
           t.links[a] \in {"CONNECTING", "DISCONNECTING"}
    /\ t.cleaning => s.cleaning /\ \E p \in AppIds : InUse(t, p)
    /\ (\A p \in AppIds : s.apps[p] # NoApp => s.apps[p].next = "NONE") =>
           /\ t.out = s.out
           /\ \A p \in AppIds : t.apps[p] # NoApp => t.apps[p].next = "NONE"
           /\ \A p \in AppIds : InUse(t, p) => InUse(s, p)

LEMMA ReportedIs ==
    ASSUME NEW s, NEW a \in Addr, NEW up \in BOOLEAN, Reportable(s, a, up)
    PROVE  Reported(s, LogicLinkCbk(s, a, up), a, up)
  <1>1. /\ s \in StackRec /\ s.out \in Seq(Posts(a)) /\ AppsMatch(s)
        /\ up => s.links[a] \in {"NONE", "CONNECTING"}
    BY DEF Reportable
  <1>2. PICK r : r = RecordLinkStateFromCm(s, a, up)
    OBVIOUS
  <1>3. Recorded(s, r, a, up)
    BY <1>1, <1>2, RecordIs
  <1>4. LoopStart(r, a, up)
    BY <1>3, RecordStarts
  <1>5. PICK u : u = TriggerLinkStateMachineChange(r, a, up)
    OBVIOUS
  <1>6. Loop(r, u, a, MaxApp, up)
    BY <1>4, <1>5, TriggerLoops
  <1>7. PICK t : t = NotifyClientCleanUp(u)
    OBVIOUS
  <1>8. u \in StackRec
    BY <1>6 DEF Loop, LoopFrame
  <1>9. Notified(u, t)
    BY <1>7, <1>8, NotifyIs
  <1>10. LogicLinkCbk(s, a, up) = t
    BY <1>2, <1>5, <1>7 DEF LogicLinkCbk
  <1>r. /\ r \in StackRec /\ r.apps = s.apps /\ r.cleaning = s.cleaning /\ r.cm = s.cm
        /\ r.out = s.out /\ r.bad = s.bad
        /\ \A b \in Addr : b # a => r.links[b] = s.links[b]
        /\ up => \/ r.links[a] = "CONNECTED"
                 \/ r.links[a] = "NONE" /\ s.links[a] = "NONE" /\ ~HasRoom(s)
    BY <1>3 DEF Recorded
  <1>u. /\ u.cleaning = r.cleaning /\ u.cm = r.cm /\ u.bad = r.bad
        /\ \A b \in Addr : b # a => u.links[b] = r.links[b]
        /\ \A p \in AppIds : p \notin AppsOf(r, a) => u.apps[p] = r.apps[p]
        /\ \A p \in AppsOf(r, a) : u.apps[p] \in RegParam /\ u.apps[p].addr = a
    BY <1>6 DEF Loop, LoopFrame
  <1>t. /\ t \in StackRec /\ t.links = u.links /\ t.cm = u.cm /\ t.out = u.out /\ t.bad = u.bad
        /\ \A p \in AppIds : t.apps[p] = u.apps[p] \/ t.apps[p] = NoApp
        /\ t.cleaning => u.cleaning /\ \E p \in AppIds : InUse(t, p)
    BY <1>9 DEF Notified
  <1>d. ASSUME NEW p \in AppsOf(r, a)
        PROVE  /\ ~Unused(u, p) => u.apps[p].state = u.links[a]
               /\ u.apps[p].next # "NONE" => u.links[a] \in {"CONNECTING", "DISCONNECTING"}
    <2>1. p < MaxApp
      BY SsapLinkAssumption DEF AppsOf, AppIds
    <2> QED
      BY <2>1, <1>6 DEF Loop, LoopDone
  <1>e. ASSUME NEW p \in AppIds
        PROVE  \/ p \in AppsOf(r, a) /\ s.apps[p] # NoApp /\ s.apps[p].addr = a
               \/ /\ p \notin AppsOf(r, a) /\ u.apps[p] = s.apps[p]
                  /\ s.apps[p] # NoApp => s.apps[p].addr # a
    BY <1>r, <1>u DEF AppsOf
  <1>11. ASSUME NEW p \in AppIds, t.apps[p] # NoApp
         PROVE  /\ s.apps[p] # NoApp /\ t.apps[p].addr = s.apps[p].addr
                /\ s.apps[p].addr # a => t.apps[p] = s.apps[p]
    BY <1>11, <1>t, <1>e, <1>u
  <1>12. AppsMatch(t)
    <2> SUFFICES ASSUME NEW p \in AppIds, InUse(t, p)
                 PROVE  t.apps[p].state = t.links[t.apps[p].addr]
      BY DEF AppsMatch
    <2>1. t.apps[p] = u.apps[p] /\ t.apps[p] # NoApp /\ ~Unused(u, p)
      BY <1>t DEF InUse, Unused
    <2>2. CASE p \in AppsOf(r, a)
      BY <2>1, <2>2, <1>d, <1>u, <1>t
    <2>3. CASE p \notin AppsOf(r, a)
      <3>1. u.apps[p] = s.apps[p] /\ s.apps[p].addr # a /\ s.apps[p] # NoApp
        BY <2>1, <2>3, <1>e
      <3>2. InUse(s, p)
        BY <2>1, <3>1 DEF InUse, Unused
      <3>3. s.apps[p].state = s.links[s.apps[p].addr]
        BY <3>2, <1>1 DEF AppsMatch
      <3>4. s.apps[p].addr \in Addr
        BY <3>1, <1>1, StackFacts, ParamFacts
      <3>5. t.links[s.apps[p].addr] = s.links[s.apps[p].addr]
        BY <3>1, <3>4, <1>r, <1>u, <1>t
      <3> QED
        BY <2>1, <3>1, <3>3, <3>5
    <2> QED
      BY <2>2, <2>3
  <1>13. LoopOut(t, a)
    BY <1>6, <1>t DEF Loop, LoopOut
  <1>14. ~up => t.links[a] \in {"NONE", "CONNECTING"}
    BY <1>6, <1>t DEF Loop, LoopWay
  <1>15. ASSUME up, s.bad = "NONE", Roomy PROVE t.links[a] \in {"CONNECTED", "DISCONNECTING"}
    <2>1. r.links[a] = "CONNECTED"
      BY <1>15, <1>r, RoomIs
    <2> QED
      BY <2>1, <1>15, <1>6, <1>t, <1>r DEF Loop, LoopWay
  <1>16. ASSUME NEW p \in AppIds, t.apps[p] # NoApp, t.apps[p].addr = a, t.apps[p].next # "NONE"
         PROVE  t.links[a] \in {"CONNECTING", "DISCONNECTING"}
    <2>1. p \in AppsOf(r, a) /\ t.apps[p] = u.apps[p]
      BY <1>16, <1>11, <1>e, <1>t
    <2> QED
      BY <2>1, <1>16, <1>d, <1>t
  <1>17. t.cleaning => s.cleaning /\ \E p \in AppIds : InUse(t, p)
    BY <1>t, <1>u, <1>r
  <1>18. ASSUME \A p \in AppIds : s.apps[p] # NoApp => s.apps[p].next = "NONE"
         PROVE  /\ t.out = s.out
                /\ \A p \in AppIds : t.apps[p] # NoApp => t.apps[p].next = "NONE"
                /\ \A p \in AppIds : InUse(t, p) => InUse(s, p)
    <2>1. \A p \in AppsOf(r, a) : r.apps[p].next = "NONE"
      BY <1>18, <1>r DEF AppsOf
    <2>2. /\ u.out = r.out
          /\ \A p \in AppsOf(r, a) : u.apps[p].next = "NONE" /\ (Unused(r, p) => Unused(u, p))
      BY <2>1, <1>6 DEF Loop, LoopStill
    <2>3. ASSUME NEW p \in AppIds, t.apps[p] # NoApp
          PROVE  t.apps[p].next = "NONE" /\ (InUse(t, p) => InUse(s, p))
      <3>1. t.apps[p] = u.apps[p] /\ s.apps[p] # NoApp
        BY <2>3, <1>t, <1>11
      <3>2. CASE p \in AppsOf(r, a)
        BY <2>2, <3>1, <3>2, <1>r DEF InUse, Unused
      <3>3. CASE p \notin AppsOf(r, a)
        <4>1. u.apps[p] = s.apps[p]
          BY <3>3, <1>e
        <4> QED
          BY <4>1, <3>1, <1>18 DEF InUse, Unused
      <3> QED
        BY <3>2, <3>3
    <2> QED
      BY <2>2, <2>3, <1>t, <1>r DEF InUse
  <1> QED
    BY <1>10, <1>r, <1>u, <1>t, <1>11, <1>12, <1>13, <1>14, <1>15, <1>16, <1>17, <1>18 DEF Reported

-----------------------------------------------------------------------------
(* What is due after a task.                                               *)

\* What the work list q holds for CM about the address b is still in r.
PassesOn(q, r, b) ==
    /\ Contains(q, ADD(b)) => Contains(r, ADD(b))
    /\ Contains(q, REMOVE(b)) => Contains(r, REMOVE(b))
    /\ LastRemove(q, b) => LastRemove(r, b)

LEMMA PassesTail ==
    ASSUME NEW q \in Seq(Task), q # <<>>, NEW b, Head(q) # ADD(b), Head(q) # REMOVE(b)
    PROVE  PassesOn(q, Tail(q), b)
  <1>1. Contains(q, ADD(b)) => Contains(Tail(q), ADD(b))
    BY ContainsTail
  <1>2. Contains(q, REMOVE(b)) => Contains(Tail(q), REMOVE(b))
    BY ContainsTail
  <1>3. LastRemove(q, b) => LastRemove(Tail(q), b)
    BY LastRemoveTail
  <1> QED
    BY <1>1, <1>2, <1>3 DEF PassesOn

\* Posts for another address, or none that asks to connect.
LEMMA PassesConcat ==
    ASSUME NEW q \in Seq(Task), NEW o \in Seq(Task), NEW b, ~Contains(o, ADD(b))
    PROVE  PassesOn(q, q \o o, b)
  <1>1. Contains(q, ADD(b)) => Contains(q \o o, ADD(b))
    BY ContainsConcat
  <1>2. Contains(q, REMOVE(b)) => Contains(q \o o, REMOVE(b))
    BY ContainsConcat
  <1>3. LastRemove(q, b) => LastRemove(q \o o, b)
    BY LastRemoveConcat
  <1> QED
    BY <1>1, <1>2, <1>3 DEF PassesOn

\* The link of b is what CM reported, and whoever waits for it has an answer coming.
LinkDue(s, q, b) ==
    /\ s.cm[b].told /\ s.cm[b].link = "CONNECTED" => s.links[b] \in {"CONNECTED", "DISCONNECTING"}
    /\ s.links[b] = "CONNECTING" => \/ Contains(q, ADD(b)) \/ s.cm[b].waits
                                    \/ s.cm[b].link # "NONE" /\ ~s.cm[b].told
    /\ s.links[b] = "DISCONNECTING" => Contains(q, REMOVE(b)) \/ s.cm[b].link = "DISCONNECTING"

\* The same for an application.
AppDue(s, q, p) ==
    s.apps[p] # NoApp =>
        /\ s.apps[p].next # "NONE" => s.links[s.apps[p].addr] \in {"CONNECTING", "DISCONNECTING"}
        /\ s.cleaning => /\ s.apps[p].next = "NONE"
                         /\ InUse(s, p) => Released(s, q, s.apps[p].addr)

\* Switching off hears of a connection again.
HearsAgain(s, q) == s.cleaning => \E a \in Addr : s.links[a] # "NONE" /\ Released(s, q, a)

LEMMA DueParts ==
    ASSUME NEW s, NEW q
    PROVE  Due(s, q) <=> /\ \A b \in Addr : LinkDue(s, q, b)
                         /\ \A p \in AppIds : AppDue(s, q, p)
                         /\ HearsAgain(s, q)
  <1>1. (TableTrue(s) /\ LinksDue(s, q)) <=> \A b \in Addr : LinkDue(s, q, b)
    BY DEF TableTrue, LinksDue, LinkDue
  <1>2. (KeptDue(s) /\ CleanDue(s, q)) <=> (\A p \in AppIds : AppDue(s, q, p)) /\ HearsAgain(s, q)
    BY DEF KeptDue, CleanDue, AppDue, HearsAgain, InUse
  <1> QED
    BY <1>1, <1>2 DEF Due

\* Due except for the address a.
DueBut(s, q, a) ==
    /\ \A b \in Addr : b # a => LinkDue(s, q, b)
    /\ \A p \in AppIds : s.apps[p] # NoApp /\ s.apps[p].addr # a => AppDue(s, q, p)
    /\ s.cleaning => \A p \in AppIds : s.apps[p] # NoApp => s.apps[p].next = "NONE"

\* u is s but for CM's view of a.
SameBut(s, u, a) ==
    /\ u.apps = s.apps /\ u.links = s.links /\ u.cleaning = s.cleaning
    /\ \A b \in Addr : b # a => u.cm[b] = s.cm[b]

LEMMA LinkDueFrom ==
    ASSUME NEW s, NEW u, NEW q, NEW r, NEW b \in Addr, LinkDue(s, q, b), PassesOn(q, r, b),
           u.links[b] = s.links[b], u.cm[b] = s.cm[b]
    PROVE  LinkDue(u, r, b)
  BY DEF LinkDue, PassesOn

LEMMA AppDueFrom ==
    ASSUME NEW s, NEW u, NEW q, NEW r, NEW p \in AppIds, AppDue(s, q, p),
           u.apps[p] = s.apps[p], u.cleaning => s.cleaning,
           s.apps[p] # NoApp =>
               /\ u.links[s.apps[p].addr] = s.links[s.apps[p].addr]
               /\ Released(s, q, s.apps[p].addr) => Released(u, r, s.apps[p].addr)
    PROVE  AppDue(u, r, p)
  BY DEF AppDue, InUse, Unused

LEMMA ReleasedFrom ==
    ASSUME NEW s, NEW u, NEW q, NEW r, NEW b, PassesOn(q, r, b), u.cm[b] = s.cm[b],
           Released(s, q, b)
    PROVE  Released(u, r, b)
  BY DEF Released, PassesOn

LEMMA ButFrom ==
    ASSUME NEW s \in StackRec, NEW u, NEW q, NEW r, NEW a, Due(s, q), SameBut(s, u, a),
           \A b \in Addr : b # a => PassesOn(q, r, b)
    PROVE  DueBut(u, r, a)
  <1>0. /\ \A b \in Addr : LinkDue(s, q, b)
        /\ \A p \in AppIds : AppDue(s, q, p)
    BY DueParts
  <1>1. ASSUME NEW b \in Addr, b # a PROVE LinkDue(u, r, b)
    BY <1>0, <1>1, LinkDueFrom DEF SameBut
  <1>2. ASSUME NEW p \in AppIds, u.apps[p] # NoApp, u.apps[p].addr # a PROVE AppDue(u, r, p)
    <2>1. s.apps[p] \in RegParam /\ u.apps[p] = s.apps[p]
      BY <1>2, StackFacts DEF SameBut
    <2>2. PICK b \in Addr : b = s.apps[p].addr /\ b # a
      BY <2>1, <1>2, ParamFacts
    <2>3. Released(s, q, b) => Released(u, r, b)
      BY <2>2, ReleasedFrom DEF SameBut
    <2> QED
      BY <1>0, <2>1, <2>2, <2>3, AppDueFrom DEF SameBut
  <1>3. u.cleaning => \A p \in AppIds : u.apps[p] # NoApp => u.apps[p].next = "NONE"
    BY <1>0 DEF AppDue, SameBut
  <1> QED
    BY <1>1, <1>2, <1>3 DEF DueBut

\* Nothing but the work list changes.
LEMMA DueFrom ==
    ASSUME NEW s \in StackRec, NEW q, NEW r, Due(s, q), \A b \in Addr : PassesOn(q, r, b)
    PROVE  Due(s, r)
  <1>0. /\ \A b \in Addr : LinkDue(s, q, b)
        /\ \A p \in AppIds : AppDue(s, q, p)
        /\ HearsAgain(s, q)
    BY DueParts
  <1>1. ASSUME NEW b \in Addr PROVE LinkDue(s, r, b)
    BY <1>0, LinkDueFrom
  <1>2. ASSUME NEW p \in AppIds PROVE AppDue(s, r, p)
    <2>1. s.apps[p] # NoApp => s.apps[p] \in RegParam
      BY StackFacts
    <2>2. s.apps[p] # NoApp => s.apps[p].addr \in Addr
      BY <2>1, ParamFacts
    <2>3. s.apps[p] # NoApp /\ Released(s, q, s.apps[p].addr) => Released(s, r, s.apps[p].addr)
      BY <2>2, ReleasedFrom
    <2> QED
      BY <1>0, <2>3, AppDueFrom
  <1>3. HearsAgain(s, r)
    BY <1>0, ReleasedFrom DEF HearsAgain
  <1> QED
    BY <1>1, <1>2, <1>3, DueParts

\* An application in use names an entry of the table.
LEMMA InUseFacts ==
    ASSUME NEW s \in StackRec, NEW p \in AppIds, InUse(s, p)
    PROVE  /\ s.apps[p] \in RegParam /\ s.apps[p] # NoApp /\ s.apps[p].addr \in Addr
           /\ s.apps[p].state \in {"CONNECTING", "CONNECTED", "DISCONNECTING"}
           /\ AppsMatch(s) => /\ s.links[s.apps[p].addr] = s.apps[p].state
                              /\ s.links[s.apps[p].addr] # "NONE"
  <1>1. s.apps[p] \in RegParam /\ s.apps[p] # NoApp
    BY StackFacts DEF InUse
  <1>2. s.apps[p].addr \in Addr /\ s.apps[p].state \in AppStates
    BY <1>1, ParamFacts
  <1>3. s.apps[p].state \in {"CONNECTING", "CONNECTED", "DISCONNECTING"}
    BY <1>2 DEF InUse, Unused, AppStates
  <1>4. AppsMatch(s) => s.links[s.apps[p].addr] = s.apps[p].state
    BY DEF AppsMatch
  <1> QED
    BY <1>1, <1>2, <1>3, <1>4

LEMMA AddrOf ==
    ASSUME NEW s \in StackRec, NEW p \in AppIds, s.apps[p] # NoApp
    PROVE  s.apps[p] \in RegParam /\ s.apps[p].addr \in Addr
  <1>1. s.apps[p] \in RegParam
    BY StackFacts
  <1> QED
    BY <1>1, ParamFacts

LEMMA PostsAre ==
    ASSUME NEW a \in Addr, NEW o \in Seq(Posts(a))
    PROVE  /\ o \in Seq(Task)
           /\ \A k \in 1 .. Len(o) : Quiet(o[k])
           /\ \A b \in Addr : b # a => ~Contains(o, ADD(b)) /\ ~Contains(o, REMOVE(b))
  <1>1. \A k \in 1 .. Len(o) : o[k] \in Posts(a)
    OBVIOUS
  <1>2. Posts(a) \subseteq Task
    BY TaskFacts DEF Posts
  <1>3. o \in Seq(Task)
    BY <1>2
  <1>4. ASSUME NEW k \in 1 .. Len(o) PROVE Quiet(o[k])
    <2>1. o[k] = ADD(a) \/ o[k] = REMOVE(a)
      BY <1>1 DEF Posts
    <2> QED
      BY <2>1 DEF ADD, REMOVE, UP, DOWN, READY, Quiet
  <1>5. ASSUME NEW b \in Addr, b # a, NEW k \in 1 .. Len(o)
        PROVE  o[k] # ADD(b) /\ o[k] # REMOVE(b)
    <2>1. o[k] = ADD(a) \/ o[k] = REMOVE(a)
      BY <1>1 DEF Posts
    <2> QED
      BY <2>1, <1>5 DEF ADD, REMOVE
  <1> QED
    BY <1>3, <1>4, <1>5 DEF Contains

LEMMA NothingPosted ==
    ASSUME NEW t, t.out = <<>>
    PROVE  /\ \A S : t.out \in Seq(S)
           /\ \A k \in 1 .. Len(t.out) : Quiet(t.out[k])
  OBVIOUS

LEMMA NoneContained ==
    ASSUME NEW x
    PROVE  ~Contains(<<>>, x)
  BY DEF Contains

\* After a report everything is due again.
LEMMA ReportDue ==
    ASSUME NEW s \in StackRec, NEW a \in Addr, NEW up \in BOOLEAN, NEW left \in Seq(Task), NEW t,
           Roomy, s.bad = "NONE", s.out = <<>>, Reported(s, t, a, up), DueBut(s, left, a),
           ~up => ~(s.cm[a].told /\ s.cm[a].link = "CONNECTED"),
           up => \A p \in AppIds : AppDue(s, left, p)
    PROVE  Due(t, left \o t.out)
  <1>0. /\ t \in StackRec /\ t.cm = s.cm /\ t.out \in Seq(Posts(a)) /\ AppsMatch(t)
        /\ \A b \in Addr : b # a => t.links[b] = s.links[b]
        /\ t.links[a] = "CONNECTING" => Contains(t.out, ADD(a))
        /\ t.links[a] = "DISCONNECTING" => Contains(t.out, REMOVE(a))
        /\ ~up => t.links[a] \in {"NONE", "CONNECTING"}
        /\ up => t.links[a] \in {"CONNECTED", "DISCONNECTING"}
    BY DEF Reported, LoopOut
  <1>1. /\ t.out \in Seq(Task)
        /\ \A b \in Addr : b # a => ~Contains(t.out, ADD(b)) /\ ~Contains(t.out, REMOVE(b))
    BY <1>0, PostsAre
  <1>2. ASSUME NEW b \in Addr, b # a PROVE PassesOn(left, left \o t.out, b)
    BY <1>1, <1>2, PassesConcat
  <1>3. ASSUME NEW b \in Addr PROVE LinkDue(t, left \o t.out, b)
    <2>1. CASE b # a
      <3>1. LinkDue(s, left, b)
        BY <2>1 DEF DueBut
      <3> QED
        BY <3>1, <2>1, <1>0, <1>2, LinkDueFrom
    <2>2. CASE b = a
      <3>1. t.links[a] = "CONNECTING" => Contains(left \o t.out, ADD(a))
        BY <1>0, <1>1, ContainsConcat
      <3>2. t.links[a] = "DISCONNECTING" => Contains(left \o t.out, REMOVE(a))
        BY <1>0, <1>1, ContainsConcat
      <3>3. t.cm[a].told /\ t.cm[a].link = "CONNECTED" => t.links[a] \in {"CONNECTED", "DISCONNECTING"}
        BY <1>0
      <3> QED
        BY <2>2, <3>1, <3>2, <3>3 DEF LinkDue
    <2> QED
      BY <2>1, <2>2
  <1>c. ASSUME t.cleaning
        PROVE  /\ s.cleaning /\ t.out = <<>> /\ \E p \in AppIds : InUse(t, p)
               /\ \A p \in AppIds : t.apps[p] # NoApp => t.apps[p].next = "NONE"
               /\ \A p \in AppIds : InUse(t, p) => InUse(s, p)
    <2>1. s.cleaning /\ \E p \in AppIds : InUse(t, p)
      BY <1>c DEF Reported
    <2>2. \A p \in AppIds : s.apps[p] # NoApp => s.apps[p].next = "NONE"
      BY <2>1 DEF DueBut
    <2> QED
      BY <2>1, <2>2 DEF Reported
  <1>4. ASSUME NEW p \in AppIds, t.cleaning, InUse(t, p)
        PROVE  Released(t, left \o t.out, t.apps[p].addr)
    <2>0. s.cleaning /\ t.out = <<>> /\ InUse(s, p)
      BY <1>c, <1>4
    <2>1. /\ t.apps[p] # NoApp /\ t.links[t.apps[p].addr] # "NONE" /\ t.apps[p].addr \in Addr
      BY <1>0, <1>4, InUseFacts
    <2>2. s.apps[p] # NoApp /\ s.apps[p].addr = t.apps[p].addr
      BY <2>1 DEF Reported
    <2>3. PICK b \in Addr : b = t.apps[p].addr
      BY <2>1
    <2>4. PassesOn(left, left \o t.out, b)
      BY <2>0, NoneContained, <1>1, PassesConcat
    <2>5. CASE b # a
      <3>1. AppDue(s, left, p)
        BY <2>5, <2>2, <2>3 DEF DueBut
      <3>2. Released(s, left, b)
        BY <3>1, <2>0, <2>2, <2>3 DEF AppDue
      <3> QED
        BY <3>2, <2>4, <2>3, <1>0, ReleasedFrom
    <2>6. CASE b = a /\ up
      <3>1. AppDue(s, left, p)
        BY <2>6
      <3>2. Released(s, left, b)
        BY <3>1, <2>0, <2>2, <2>3 DEF AppDue
      <3> QED
        BY <3>2, <2>4, <2>3, <1>0, ReleasedFrom
    <2>7. CASE b = a /\ ~up
      <3>1. t.links[a] = "CONNECTING"
        BY <2>7, <2>3, <2>1, <1>0
      <3>2. Contains(<<>>, ADD(a))
        BY <3>1, <1>0, <2>0
      <3> QED
        BY <3>2, NoneContained
    <2> QED
      BY <2>5, <2>6, <2>7
  <1>5. ASSUME NEW p \in AppIds PROVE AppDue(t, left \o t.out, p)
    <2>1. ASSUME t.apps[p] # NoApp, t.apps[p].next # "NONE"
          PROVE  t.links[t.apps[p].addr] \in {"CONNECTING", "DISCONNECTING"}
      <3>1. CASE t.apps[p].addr = a
        BY <2>1, <3>1 DEF Reported
      <3>2. CASE t.apps[p].addr # a
        <4>1. s.apps[p] # NoApp /\ t.apps[p] = s.apps[p] /\ t.apps[p].addr = s.apps[p].addr
          BY <2>1, <3>2 DEF Reported
        <4>2. AppDue(s, left, p) /\ t.apps[p].addr \in Addr
          BY <4>1, <3>2, AddrOf DEF DueBut
        <4>3. s.links[s.apps[p].addr] \in {"CONNECTING", "DISCONNECTING"}
          BY <4>1, <4>2, <2>1 DEF AppDue
        <4> QED
          BY <4>1, <4>2, <4>3, <3>2, <1>0
      <3> QED
        BY <3>1, <3>2
    <2>2. t.cleaning /\ t.apps[p] # NoApp => t.apps[p].next = "NONE"
      BY <1>c
    <2> QED
      BY <2>1, <2>2, <1>4 DEF AppDue
  <1>6. HearsAgain(t, left \o t.out)
    <2>1. ASSUME t.cleaning
          PROVE  \E b \in Addr : t.links[b] # "NONE" /\ Released(t, left \o t.out, b)
      <3>1. PICK p \in AppIds : InUse(t, p)
        BY <2>1, <1>c
      <3>2. t.links[t.apps[p].addr] # "NONE" /\ t.apps[p].addr \in Addr
        BY <3>1, <1>0, InUseFacts
      <3> QED
        BY <3>1, <3>2, <1>4, <2>1
    <2> QED
      BY <2>1 DEF HearsAgain
  <1> QED
    BY <1>3, <1>5, <1>6, DueParts

\* Letting applications go that are not in use.
LEMMA NotifyDue ==
    ASSUME NEW s \in StackRec, NEW t, NEW q, Notified(s, t), AppsMatch(s), Due(s, q)
    PROVE  Due(t, q) /\ AppsMatch(t)
  <1>0. /\ \A b \in Addr : LinkDue(s, q, b)
        /\ \A p \in AppIds : AppDue(s, q, p)
    BY DueParts
  <1>n. /\ t \in StackRec /\ t.links = s.links /\ t.cm = s.cm
        /\ \A p \in AppIds : t.apps[p] = s.apps[p] \/ t.apps[p] = NoApp
        /\ t.cleaning => s.cleaning /\ \E p \in AppIds : InUse(t, p)
    BY DEF Notified
  <1>1. \A b \in Addr : LinkDue(t, q, b)
    BY <1>0, <1>n DEF LinkDue
  <1>2. ASSUME NEW p \in AppIds PROVE AppDue(t, q, p)
    <2>1. AppDue(s, q, p)
      BY <1>0
    <2> QED
      BY <2>1, <1>n DEF AppDue, InUse, Unused, Released
  <1>3. AppsMatch(t)
    BY <1>n DEF AppsMatch, InUse, Unused
  <1>4. HearsAgain(t, q)
    <2>1. ASSUME t.cleaning
          PROVE  \E b \in Addr : t.links[b] # "NONE" /\ Released(t, q, b)
      <3>1. PICK p \in AppIds : InUse(t, p)
        BY <2>1, <1>n
      <3>2. t.links[t.apps[p].addr] # "NONE" /\ t.apps[p].addr \in Addr /\ t.apps[p] # NoApp
        BY <3>1, <1>n, <1>3, InUseFacts
      <3>3. Released(t, q, t.apps[p].addr)
        BY <3>1, <3>2, <1>2, <2>1 DEF AppDue
      <3> QED
        BY <3>2, <3>3
    <2> QED
      BY <2>1 DEF HearsAgain
  <1> QED
    BY <1>1, <1>2, <1>3, <1>4, DueParts

-----------------------------------------------------------------------------
(* The tasks of CM.                                                        *)

Sound(s) == s \in StackRec /\ AppsMatch(s) /\ CmWell(s.cm) /\ TableTold(s)

\* A task that started with the work list q has left r and its posts.
Handled(s, t, q, r) ==
    /\ Sound(t) /\ t.out \in Seq(Task) /\ \A k \in 1 .. Len(t.out) : Quiet(t.out[k])
    /\ Roomy /\ s.bad = "NONE" /\ Due(s, q) => Due(t, r \o t.out)

\* The same links are there, and the modules have heard of the same ones.
CmKeeps(m, n) ==
    \A b \in Addr : (n[b].link = "NONE" <=> m[b].link = "NONE") /\ n[b].told = m[b].told

LEMMA CmFacts ==
    ASSUME NEW s \in StackRec, NEW a \in Addr
    PROVE  /\ s.cm \in [Addr -> CmLink] /\ s.cm[a] \in CmLink
           /\ s.cm[a].link \in {"NONE", "CONNECTED", "DISCONNECTING"}
           /\ s.cm[a].waits \in BOOLEAN /\ s.cm[a].told \in BOOLEAN
  <1>1. s.cm \in [Addr -> CmLink]
    BY StackFacts
  <1>2. s.cm[a] \in CmLink
    BY <1>1
  <1> QED
    BY <1>1, <1>2 DEF CmLink

\* CM's view of a becomes c.
LEMMA CmSet ==
    ASSUME NEW s \in StackRec, NEW a \in Addr, NEW c \in CmLink
    PROVE  LET t == [s EXCEPT !.cm = [s.cm EXCEPT ![a] = c]]
           IN  /\ t \in StackRec /\ t.apps = s.apps /\ t.links = s.links /\ t.cleaning = s.cleaning
               /\ t.out = s.out /\ t.bad = s.bad /\ t.cm[a] = c
               /\ \A b \in Addr : b # a => t.cm[b] = s.cm[b]
  <1>1. PICK m : m = [s.cm EXCEPT ![a] = c]
    OBVIOUS
  <1>2. m \in [Addr -> CmLink] /\ m[a] = c /\ \A b \in Addr : b # a => m[b] = s.cm[b]
    BY <1>1, StackFacts
  <1> QED
    BY <1>1, <1>2, NewCm

\* t is s but for CM's view of a, which is c.
CmIs(s, t, a, c) ==
    /\ t \in StackRec /\ t.apps = s.apps /\ t.links = s.links /\ t.cleaning = s.cleaning
    /\ t.out = s.out /\ t.bad = s.bad /\ t.cm[a] = c
    /\ \A b \in Addr : b # a => t.cm[b] = s.cm[b]
    /\ SameBut(s, t, a)
    /\ AppsMatch(s) => AppsMatch(t)

LEMMA CmSetSame ==
    ASSUME NEW s \in StackRec, NEW a \in Addr, NEW c \in CmLink
    PROVE  CmIs(s, [s EXCEPT !.cm = [s.cm EXCEPT ![a] = c]], a, c)
  <1>0. PICK t : t = [s EXCEPT !.cm = [s.cm EXCEPT ![a] = c]]
    OBVIOUS
  <1>1. /\ t \in StackRec /\ t.apps = s.apps /\ t.links = s.links /\ t.cleaning = s.cleaning
        /\ t.out = s.out /\ t.bad = s.bad /\ t.cm[a] = c
        /\ \A b \in Addr : b # a => t.cm[b] = s.cm[b]
    BY <1>0, CmSet
  <1>2. SameBut(s, t, a)
    BY <1>1 DEF SameBut
  <1>3. AppsMatch(s) => AppsMatch(t)
    BY <1>1 DEF AppsMatch, InUse, Unused
  <1>4. CmIs(s, t, a, c)
    BY <1>1, <1>2, <1>3 DEF CmIs
  <1> QED
    BY <1>0, <1>4

\* The stack with CM's view of a replaced by c.
CmTo(s, a, c) == [s EXCEPT !.cm = [s.cm EXCEPT ![a] = c]]

LEMMA CmToIs ==
    ASSUME NEW s \in StackRec, NEW a \in Addr, NEW c \in CmLink
    PROVE  CmIs(s, CmTo(s, a, c), a, c)
  BY CmSetSame DEF CmTo

\* What CM reports keeps the stack sound.
LEMMA ReportSound ==
    ASSUME NEW s \in StackRec, NEW a \in Addr, NEW up \in BOOLEAN, s.out \in Seq(Posts(a)),
           AppsMatch(s), CmWell(s.cm),
           \A b \in Addr : b # a /\ s.links[b] \in {"CONNECTED", "DISCONNECTING"} => s.cm[b].told,
           up => s.links[a] \in {"NONE", "CONNECTING"} /\ s.cm[a].told
    PROVE  LET t == LogicLinkCbk(s, a, up)
           IN  /\ Reported(s, t, a, up) /\ Sound(t) /\ t.cm = s.cm /\ t.bad = s.bad
               /\ t.out \in Seq(Posts(a))
               /\ t.out \in Seq(Task) /\ \A k \in 1 .. Len(t.out) : Quiet(t.out[k])
  <1>1. PICK t : t = LogicLinkCbk(s, a, up)
    OBVIOUS
  <1>2. Reported(s, t, a, up)
    BY <1>1, ReportedIs DEF Reportable
  <1>3. /\ t \in StackRec /\ t.cm = s.cm /\ t.bad = s.bad /\ AppsMatch(t) /\ t.out \in Seq(Posts(a))
        /\ \A b \in Addr : b # a => t.links[b] = s.links[b]
        /\ ~up => t.links[a] \in {"NONE", "CONNECTING"}
    BY <1>2 DEF Reported, LoopOut
  <1>4. TableTold(t)
    BY <1>3 DEF TableTold
  <1>5. t.out \in Seq(Task) /\ \A k \in 1 .. Len(t.out) : Quiet(t.out[k])
    BY <1>3, PostsAre
  <1> QED
    BY <1>1, <1>2, <1>3, <1>4, <1>5 DEF Sound

\* A task that does nothing, or lets applications go.
LEMMA StillHandled ==
    ASSUME NEW s, Sound(s), s.out = <<>>, NEW q, NEW r \in Seq(Task), NEW t,
           t = s \/ Notified(s, t), Roomy /\ s.bad = "NONE" /\ Due(s, q) => Due(s, r)
    PROVE  Handled(s, t, q, r) /\ CmKeeps(s.cm, t.cm)
  <1>0. s \in StackRec /\ AppsMatch(s) /\ CmWell(s.cm) /\ TableTold(s)
    BY DEF Sound
  <1>1. t \in StackRec /\ t.links = s.links /\ t.cm = s.cm /\ t.out = <<>>
    BY <1>0 DEF Notified
  <1>2. AppsMatch(t)
    BY <1>0, <1>1 DEF Notified, AppsMatch, InUse, Unused
  <1>3. Due(s, r) => Due(t, r)
    BY <1>0, NotifyDue
  <1>4. r \o t.out = r
    BY <1>1
  <1>5. Sound(t)
    BY <1>0, <1>1, <1>2 DEF Sound, TableTold
  <1>6. t.out \in Seq(Task) /\ \A k \in 1 .. Len(t.out) : Quiet(t.out[k])
    BY <1>1
  <1> QED
    BY <1>1, <1>3, <1>4, <1>5, <1>6 DEF Handled, CmKeeps

\* CM's view of a changes, and nothing else.
LEMMA CmHandled ==
    ASSUME NEW s, Sound(s), s.out = <<>>, NEW q, NEW r \in Seq(Task), NEW a \in Addr, NEW c \in CmLink,
           NEW t, t = CmTo(s, a, c),
           c.link = "NONE" => ~c.told, c.link = "CONNECTED" => ~c.waits,
           s.links[a] \in {"CONNECTED", "DISCONNECTING"} => c.told,
           \A b \in Addr : b # a => PassesOn(q, r, b),
           Roomy /\ s.bad = "NONE" /\ Due(s, q) =>
               LinkDue(t, r, a) /\ (Released(s, q, a) => Released(t, r, a))
    PROVE  Handled(s, t, q, r)
  <1>0. s \in StackRec /\ AppsMatch(s) /\ CmWell(s.cm) /\ TableTold(s)
    BY DEF Sound
  <1>s. CmIs(s, t, a, c)
    BY <1>0, CmToIs
  <1>1. /\ t \in StackRec /\ t.apps = s.apps /\ t.links = s.links /\ t.cleaning = s.cleaning
        /\ t.out = s.out /\ t.bad = s.bad /\ t.cm[a] = c
        /\ \A b \in Addr : b # a => t.cm[b] = s.cm[b]
        /\ SameBut(s, t, a) /\ AppsMatch(t)
    BY <1>0, <1>s DEF CmIs
  <1>2. CmWell(t.cm) /\ TableTold(t)
    BY <1>0, <1>1 DEF CmWell, TableTold
  <1>3. ASSUME Roomy, s.bad = "NONE", Due(s, q) PROVE Due(t, r)
    <2>0. /\ \A b \in Addr : LinkDue(s, q, b)
          /\ \A p \in AppIds : AppDue(s, q, p)
          /\ HearsAgain(s, q)
      BY <1>3, DueParts
    <2>1. ASSUME NEW b \in Addr, Released(s, q, b) PROVE Released(t, r, b)
      <3>1. CASE b = a
        BY <3>1, <2>1, <1>3
      <3>2. CASE b # a
        BY <3>2, <2>1, <1>1, ReleasedFrom
      <3> QED
        BY <3>1, <3>2
    <2>2. ASSUME NEW b \in Addr PROVE LinkDue(t, r, b)
      <3>1. CASE b = a
        BY <3>1, <1>3
      <3>2. CASE b # a
        BY <3>2, <2>0, <1>1, LinkDueFrom
      <3> QED
        BY <3>1, <3>2
    <2>3. ASSUME NEW p \in AppIds PROVE AppDue(t, r, p)
      <3>1. s.apps[p] # NoApp => s.apps[p].addr \in Addr
        BY <1>0, AddrOf
      <3>2. s.apps[p] # NoApp /\ Released(s, q, s.apps[p].addr) => Released(t, r, s.apps[p].addr)
        BY <3>1, <2>1
      <3> QED
        BY <2>0, <3>2, <1>1, AppDueFrom
    <2>4. HearsAgain(t, r)
      BY <2>0, <2>1, <1>1 DEF HearsAgain
    <2> QED
      BY <2>2, <2>3, <2>4, DueParts
  <1>o. t.out = <<>>
    BY <1>1
  <1>4. t.out \in Seq(Task) /\ \A k \in 1 .. Len(t.out) : Quiet(t.out[k])
    BY <1>o, NothingPosted
  <1>5. r \o t.out = r
    BY <1>1
  <1> QED
    BY <1>1, <1>2, <1>3, <1>4, <1>5 DEF Handled, Sound

PassesBut(q, r, a) == \A b \in Addr : b # a => PassesOn(q, r, b)

\* SSAP hears that a is not connected.
Drops(s, a) == LogicLinkCbk(s, a, FALSE)

\* A view of CM that goes with the report that there is no connection.
NotThere(c) ==
    /\ c.link = "NONE" => ~c.told
    /\ c.link = "CONNECTED" => ~c.waits /\ ~c.told

\* CM's view of a changes and CM reports that there is no connection.
LEMMA DropHandled ==
    ASSUME NEW s, Sound(s), s.out = <<>>, NEW q, NEW r \in Seq(Task), NEW a \in Addr, NEW c \in CmLink,
           NotThere(c), PassesBut(q, r, a)
    PROVE  /\ Handled(s, Drops(CmTo(s, a, c), a), q, r)
           /\ Drops(CmTo(s, a, c), a).cm = CmTo(s, a, c).cm
  <1>u. PICK u : u = CmTo(s, a, c)
    OBVIOUS
  <1>0. s \in StackRec /\ AppsMatch(s) /\ CmWell(s.cm) /\ TableTold(s)
    BY DEF Sound
  <1>s. CmIs(s, u, a, c)
    BY <1>0, <1>u, CmToIs
  <1>1. /\ u \in StackRec /\ u.apps = s.apps /\ u.links = s.links /\ u.cleaning = s.cleaning
        /\ u.out = s.out /\ u.bad = s.bad /\ u.cm[a] = c
        /\ \A b \in Addr : b # a => u.cm[b] = s.cm[b]
        /\ SameBut(s, u, a) /\ AppsMatch(u)
    BY <1>0, <1>s DEF CmIs
  <1>w. CmWell(u.cm)
    BY <1>0, <1>1 DEF CmWell, NotThere
  <1>o. u.out = <<>>
    BY <1>1
  <1>p. u.out \in Seq(Posts(a))
    BY <1>o, NothingPosted
  <1>2. \A b \in Addr : b # a /\ u.links[b] \in {"CONNECTED", "DISCONNECTING"} => u.cm[b].told
    BY <1>0, <1>1 DEF TableTold
  <1>3. PICK t : t = LogicLinkCbk(u, a, FALSE)
    OBVIOUS
  <1>4. /\ Reported(u, t, a, FALSE) /\ Sound(t) /\ t.cm = u.cm /\ t.bad = u.bad
        /\ t.out \in Seq(Task) /\ \A k \in 1 .. Len(t.out) : Quiet(t.out[k])
    BY <1>1, <1>2, <1>3, <1>w, <1>p, ReportSound
  <1>5. ASSUME Roomy, s.bad = "NONE", Due(s, q) PROVE Due(t, r \o t.out)
    <2>1. DueBut(u, r, a)
      BY <1>0, <1>1, <1>5, ButFrom DEF PassesBut
    <2>2. ~(u.cm[a].told /\ u.cm[a].link = "CONNECTED")
      BY <1>1 DEF NotThere
    <2>3. u.bad = "NONE" /\ u.out = <<>>
      BY <1>1, <1>5
    <2> QED
      BY <2>1, <2>2, <2>3, <1>1, <1>4, <1>5, ReportDue
  <1>6. Handled(s, t, q, r)
    BY <1>4, <1>5 DEF Handled
  <1> QED
    BY <1>3, <1>4, <1>6, <1>u DEF Drops

CmRec(l, w, d) == [link |-> l, waits |-> w, told |-> d]

LEMMA CmRecFacts ==
    ASSUME NEW l \in {"NONE", "CONNECTED", "DISCONNECTING"}, NEW w \in BOOLEAN, NEW d \in BOOLEAN
    PROVE  /\ CmRec(l, w, d) \in CmLink /\ CmRec(l, w, d).link = l
           /\ CmRec(l, w, d).waits = w /\ CmRec(l, w, d).told = d
  BY DEF CmRec, CmLink

LEMMA CmRecIdle ==
    ASSUME NEW l \in {"NONE", "CONNECTED", "DISCONNECTING"}, NEW d \in BOOLEAN
    PROVE  /\ CmRec(l, FALSE, d) \in CmLink /\ CmRec(l, FALSE, d).link = l
           /\ ~CmRec(l, FALSE, d).waits /\ CmRec(l, FALSE, d).told = d
  BY CmRecFacts

\* CM's link with a is gone.
Lost(s, a) == [s EXCEPT !.cm[a].link = "NONE", !.cm[a].told = FALSE]

LEMMA CmEdits ==
    ASSUME NEW s \in StackRec, NEW a \in Addr
    PROVE  /\ [s EXCEPT !.cm[a].waits = FALSE] = CmTo(s, a, CmRec(s.cm[a].link, FALSE, s.cm[a].told))
           /\ [s EXCEPT !.cm[a].waits = TRUE] = CmTo(s, a, CmRec(s.cm[a].link, TRUE, s.cm[a].told))
           /\ [s EXCEPT !.cm[a].told = TRUE] = CmTo(s, a, CmRec(s.cm[a].link, s.cm[a].waits, TRUE))
           /\ [s EXCEPT !.cm[a].link = "DISCONNECTING"]
                  = CmTo(s, a, CmRec("DISCONNECTING", s.cm[a].waits, s.cm[a].told))
           /\ Lost(s, a) = CmTo(s, a, CmRec("NONE", s.cm[a].waits, FALSE))
  <1>1. PICK c \in CmLink : c = s.cm[a]
    BY CmFacts
  <1>2. /\ \A w \in BOOLEAN : [c EXCEPT !.waits = w] = CmRec(c.link, w, c.told)
        /\ [c EXCEPT !.told = TRUE] = CmRec(c.link, c.waits, TRUE)
        /\ [c EXCEPT !.link = "DISCONNECTING"] = CmRec("DISCONNECTING", c.waits, c.told)
        /\ [[c EXCEPT !.link = "NONE"] EXCEPT !.told = FALSE] = CmRec("NONE", c.waits, FALSE)
    <2>1. \A w \in BOOLEAN : [c EXCEPT !.waits = w] = CmRec(c.link, w, c.told)
      BY DEF CmLink, CmRec
    <2>t. \A d \in BOOLEAN : [c EXCEPT !.told = d] = CmRec(c.link, c.waits, d)
      BY DEF CmLink, CmRec
    <2>2. [c EXCEPT !.told = TRUE] = CmRec(c.link, c.waits, TRUE)
      BY <2>t
    <2>3. [c EXCEPT !.link = "DISCONNECTING"] = CmRec("DISCONNECTING", c.waits, c.told)
      BY DEF CmLink, CmRec
    <2>m. [c EXCEPT !.link = "NONE"] = CmRec("NONE", c.waits, c.told)
      BY DEF CmLink, CmRec
    <2>n. PICK e : e = CmRec("NONE", c.waits, c.told)
      OBVIOUS
    <2>o. c.waits \in BOOLEAN /\ c.told \in BOOLEAN
      BY DEF CmLink
    <2>p. e \in CmLink /\ e.link = "NONE" /\ e.waits = c.waits
      BY <2>n, <2>o, CmRecFacts
    <2>e. \A d \in BOOLEAN : [e EXCEPT !.told = d] = CmRec(e.link, e.waits, d)
      BY <2>p DEF CmLink, CmRec
    <2>f. [e EXCEPT !.told = FALSE] = CmRec(e.link, e.waits, FALSE)
      BY <2>e
    <2>g. [e EXCEPT !.told = FALSE] = CmRec("NONE", c.waits, FALSE)
      BY <2>f, <2>p, Zenon
    <2>4. [[c EXCEPT !.link = "NONE"] EXCEPT !.told = FALSE] = CmRec("NONE", c.waits, FALSE)
      BY <2>g, <2>m, <2>n, Zenon
    <2> QED
      BY <2>1, <2>2, <2>3, <2>4
  <1>3. ASSUME NEW w \in BOOLEAN
        PROVE  [s EXCEPT !.cm[a].waits = w]
                   = CmTo(s, a, CmRec(c.link, w, c.told))
    BY <1>1, <1>2 DEF CmTo
  <1>4. [s EXCEPT !.cm[a].told = TRUE]
            = CmTo(s, a, CmRec(c.link, c.waits, TRUE))
    BY <1>1, <1>2 DEF CmTo
  <1>5. [s EXCEPT !.cm[a].link = "DISCONNECTING"]
            = CmTo(s, a, CmRec("DISCONNECTING", c.waits, c.told))
    BY <1>1, <1>2 DEF CmTo
  <1>6. Lost(s, a)
            = CmTo(s, a, CmRec("NONE", c.waits, FALSE))
    <2>1. PICK m : m = [s.cm EXCEPT ![a].link = "NONE", ![a].told = FALSE]
      OBVIOUS
    <2>2. m = [s.cm EXCEPT ![a] = CmRec("NONE", c.waits, FALSE)]
      BY <2>1, <1>1, <1>2, StackFacts
    <2>3. [s EXCEPT !.cm[a].link = "NONE", !.cm[a].told = FALSE] = [s EXCEPT !.cm = m]
      BY <2>1 DEF StackRec
    <2> QED
      BY <2>2, <2>3 DEF CmTo, Lost
  <1>7. /\ [s EXCEPT !.cm[a].waits = FALSE] = CmTo(s, a, CmRec(c.link, FALSE, c.told))
        /\ [s EXCEPT !.cm[a].waits = TRUE] = CmTo(s, a, CmRec(c.link, TRUE, c.told))
    BY <1>3
  <1> QED
    BY <1>1, <1>7, <1>4, <1>5, <1>6, Zenon

LEMMA CmKeepsTo ==
    ASSUME NEW s \in StackRec, NEW a \in Addr, NEW c \in CmLink, NEW t, t.cm = CmTo(s, a, c).cm,
           c.link = "NONE" <=> s.cm[a].link = "NONE", c.told = s.cm[a].told
    PROVE  CmKeeps(s.cm, t.cm)
  <1>1. PICK u : u = CmTo(s, a, c)
    OBVIOUS
  <1>2. u.cm[a] = c /\ \A b \in Addr : b # a => u.cm[b] = s.cm[b]
    BY <1>1, CmToIs DEF CmIs
  <1>3. t.cm = u.cm
    BY <1>1
  <1> QED
    BY <1>2, <1>3 DEF CmKeeps

\* What waits for a connection of a that CM knows of waits for the report.
LEMMA LinkDueThere ==
    ASSUME NEW s, NEW q, NEW a \in Addr, LinkDue(s, q, a), s.cm[a].link = "CONNECTED",
           s.links[a] = "CONNECTING"
    PROVE  ~s.cm[a].told
  BY DEF LinkDue

LEMMA AddPasses ==
    ASSUME NEW q \in Seq(Task), q # <<>>, NEW a \in Addr, Head(q) = ADD(a)
    PROVE  /\ \A b \in Addr : b # a => PassesOn(q, Tail(q), b)
           /\ Contains(q, REMOVE(a)) => Contains(Tail(q), REMOVE(a))
           /\ LastRemove(q, a) => LastRemove(Tail(q), a)
  <1>1. ASSUME NEW b \in Addr PROVE REMOVE(b) # ADD(a) /\ (b # a => ADD(b) # ADD(a))
    BY DEF ADD, REMOVE
  <1>2. ASSUME NEW b \in Addr, b # a PROVE PassesOn(q, Tail(q), b)
    BY <1>1, <1>2, PassesTail
  <1>3. Contains(q, REMOVE(a)) => Contains(Tail(q), REMOVE(a))
    BY <1>1, ContainsTail
  <1>4. LastRemove(q, a) => LastRemove(Tail(q), a)
    BY <1>1, LastRemoveTail
  <1> QED
    BY <1>2, <1>3, <1>4

\* CM pursues what waits for a connection of a.
Pursued(s, a) ==
    s.links[a] = "CONNECTING" => s.cm[a].waits \/ (s.cm[a].link # "NONE" /\ ~s.cm[a].told)

\* CM_DirectConnectAddInner.
LEMMA AddHandled ==
    ASSUME NEW s, Sound(s), s.out = <<>>, NEW a \in Addr, NEW q \in Seq(Task), q # <<>>,
           Head(q) = ADD(a)
    PROVE  Handled(s, CmAdd(s, a), q, Tail(q)) /\ CmKeeps(s.cm, CmAdd(s, a).cm)
  <1>0. s \in StackRec /\ AppsMatch(s) /\ CmWell(s.cm) /\ TableTold(s)
    BY DEF Sound
  <1>r. PICK r \in Seq(Task) : r = Tail(q)
    BY TailFacts
  <1>p. /\ \A b \in Addr : b # a => PassesOn(q, r, b)
        /\ Contains(q, REMOVE(a)) => Contains(r, REMOVE(a))
        /\ LastRemove(q, a) => LastRemove(r, a)
    BY <1>r, AddPasses
  <1>b. PassesBut(q, r, a)
    BY <1>p DEF PassesBut
  <1>c. /\ s.cm[a].link \in {"NONE", "CONNECTED", "DISCONNECTING"}
        /\ s.cm[a].waits \in BOOLEAN /\ s.cm[a].told \in BOOLEAN
    BY <1>0, CmFacts
  <1>w. /\ s.cm[a].link = "NONE" => ~s.cm[a].told
        /\ s.cm[a].link = "CONNECTED" => ~s.cm[a].waits
        /\ s.links[a] \in {"CONNECTED", "DISCONNECTING"} => s.cm[a].told
    BY <1>0 DEF CmWell, TableTold
  \* Nothing but the list changes, and CM waits or the link is there.
  <1>1. ASSUME Due(s, q), Pursued(s, a)
        PROVE  Due(s, r)
    <2>0. /\ \A b \in Addr : LinkDue(s, q, b)
          /\ \A p \in AppIds : AppDue(s, q, p)
          /\ HearsAgain(s, q)
      BY <1>1, DueParts
    <2>1. ASSUME NEW b \in Addr, Released(s, q, b) PROVE Released(s, r, b)
      BY <2>1, <1>p DEF Released, PassesOn
    <2>2. ASSUME NEW b \in Addr PROVE LinkDue(s, r, b)
      <3>0. LinkDue(s, q, b)
        BY <2>0
      <3>1. CASE b = a
        BY <3>0, <3>1, <1>1, <1>p DEF LinkDue, Pursued
      <3>2. CASE b # a
        BY <3>0, <3>2, <1>p, LinkDueFrom
      <3> QED
        BY <3>1, <3>2
    <2>3. ASSUME NEW p \in AppIds PROVE AppDue(s, r, p)
      <3>1. s.apps[p] # NoApp => s.apps[p].addr \in Addr
        BY <1>0, AddrOf
      <3>2. s.apps[p] # NoApp /\ Released(s, q, s.apps[p].addr) => Released(s, r, s.apps[p].addr)
        BY <3>1, <2>1
      <3> QED
        BY <2>0, <3>2, AppDueFrom
    <2>4. HearsAgain(s, r)
      BY <2>0, <2>1 DEF HearsAgain
    <2> QED
      BY <2>2, <2>3, <2>4, DueParts
  <1>2. CASE s.cm[a].link = "CONNECTED" \/ s.bad = "FULL"
    <2>1. CmAdd(s, a) = s
      BY <1>2 DEF CmAdd
    <2>2. Roomy /\ s.bad = "NONE" /\ Due(s, q) => Due(s, r)
      <3>1. SUFFICES ASSUME s.bad = "NONE", Due(s, q) PROVE Due(s, r)
        OBVIOUS
      <3>2. s.cm[a].link = "CONNECTED" /\ LinkDue(s, q, a)
        BY <1>2, <3>1, DueParts
      <3>3. Pursued(s, a)
        BY <3>2, LinkDueThere DEF Pursued
      <3> QED
        BY <3>1, <3>3, <1>1
    <2>3. Handled(s, s, q, r) /\ CmKeeps(s.cm, s.cm)
      BY <2>2, StillHandled
    <2> QED
      BY <2>1, <2>3, <1>r
  <1>3. CASE s.cm[a].link # "CONNECTED" /\ s.bad = "ADD"
    <2>1. PICK c : c = CmRec(s.cm[a].link, FALSE, s.cm[a].told)
      OBVIOUS
    <2>2. c \in CmLink /\ c.link = s.cm[a].link /\ ~c.waits /\ c.told = s.cm[a].told
      BY <2>1, <1>c, CmRecFacts
    <2>3. PICK u : u = CmTo(s, a, c)
      OBVIOUS
    <2>4. PICK t : t = Drops(u, a)
      OBVIOUS
    <2>5. CmAdd(s, a) = t
      <3>1. s.bad # "FULL"
        BY <1>3
      <3>2. [s EXCEPT !.cm[a].waits = FALSE] = u
        BY <1>0, <2>1, <2>3, CmEdits, Zenon
      <3> QED
        BY <1>3, <3>1, <3>2, <2>4 DEF CmAdd, Drops
    <2>6. Handled(s, t, q, r) /\ t.cm = u.cm
      <3>1. NotThere(c)
        BY <2>2, <1>3, <1>w DEF NotThere
      <3> QED
        BY <2>2, <2>3, <2>4, <3>1, <1>b, DropHandled
    <2>7. CmKeeps(s.cm, t.cm)
      BY <1>0, <2>2, <2>3, <2>6, CmKeepsTo
    <2> QED
      BY <2>5, <2>6, <2>7, <1>r
  <1>4. CASE s.cm[a].link # "CONNECTED" /\ s.bad # "FULL" /\ s.bad # "ADD" /\ s.cm[a].waits
    <2>1. CmAdd(s, a) = NotifyClientCleanUp(s)
      BY <1>4 DEF CmAdd
    <2>2. Notified(s, CmAdd(s, a))
      BY <1>0, <2>1, NotifyIs
    <2>3. Due(s, q) => Due(s, r)
      <3>1. Pursued(s, a)
        BY <1>4 DEF Pursued
      <3> QED
        BY <1>1, <3>1
    <2>4. Handled(s, CmAdd(s, a), q, r) /\ CmKeeps(s.cm, CmAdd(s, a).cm)
      BY <2>2, <2>3, StillHandled
    <2> QED
      BY <2>4, <1>r
  <1>5. CASE s.cm[a].link # "CONNECTED" /\ s.bad # "FULL" /\ s.bad # "ADD" /\ ~s.cm[a].waits
    <2>1. PICK c : c = CmRec(s.cm[a].link, TRUE, s.cm[a].told)
      OBVIOUS
    <2>2. c \in CmLink /\ c.link = s.cm[a].link /\ c.waits = TRUE /\ c.told = s.cm[a].told
      BY <2>1, <1>c, CmRecFacts, Zenon
    <2>3. PICK t : t = CmTo(s, a, c)
      OBVIOUS
    <2>4. CmAdd(s, a) = t
      <3>1. [s EXCEPT !.cm[a].waits = TRUE] = t
        BY <1>0, <2>1, <2>3, CmEdits, Zenon
      <3> QED
        BY <1>5, <3>1 DEF CmAdd
    <2>5. t.links = s.links /\ t.cm[a] = c
      BY <1>0, <2>2, <2>3, CmToIs DEF CmIs
    <2>6. ASSUME Due(s, q) PROVE LinkDue(t, r, a) /\ (Released(s, q, a) => Released(t, r, a))
      <3>1. LinkDue(s, q, a)
        BY <2>6, DueParts
      <3>2. LinkDue(t, r, a)
        BY <3>1, <2>2, <2>5, <1>p DEF LinkDue
      <3>3. Released(s, q, a) => Released(t, r, a)
        BY <2>2, <2>5, <1>p DEF Released
      <3> QED
        BY <3>2, <3>3
    <2>7. Handled(s, t, q, r)
      <3>2. c.link = "NONE" => ~c.told
        BY <2>2, <1>w
      <3>3. c.link # "CONNECTED"
        BY <2>2, <1>5
      <3>4. s.links[a] \in {"CONNECTED", "DISCONNECTING"} => c.told
        BY <2>2, <1>w
      <3> QED
        BY <3>2, <3>3, <3>4, <2>2, <2>3, <2>6, <1>p, CmHandled
    <2>8. CmKeeps(s.cm, t.cm)
      BY <1>0, <2>2, <2>3, CmKeepsTo
    <2> QED
      BY <2>4, <2>7, <2>8, <1>r
  <1> QED
    BY <1>2, <1>3, <1>4, <1>5

\* The request to release a may be gone from the work list.
Removing(q, r, a) ==
    /\ PassesBut(q, r, a)
    /\ Contains(q, ADD(a)) => Contains(r, ADD(a))
    /\ LastRemove(q, a) => LastRemove(r, a) \/ ~Contains(r, ADD(a))

LEMMA RemovingTail ==
    ASSUME NEW q \in Seq(Task), q # <<>>, NEW a \in Addr, Head(q) = REMOVE(a)
    PROVE  Removing(q, Tail(q), a)
  <1>1. ASSUME NEW b \in Addr PROVE ADD(b) # REMOVE(a) /\ (b # a => REMOVE(b) # REMOVE(a))
    BY DEF ADD, REMOVE
  <1>2. ASSUME NEW b \in Addr, b # a PROVE PassesOn(q, Tail(q), b)
    BY <1>1, <1>2, PassesTail
  <1>3. Contains(q, ADD(a)) => Contains(Tail(q), ADD(a))
    BY <1>1, ContainsTail
  <1>4. LastRemove(q, a) => LastRemove(Tail(q), a) \/ ~Contains(Tail(q), ADD(a))
    BY LastRemoveTail
  <1> QED
    BY <1>2, <1>3, <1>4 DEF Removing, PassesBut

LEMMA RemovingSame ==
    ASSUME NEW q, NEW a
    PROVE  Removing(q, q, a)
  BY DEF Removing, PassesBut, PassesOn

\* The stack is as it was; only a's requests left the work list.
LEMMA DueBesides ==
    ASSUME NEW s, Sound(s), NEW q, NEW r, NEW a \in Addr, Due(s, q), PassesBut(q, r, a),
           LinkDue(s, r, a), s.links[a] # "NONE" /\ Released(s, q, a) => Released(s, r, a)
    PROVE  Due(s, r)
  <1>s. s \in StackRec /\ AppsMatch(s)
    BY DEF Sound
  <1>0. /\ \A b \in Addr : LinkDue(s, q, b)
        /\ \A p \in AppIds : AppDue(s, q, p)
        /\ HearsAgain(s, q)
    BY DueParts
  <1>1. ASSUME NEW b \in Addr, s.links[b] # "NONE", Released(s, q, b) PROVE Released(s, r, b)
    <2>1. CASE b = a
      BY <1>1, <2>1
    <2>2. CASE b # a
      BY <1>1, <2>2, ReleasedFrom DEF PassesBut
    <2> QED
      BY <2>1, <2>2
  <1>2. ASSUME NEW b \in Addr PROVE LinkDue(s, r, b)
    <2>1. CASE b = a
      BY <2>1
    <2>2. CASE b # a
      BY <1>0, <2>2, LinkDueFrom DEF PassesBut
    <2> QED
      BY <2>1, <2>2
  <1>3. ASSUME NEW p \in AppIds PROVE AppDue(s, r, p)
    <2>0. AppDue(s, q, p)
      BY <1>0
    <2>1. ASSUME InUse(s, p), s.cleaning, s.apps[p] # NoApp PROVE Released(s, r, s.apps[p].addr)
      <3>1. s.apps[p].addr \in Addr /\ s.links[s.apps[p].addr] # "NONE"
        BY <1>s, <2>1, InUseFacts
      <3>2. Released(s, q, s.apps[p].addr)
        BY <2>0, <2>1 DEF AppDue
      <3> QED
        BY <3>1, <3>2, <1>1
    <2> QED
      BY <2>0, <2>1 DEF AppDue
  <1>4. HearsAgain(s, r)
    BY <1>0, <1>1 DEF HearsAgain
  <1> QED
    BY <1>2, <1>3, <1>4, DueParts

\* A release that fails is reported twice.
LEMMA TwiceHandled ==
    ASSUME NEW s, Sound(s), s.out = <<>>, NEW a \in Addr, NEW q, NEW r, s.bad = "RELEASE"
    PROVE  /\ Handled(s, Drops(Drops(s, a), a), q, r)
           /\ Drops(Drops(s, a), a).cm = s.cm
  <1>0. s \in StackRec /\ AppsMatch(s) /\ CmWell(s.cm) /\ TableTold(s)
    BY DEF Sound
  <1>1. s.out \in Seq(Posts(a))
    BY NothingPosted
  <1>2. PICK t : t = Drops(s, a)
    OBVIOUS
  <1>3. Sound(t) /\ t.cm = s.cm /\ t.out \in Seq(Posts(a))
    BY <1>0, <1>1, <1>2, ReportSound DEF Drops, TableTold
  <1>4. t \in StackRec /\ AppsMatch(t) /\ CmWell(t.cm) /\ TableTold(t)
    BY <1>3 DEF Sound
  <1>5. PICK u : u = Drops(t, a)
    OBVIOUS
  <1>6. /\ Sound(u) /\ u.cm = t.cm
        /\ u.out \in Seq(Task) /\ \A k \in 1 .. Len(u.out) : Quiet(u.out[k])
    BY <1>3, <1>4, <1>5, ReportSound DEF Drops, TableTold
  <1>7. Handled(s, u, q, r)
    BY <1>6 DEF Handled
  <1> QED
    BY <1>2, <1>3, <1>5, <1>6, <1>7

\* CM_DirectConnectRmvInner.
LEMMA RemoveHandled ==
    ASSUME NEW s, Sound(s), s.out = <<>>, NEW a \in Addr, NEW ow \in BOOLEAN, NEW q,
           NEW r \in Seq(Task), Removing(q, r, a)
    PROVE  Handled(s, CmRemove(s, a, ow), q, r) /\ CmKeeps(s.cm, CmRemove(s, a, ow).cm)
  <1>0. s \in StackRec /\ AppsMatch(s) /\ CmWell(s.cm) /\ TableTold(s)
    BY DEF Sound
  <1>p. PassesBut(q, r, a)
    BY DEF Removing
  <1>c. /\ s.cm[a].link \in {"NONE", "CONNECTED", "DISCONNECTING"}
        /\ s.cm[a].waits \in BOOLEAN /\ s.cm[a].told \in BOOLEAN
    BY <1>0, CmFacts
  <1>w. /\ s.cm[a].link = "NONE" => ~s.cm[a].told
        /\ s.cm[a].link = "CONNECTED" => ~s.cm[a].waits
        /\ s.links[a] \in {"CONNECTED", "DISCONNECTING"} => s.cm[a].told
    BY <1>0 DEF CmWell, TableTold
  <1>1. CASE s.cm[a].link = "CONNECTED" /\ s.bad = "RELEASE"
    <2>1. CmRemove(s, a, ow) = Drops(Drops(s, a), a)
      BY <1>1 DEF CmRemove, Drops
    <2>2. PICK t : t = Drops(Drops(s, a), a)
      OBVIOUS
    <2>3. Handled(s, t, q, r) /\ t.cm = s.cm
      BY <2>2, <1>1, TwiceHandled
    <2>4. CmKeeps(s.cm, t.cm)
      BY <2>3 DEF CmKeeps
    <2> QED
      BY <2>1, <2>2, <2>3, <2>4
  <1>2. CASE s.cm[a].link = "CONNECTED" /\ s.bad # "RELEASE"
    <2>1. PICK c : c = CmRec("DISCONNECTING", s.cm[a].waits, s.cm[a].told)
      OBVIOUS
    <2>2. c \in CmLink /\ c.link = "DISCONNECTING" /\ c.waits = s.cm[a].waits /\ c.told = s.cm[a].told
      BY <2>1, <1>c, CmRecFacts
    <2>3. PICK t : t = CmTo(s, a, c)
      OBVIOUS
    <2>4. CmRemove(s, a, ow) = t
      <3>1. [s EXCEPT !.cm[a].link = "DISCONNECTING"] = t
        BY <1>0, <2>1, <2>3, CmEdits, Zenon
      <3> QED
        BY <1>2, <3>1 DEF CmRemove
    <2>5. t.links = s.links /\ t.cm[a] = c
      BY <1>0, <2>2, <2>3, CmToIs DEF CmIs
    <2>6. ASSUME Due(s, q) PROVE LinkDue(t, r, a) /\ (Released(s, q, a) => Released(t, r, a))
      <3>1. LinkDue(s, q, a)
        BY <2>6, DueParts
      <3>2. LinkDue(t, r, a)
        BY <3>1, <2>2, <2>5, <1>2 DEF LinkDue, Removing
      <3>3. Released(t, r, a)
        BY <2>2, <2>5 DEF Released
      <3> QED
        BY <3>2, <3>3
    <2>7. Handled(s, t, q, r)
      <3>1. c.link # "NONE" /\ c.link # "CONNECTED"
        BY <2>2
      <3>2. s.links[a] \in {"CONNECTED", "DISCONNECTING"} => c.told
        BY <2>2, <1>w
      <3>3. \A b \in Addr : b # a => PassesOn(q, r, b)
        BY <1>p DEF PassesBut
      <3> QED
        BY <3>1, <3>2, <3>3, <2>2, <2>3, <2>6, CmHandled
    <2>8. CmKeeps(s.cm, t.cm)
      BY <1>0, <1>2, <2>2, <2>3, CmKeepsTo
    <2> QED
      BY <2>4, <2>7, <2>8
  <1>3. CASE s.cm[a].link = "DISCONNECTING"
    <2>1. CmRemove(s, a, ow) = NotifyClientCleanUp(s)
      BY <1>3 DEF CmRemove
    <2>2. Notified(s, CmRemove(s, a, ow))
      BY <1>0, <2>1, NotifyIs
    <2>3. ASSUME Due(s, q) PROVE Due(s, r)
      <3>1. LinkDue(s, q, a)
        BY <2>3, DueParts
      <3>2. LinkDue(s, r, a)
        BY <3>1, <1>3 DEF LinkDue, Removing
      <3>3. Released(s, r, a)
        BY <1>3 DEF Released
      <3> QED
        BY <2>3, <3>2, <3>3, <1>p, DueBesides
    <2>4. Handled(s, CmRemove(s, a, ow), q, r) /\ CmKeeps(s.cm, CmRemove(s, a, ow).cm)
      BY <2>2, <2>3, StillHandled
    <2> QED
      BY <2>4
  <1>4. CASE s.cm[a].link = "NONE" /\ ow /\ ~s.cm[a].waits
    <2>1. CmRemove(s, a, ow) = s
      BY <1>4 DEF CmRemove
    <2>2. ASSUME Due(s, q) PROVE Due(s, r)
      <3>1. LinkDue(s, q, a)
        BY <2>2, DueParts
      <3>2. s.links[a] = "CONNECTING" => Contains(q, ADD(a))
        BY <3>1, <1>4 DEF LinkDue
      <3>3. s.links[a] \in LinkStates
        BY <1>0, StackFacts
      <3>4. s.links[a] \in {"NONE", "CONNECTING"}
        BY <3>3, <1>w, <1>4 DEF LinkStates
      <3>5. LinkDue(s, r, a)
        BY <3>2, <3>4, <1>4 DEF LinkDue, Removing
      <3>6. s.links[a] # "NONE" /\ Released(s, q, a) => Released(s, r, a)
        BY <3>2, <3>4, <1>4 DEF Released, Removing
      <3> QED
        BY <2>2, <3>5, <3>6, <1>p, DueBesides
    <2>3. Handled(s, s, q, r) /\ CmKeeps(s.cm, s.cm)
      BY <2>2, StillHandled
    <2> QED
      BY <2>1, <2>3
  <1>5. CASE s.cm[a].link = "NONE" /\ ~(ow /\ ~s.cm[a].waits)
    <2>1. PICK c : c = CmRec(s.cm[a].link, FALSE, s.cm[a].told)
      OBVIOUS
    <2>2. c \in CmLink /\ c.link = s.cm[a].link /\ ~c.waits /\ c.told = s.cm[a].told
      BY <2>1, <1>c, CmRecIdle
    <2>3. PICK u : u = CmTo(s, a, c)
      OBVIOUS
    <2>4. PICK t : t = Drops(u, a)
      OBVIOUS
    <2>5. CmRemove(s, a, ow) = t
      <3>1. [s EXCEPT !.cm[a].waits = FALSE] = u
        BY <1>0, <2>1, <2>3, CmEdits, Zenon
      <3> QED
        BY <1>5, <3>1, <2>4 DEF CmRemove, Drops
    <2>6. Handled(s, t, q, r) /\ t.cm = u.cm
      <3>1. NotThere(c)
        BY <2>2, <1>5, <1>w DEF NotThere
      <3> QED
        BY <2>2, <2>3, <2>4, <3>1, <1>p, DropHandled
    <2>7. CmKeeps(s.cm, t.cm)
      BY <1>0, <2>2, <2>3, <2>6, CmKeepsTo
    <2> QED
      BY <2>5, <2>6, <2>7
  <1> QED
    BY <1>1, <1>2, <1>3, <1>4, <1>5, <1>c

LEMMA CmRecNew ==
    ASSUME NEW l \in {"NONE", "CONNECTED", "DISCONNECTING"}, NEW w \in BOOLEAN
    PROVE  /\ CmRec(l, w, FALSE) \in CmLink /\ CmRec(l, w, FALSE).link = l
           /\ CmRec(l, w, FALSE).waits = w /\ ~CmRec(l, w, FALSE).told
           /\ CmRec(l, w, TRUE) \in CmLink /\ CmRec(l, w, TRUE).link = l
           /\ CmRec(l, w, TRUE).waits = w /\ CmRec(l, w, TRUE).told
  BY CmRecFacts

PassesAll(q, r) == \A b \in Addr : PassesOn(q, r, b)

\* The tasks of CM that follow no request: the links that are there are now L, the modules
\* have heard of a link of a or not, of others as before.
Turned(m, n, a, there, told) ==
    \A b \in Addr : /\ n[b].link # "NONE" <=> IF b = a THEN there ELSE m[b].link # "NONE"
                    /\ n[b].told <=> IF b = a THEN told ELSE m[b].told

LEMMA TurnedTo ==
    ASSUME NEW s \in StackRec, NEW a \in Addr, NEW c \in CmLink, NEW t, t.cm = CmTo(s, a, c).cm
    PROVE  Turned(s.cm, t.cm, a, c.link # "NONE", c.told)
  <1>1. PICK u : u = CmTo(s, a, c)
    OBVIOUS
  <1>2. u.cm[a] = c /\ \A b \in Addr : b # a => u.cm[b] = s.cm[b]
    BY <1>1, CmToIs DEF CmIs
  <1>3. t.cm = u.cm
    BY <1>1
  <1> QED
    BY <1>2, <1>3 DEF Turned

\* CM_SleCreateConnectionProc.
LEMMA UpHandled ==
    ASSUME NEW s, Sound(s), s.out = <<>>, NEW a \in Addr, s.cm[a].link = "NONE", NEW q,
           NEW r \in Seq(Task), PassesAll(q, r)
    PROVE  Handled(s, CmUp(s, a), q, r) /\ Turned(s.cm, CmUp(s, a).cm, a, TRUE, FALSE)
  <1>0. s \in StackRec /\ AppsMatch(s) /\ CmWell(s.cm) /\ TableTold(s)
    BY DEF Sound
  <1>p. PassesOn(q, r, a) /\ \A b \in Addr : b # a => PassesOn(q, r, b)
    BY DEF PassesAll
  <1>w. ~s.cm[a].told /\ s.links[a] \notin {"CONNECTED", "DISCONNECTING"}
    BY <1>0 DEF CmWell, TableTold
  <1>1. PICK c : c = CmRec("CONNECTED", FALSE, FALSE)
    OBVIOUS
  <1>2. c \in CmLink /\ c.link = "CONNECTED" /\ ~c.waits /\ ~c.told
    <2>1. c \in CmLink /\ c.link = "CONNECTED" /\ ~c.waits
      BY <1>1, CmRecIdle
    <2>2. ~c.told
      BY <1>1, CmRecNew
    <2> QED
      BY <2>1, <2>2
  <1>3. PICK t : t = CmTo(s, a, c)
    OBVIOUS
  <1>4. CmUp(s, a) = t
    BY <1>1, <1>3 DEF CmUp, CmTo, CmRec
  <1>5. t.links = s.links /\ t.cm[a] = c
    BY <1>0, <1>2, <1>3, CmToIs DEF CmIs
  <1>6. LinkDue(t, r, a)
    BY <1>2, <1>5, <1>w DEF LinkDue
  <1>7. Released(s, q, a) => Released(t, r, a)
    BY <1>p DEF Released, PassesOn
  <1>8. Handled(s, t, q, r)
    BY <1>2, <1>3, <1>6, <1>7, <1>p, <1>w, CmHandled
  <1>9. Turned(s.cm, t.cm, a, c.link # "NONE", c.told)
    BY <1>0, <1>2, <1>3, TurnedTo
  <1>10. Turned(s.cm, t.cm, a, TRUE, FALSE)
    BY <1>9, <1>2 DEF Turned
  <1> QED
    BY <1>4, <1>8, <1>10

\* CM_SleSetDataLenProc.
LEMMA ReadyHandled ==
    ASSUME NEW s, Sound(s), s.out = <<>>, NEW a \in Addr, s.cm[a].link # "NONE", ~s.cm[a].told,
           NEW q, NEW r \in Seq(Task), PassesAll(q, r)
    PROVE  Handled(s, CmReady(s, a), q, r) /\ Turned(s.cm, CmReady(s, a).cm, a, TRUE, TRUE)
  <1>0. s \in StackRec /\ AppsMatch(s) /\ CmWell(s.cm) /\ TableTold(s)
    BY DEF Sound
  <1>p. \A b \in Addr : PassesOn(q, r, b)
    BY DEF PassesAll
  <1>c. /\ s.cm[a].link \in {"NONE", "CONNECTED", "DISCONNECTING"} /\ s.cm[a].waits \in BOOLEAN
    BY <1>0, CmFacts
  <1>w. s.cm[a].link = "CONNECTED" => ~s.cm[a].waits
    BY <1>0 DEF CmWell
  <1>l. s.links[a] \in {"NONE", "CONNECTING"}
    <2>1. s.links[a] \in LinkStates
      BY <1>0, StackFacts
    <2>2. s.links[a] \notin {"CONNECTED", "DISCONNECTING"}
      BY <1>0 DEF TableTold
    <2> QED
      BY <2>1, <2>2 DEF LinkStates
  <1>1. PICK c : c = CmRec(s.cm[a].link, s.cm[a].waits, TRUE)
    OBVIOUS
  <1>2. c \in CmLink /\ c.link = s.cm[a].link /\ c.waits = s.cm[a].waits /\ c.told
    BY <1>1, <1>c, CmRecNew
  <1>3. PICK u : u = CmTo(s, a, c)
    OBVIOUS
  <1>4. CmIs(s, u, a, c)
    BY <1>0, <1>2, <1>3, CmToIs
  <1>5. /\ u \in StackRec /\ u.apps = s.apps /\ u.links = s.links /\ u.cleaning = s.cleaning
        /\ u.out = <<>> /\ u.bad = s.bad /\ u.cm[a] = c
        /\ \A b \in Addr : b # a => u.cm[b] = s.cm[b]
        /\ SameBut(s, u, a) /\ AppsMatch(u)
    BY <1>0, <1>4 DEF CmIs
  <1>6. u.out \in Seq(Posts(a))
    BY <1>5, NothingPosted
  <1>7. CmWell(u.cm)
    BY <1>0, <1>2, <1>5, <1>w DEF CmWell
  <1>8. \A b \in Addr : b # a /\ u.links[b] \in {"CONNECTED", "DISCONNECTING"} => u.cm[b].told
    BY <1>0, <1>5 DEF TableTold
  <1>9. u.links[a] \in {"NONE", "CONNECTING"} /\ u.cm[a].told
    BY <1>l, <1>2, <1>5
  <1>10. PICK t : t = LogicLinkCbk(u, a, TRUE)
    OBVIOUS
  <1>11. /\ Reported(u, t, a, TRUE) /\ Sound(t) /\ t.cm = u.cm
         /\ t.out \in Seq(Task) /\ \A k \in 1 .. Len(t.out) : Quiet(t.out[k])
    BY <1>5, <1>6, <1>7, <1>8, <1>9, <1>10, ReportSound
  <1>12. CmReady(s, a) = t
    <2>1. [s EXCEPT !.cm[a].told = TRUE] = u
      BY <1>0, <1>1, <1>3, CmEdits, Zenon
    <2> QED
      BY <2>1, <1>10 DEF CmReady
  <1>13. ASSUME Roomy, s.bad = "NONE", Due(s, q) PROVE Due(t, r \o t.out)
    <2>1. DueBut(u, r, a)
      BY <1>0, <1>5, <1>13, <1>p, ButFrom
    <2>2. \A p \in AppIds : AppDue(s, q, p)
      BY <1>13, DueParts
    <2>3. ASSUME NEW b \in Addr, Released(s, q, b) PROVE Released(u, r, b)
      <3>1. CASE b = a
        BY <3>1, <2>3, <1>p, <1>2, <1>5 DEF Released, PassesOn
      <3>2. CASE b # a
        BY <3>2, <2>3, <1>p, <1>5, ReleasedFrom
      <3> QED
        BY <3>1, <3>2
    <2>4. ASSUME NEW p \in AppIds PROVE AppDue(u, r, p)
      <3>1. s.apps[p] # NoApp => s.apps[p].addr \in Addr
        BY <1>0, AddrOf
      <3>2. s.apps[p] # NoApp /\ Released(s, q, s.apps[p].addr) => Released(u, r, s.apps[p].addr)
        BY <3>1, <2>3
      <3> QED
        BY <2>2, <3>2, <1>5, AppDueFrom
    <2>5. u.bad = "NONE"
      BY <1>5, <1>13
    <2> QED
      BY <2>1, <2>4, <2>5, <1>5, <1>11, <1>13, ReportDue
  <1>14. Handled(s, t, q, r)
    BY <1>11, <1>13 DEF Handled
  <1>15. Turned(s.cm, t.cm, a, c.link # "NONE", c.told)
    BY <1>0, <1>2, <1>3, <1>11, TurnedTo
  <1>16. Turned(s.cm, t.cm, a, TRUE, TRUE)
    BY <1>15, <1>2 DEF Turned
  <1> QED
    BY <1>12, <1>14, <1>16

\* CM_SleDisconnectProc.
LEMMA DownHandled ==
    ASSUME NEW s, Sound(s), s.out = <<>>, NEW a \in Addr, NEW q, NEW r \in Seq(Task), PassesAll(q, r)
    PROVE  Handled(s, CmDown(s, a), q, r) /\ Turned(s.cm, CmDown(s, a).cm, a, FALSE, FALSE)
  <1>0. s \in StackRec
    BY DEF Sound
  <1>p. PassesBut(q, r, a)
    BY DEF PassesAll, PassesBut
  <1>c. s.cm[a].waits \in BOOLEAN
    BY <1>0, CmFacts
  <1>1. PICK c : c = CmRec("NONE", s.cm[a].waits, FALSE)
    OBVIOUS
  <1>2. c \in CmLink /\ c.link = "NONE" /\ ~c.told
    BY <1>1, <1>c, CmRecNew
  <1>3. PICK u : u = CmTo(s, a, c)
    OBVIOUS
  <1>4. PICK t : t = Drops(u, a)
    OBVIOUS
  <1>5. CmDown(s, a) = t
    <2>1. Lost(s, a) = u
      BY <1>0, <1>1, <1>3, CmEdits, Zenon
    <2>2. CmDown(s, a) = Drops(Lost(s, a), a)
      BY DEF CmDown, Drops, Lost
    <2> QED
      BY <2>1, <2>2, <1>4
  <1>6. NotThere(c)
    BY <1>2 DEF NotThere
  <1>7. Handled(s, t, q, r) /\ t.cm = u.cm
    BY <1>2, <1>3, <1>4, <1>6, <1>p, DropHandled
  <1>8. Turned(s.cm, t.cm, a, c.link # "NONE", c.told)
    BY <1>0, <1>2, <1>3, <1>7, TurnedTo
  <1>9. Turned(s.cm, t.cm, a, FALSE, FALSE)
    BY <1>8, <1>2 DEF Turned
  <1> QED
    BY <1>5, <1>7, <1>9

\* CM_DirectConnTimeoutCbkInner.
LEMMA TimeoutHandled ==
    ASSUME NEW s, Sound(s), s.out = <<>>, NEW a \in Addr, s.cm[a].waits, NEW q \in Seq(Task)
    PROVE  Handled(s, CmTimeout(s, a), q, q) /\ CmKeeps(s.cm, CmTimeout(s, a).cm)
  <1>0. s \in StackRec /\ CmWell(s.cm)
    BY DEF Sound
  <1>p. PassesBut(q, q, a)
    BY DEF PassesBut, PassesOn
  <1>c. /\ s.cm[a].link \in {"NONE", "CONNECTED", "DISCONNECTING"} /\ s.cm[a].told \in BOOLEAN
    BY <1>0, CmFacts
  <1>w. (s.cm[a].link = "NONE" => ~s.cm[a].told) /\ s.cm[a].link # "CONNECTED"
    BY <1>0 DEF CmWell
  <1>1. PICK c : c = CmRec(s.cm[a].link, FALSE, s.cm[a].told)
    OBVIOUS
  <1>2. c \in CmLink /\ c.link = s.cm[a].link /\ ~c.waits /\ c.told = s.cm[a].told
    BY <1>1, <1>c, CmRecIdle
  <1>3. PICK u : u = CmTo(s, a, c)
    OBVIOUS
  <1>4. PICK t : t = Drops(u, a)
    OBVIOUS
  <1>5. CmTimeout(s, a) = t
    <2>1. [s EXCEPT !.cm[a].waits = FALSE] = u
      BY <1>0, <1>1, <1>3, CmEdits, Zenon
    <2> QED
      BY <2>1, <1>4 DEF CmTimeout, Drops
  <1>6. NotThere(c)
    BY <1>2, <1>w DEF NotThere
  <1>7. Handled(s, t, q, q) /\ t.cm = u.cm
    BY <1>2, <1>3, <1>4, <1>6, <1>p, DropHandled
  <1>8. CmKeeps(s.cm, t.cm)
    BY <1>0, <1>2, <1>3, <1>7, CmKeepsTo
  <1> QED
    BY <1>5, <1>7, <1>8

-----------------------------------------------------------------------------
(* The calls of the services.                                              *)

\* What a call may do to its application, to the link and to the posts.
Moves(s, p, a, st, nx, lk, o) ==
    /\ st \notin {"IDLE", "DISCONNECTED"} => st = lk
    /\ nx # "NONE" => \/ lk \in {"CONNECTING", "DISCONNECTING"}
                      \/ nx = s.apps[p].next /\ lk = s.links[a]
    /\ \/ lk = s.links[a] /\ o = <<>>
       \/ lk = "CONNECTING" /\ s.links[a] = "NONE" /\ o = <<ADD(a)>>
       \/ /\ lk = "DISCONNECTING" /\ s.links[a] = "CONNECTED" /\ o = <<REMOVE(a)>>
          /\ DisconnectCmLinkCheck(s, p)
       \/ /\ lk = "NONE" /\ s.links[a] = "CONNECTED" /\ o = <<>> /\ s.bad = "POST"
          /\ DisconnectCmLinkCheck(s, p)

LEMMA OnePost ==
    ASSUME NEW a \in Addr, NEW x \in Posts(a)
    PROVE  <<x>> \in Seq(Posts(a)) /\ Contains(<<x>>, x)
  BY DEF Contains

LEMMA CallHandled ==
    ASSUME NEW s, Sound(s), s.out = <<>>, NEW p \in AppIds, s.apps[p] \in RegParam, ~s.cleaning,
           NEW t, NEW st, NEW nx, NEW lk, NEW o, Result(s, t, p, st, nx, lk, o),
           Moves(s, p, s.apps[p].addr, st, nx, lk, o), NEW r \in Seq(Task)
    PROVE  Handled(s, t, r, r) /\ t.cm = s.cm
  <1>0. s \in StackRec /\ AppsMatch(s) /\ CmWell(s.cm) /\ TableTold(s)
    BY DEF Sound
  <1>a. PICK a \in Addr : a = s.apps[p].addr
    BY ParamFacts
  <1>m. Moves(s, p, a, st, nx, lk, o)
    BY <1>a
  <1>t. /\ t \in StackRec /\ t.apps[p] = With(s.apps[p], st, nx)
        /\ t.apps[p].addr = a /\ t.apps[p].state = st /\ t.apps[p].next = nx
        /\ \A q \in AppIds : q # p => t.apps[q] = s.apps[q]
        /\ t.links[a] = lk
        /\ \A b \in Addr : b # a => t.links[b] = s.links[b]
        /\ t.cleaning = s.cleaning /\ t.cm = s.cm /\ t.bad = s.bad /\ t.out = o
    BY <1>0, <1>a, ResultFacts
  <1>o. o \in Seq(Posts(a))
    <2>1. ADD(a) \in Posts(a) /\ REMOVE(a) \in Posts(a)
      BY DEF Posts
    <2>2. <<ADD(a)>> \in Seq(Posts(a)) /\ <<REMOVE(a)>> \in Seq(Posts(a)) /\ <<>> \in Seq(Posts(a))
      BY <2>1
    <2> QED
      BY <2>2, <1>m, Zenon DEF Moves
  <1>1. /\ t.out \in Seq(Task) /\ \A k \in 1 .. Len(t.out) : Quiet(t.out[k])
        /\ \A b \in Addr : b # a => ~Contains(t.out, ADD(b)) /\ ~Contains(t.out, REMOVE(b))
    BY <1>o, <1>t, PostsAre
  \* Other applications of the address are not in use, or the link stays.
  <1>s. ASSUME NEW q \in AppIds, q # p, InUse(s, q), s.apps[q].addr = a
        PROVE  lk = s.links[a]
    <2>1. s.links[a] = s.apps[q].state /\ s.links[a] # "NONE" /\ s.apps[q] # NoApp
      BY <1>0, <1>s, InUseFacts
    <2>2. CASE s.links[a] = "CONNECTED" /\ DisconnectCmLinkCheck(s, p)
      <3>1. q \in AppsOf(s, s.apps[p].addr) \ {p}
        BY <2>1, <1>s, <1>a DEF AppsOf
      <3>2. s.apps[q].state # "CONNECTED"
        BY <3>1, <2>2 DEF DisconnectCmLinkCheck
      <3> QED
        BY <2>1, <2>2, <3>2
    <2> QED
      BY <2>1, <2>2, <1>m DEF Moves
  <1>2. AppsMatch(t)
    <2> SUFFICES ASSUME NEW q \in AppIds, InUse(t, q)
                 PROVE  t.apps[q].state = t.links[t.apps[q].addr]
      BY DEF AppsMatch
    <2>1. CASE q = p
      <3>1. st \notin {"IDLE", "DISCONNECTED"}
        BY <2>1, <1>t DEF InUse, Unused
      <3> QED
        BY <3>1, <2>1, <1>t, <1>m DEF Moves
    <2>2. CASE q # p
      <3>1. t.apps[q] = s.apps[q] /\ InUse(s, q)
        BY <2>2, <1>t DEF InUse, Unused
      <3>2. s.apps[q].addr \in Addr /\ s.links[s.apps[q].addr] = s.apps[q].state
        BY <3>1, <1>0, InUseFacts
      <3>3. CASE s.apps[q].addr = a
        <4>1. lk = s.links[a]
          BY <3>1, <3>3, <2>2, <1>s
        <4> QED
          BY <4>1, <3>1, <3>2, <3>3, <1>t
      <3>4. CASE s.apps[q].addr # a
        BY <3>1, <3>2, <3>4, <1>t
      <3> QED
        BY <3>3, <3>4
    <2> QED
      BY <2>1, <2>2
  <1>3. TableTold(t)
    <2> SUFFICES ASSUME NEW b \in Addr, t.links[b] \in {"CONNECTED", "DISCONNECTING"}
                 PROVE  t.cm[b].told
      BY DEF TableTold
    <2>1. CASE b # a
      BY <2>1, <1>t, <1>0 DEF TableTold
    <2>2. CASE b = a
      <3>1. s.links[a] \in {"CONNECTED", "DISCONNECTING"}
        BY <2>2, <1>t, <1>m DEF Moves
      <3> QED
        BY <2>2, <3>1, <1>t, <1>0 DEF TableTold
    <2> QED
      BY <2>1, <2>2
  <1>4. ASSUME Roomy, s.bad = "NONE", Due(s, r) PROVE Due(t, r \o t.out)
    <2>0. /\ \A b \in Addr : LinkDue(s, r, b)
          /\ \A q \in AppIds : AppDue(s, r, q)
      BY <1>4, DueParts
    <2>1. ASSUME NEW b \in Addr PROVE LinkDue(t, r \o t.out, b)
      <3>0. LinkDue(s, r, b)
        BY <2>0
      <3>1. CASE b # a
        <4>1. PassesOn(r, r \o t.out, b)
          BY <3>1, <1>1, PassesConcat
        <4> QED
          BY <3>0, <3>1, <4>1, <1>t, LinkDueFrom
      <3>2. CASE b = a /\ lk = s.links[a] /\ o = <<>>
        <4>1. r \o t.out = r
          BY <3>2, <1>t
        <4> QED
          BY <3>0, <3>2, <4>1, <1>t DEF LinkDue
      <3>3. CASE b = a /\ lk = "CONNECTING" /\ s.links[a] = "NONE" /\ o = <<ADD(a)>>
        <4>1. Contains(t.out, ADD(a))
          BY <3>3, <1>t, OnePost DEF Posts
        <4>2. Contains(r \o t.out, ADD(a))
          BY <4>1, <1>1, ContainsConcat
        <4> QED
          BY <3>0, <3>3, <4>2, <1>t DEF LinkDue
      <3>4. CASE b = a /\ lk = "DISCONNECTING" /\ o = <<REMOVE(a)>>
        <4>1. Contains(t.out, REMOVE(a))
          BY <3>4, <1>t, OnePost DEF Posts
        <4>2. Contains(r \o t.out, REMOVE(a))
          BY <4>1, <1>1, ContainsConcat
        <4> QED
          BY <3>4, <4>2, <1>t DEF LinkDue
      <3> QED
        BY <3>1, <3>2, <3>3, <3>4, <1>4, <1>m DEF Moves
    <2>2. ASSUME NEW q \in AppIds PROVE AppDue(t, r \o t.out, q)
      <3>0. AppDue(s, r, q)
        BY <2>0
      <3>1. ASSUME t.apps[q] # NoApp, t.apps[q].next # "NONE"
            PROVE  t.links[t.apps[q].addr] \in {"CONNECTING", "DISCONNECTING"}
        <4>1. CASE q = p
          <5>1. s.apps[p] # NoApp
            BY ParamFacts
          <5> QED
            BY <3>0, <3>1, <4>1, <5>1, <1>t, <1>a, <1>m DEF Moves, AppDue
        <4>2. CASE q # p
          <5>1. t.apps[q] = s.apps[q] /\ s.apps[q] # NoApp
            BY <4>2, <3>1, <1>t
          <5>2. s.links[s.apps[q].addr] \in {"CONNECTING", "DISCONNECTING"} /\ s.apps[q].addr \in Addr
            BY <5>1, <3>0, <3>1, <1>0, AddrOf DEF AppDue
          <5>3. CASE s.apps[q].addr # a
            BY <5>1, <5>2, <5>3, <1>t
          <5>4. CASE s.apps[q].addr = a
            <6>1. lk = s.links[a]
              BY <5>2, <5>4, <1>m DEF Moves
            <6> QED
              BY <6>1, <5>1, <5>2, <5>4, <1>t
          <5> QED
            BY <5>3, <5>4
        <4> QED
          BY <4>1, <4>2
      <3>2. ~t.cleaning
        BY <1>t
      <3> QED
        BY <3>1, <3>2 DEF AppDue
    <2>3. HearsAgain(t, r \o t.out)
      BY <1>t DEF HearsAgain
    <2> QED
      BY <2>1, <2>2, <2>3, DueParts
  <1> QED
    BY <1>0, <1>1, <1>2, <1>3, <1>4, <1>t DEF Handled, Sound

LEMMA IdleMoves ==
    ASSUME NEW s, Sound(s), s.out = <<>>, NEW p \in AppIds, s.apps[p] \in RegParam,
           s.apps[p].state \in {"IDLE", "DISCONNECTED"}, NEW t, IdleConnect(s, t, p)
    PROVE  \E st, nx, lk, o : /\ Result(s, t, p, st, nx, lk, o)
                              /\ Moves(s, p, s.apps[p].addr, st, nx, lk, o)
  <1>a. PICK a : a = s.apps[p].addr
    OBVIOUS
  <1>1. CASE s.links[a] = "DISCONNECTING" /\ Result(s, t, p, s.apps[p].state, "CONNECT", "DISCONNECTING", <<>>)
    <2>1. Moves(s, p, a, s.apps[p].state, "CONNECT", "DISCONNECTING", <<>>)
      BY <1>1 DEF Moves
    <2> QED
      BY <1>1, <2>1, <1>a
  <1>2. CASE s.links[a] = "NONE" /\ Result(s, t, p, "CONNECTING", "NONE", "CONNECTING", <<ADD(a)>>)
    <2>1. Moves(s, p, a, "CONNECTING", "NONE", "CONNECTING", <<ADD(a)>>)
      BY <1>2 DEF Moves
    <2> QED
      BY <1>2, <2>1, <1>a
  <1>3. CASE s.links[a] = "NONE" /\ Result(s, t, p, "DISCONNECTED", "NONE", "NONE", <<>>)
    <2>1. Moves(s, p, a, "DISCONNECTED", "NONE", "NONE", <<>>)
      BY <1>3 DEF Moves
    <2> QED
      BY <1>3, <2>1, <1>a
  <1>4. CASE s.links[a] \in {"CONNECTING", "CONNECTED"} /\ Result(s, t, p, s.links[a], "NONE", s.links[a], <<>>)
    <2>1. Moves(s, p, a, s.links[a], "NONE", s.links[a], <<>>)
      BY <1>4 DEF Moves
    <2> QED
      BY <1>4, <2>1, <1>a
  <1>5. Append(s.out, ADD(a)) = <<ADD(a)>>
    OBVIOUS
  <1> QED
    BY <1>1, <1>2, <1>3, <1>4, <1>5, <1>a DEF IdleConnect

LEMMA LeaveMoves ==
    ASSUME NEW s, Sound(s), s.out = <<>>, NEW p \in AppIds, s.apps[p] \in RegParam,
           s.links[s.apps[p].addr] = "CONNECTED", NEW t, Leave(s, t, p)
    PROVE  \E st, nx, lk, o : /\ Result(s, t, p, st, nx, lk, o)
                              /\ Moves(s, p, s.apps[p].addr, st, nx, lk, o)
  <1>a. PICK a : a = s.apps[p].addr
    OBVIOUS
  <1>1. CASE DisconnectCmLinkCheck(s, p)
             /\ Result(s, t, p, "DISCONNECTING", "NONE", "DISCONNECTING", <<REMOVE(a)>>)
    <2>1. Moves(s, p, a, "DISCONNECTING", "NONE", "DISCONNECTING", <<REMOVE(a)>>)
      BY <1>1, <1>a DEF Moves
    <2> QED
      BY <1>1, <2>1, <1>a
  <1>2. CASE DisconnectCmLinkCheck(s, p) /\ s.bad = "POST"
             /\ Result(s, t, p, "DISCONNECTED", "NONE", "NONE", <<>>)
    <2>1. Moves(s, p, a, "DISCONNECTED", "NONE", "NONE", <<>>)
      BY <1>2, <1>a DEF Moves
    <2> QED
      BY <1>2, <2>1, <1>a
  <1>3. CASE Result(s, t, p, "DISCONNECTED", "NONE", "CONNECTED", <<>>)
    <2>1. Moves(s, p, a, "DISCONNECTED", "NONE", "CONNECTED", <<>>)
      BY <1>a DEF Moves
    <2> QED
      BY <1>3, <2>1, <1>a
  <1>5. Append(s.out, REMOVE(a)) = <<REMOVE(a)>>
    OBVIOUS
  <1> QED
    BY <1>1, <1>2, <1>3, <1>5, <1>a DEF Leave

\* A call that only keeps an operation or drops the one that was kept.
LEMMA KeepMoves ==
    ASSUME NEW s, Sound(s), s.out = <<>>, NEW p \in AppIds, s.apps[p] \in RegParam, NEW t, NEW nx,
           Result(s, t, p, s.apps[p].state, nx, s.links[s.apps[p].addr], s.out),
           \/ nx \in {"NONE", s.apps[p].next}
           \/ s.apps[p].state \in {"CONNECTING", "DISCONNECTING"}
    PROVE  \E st, n, lk, o : /\ Result(s, t, p, st, n, lk, o)
                             /\ Moves(s, p, s.apps[p].addr, st, n, lk, o)
  <1>0. s \in StackRec /\ AppsMatch(s)
    BY DEF Sound
  <1>a. PICK a : a = s.apps[p].addr
    OBVIOUS
  <1>1. s.apps[p].state \notin {"IDLE", "DISCONNECTED"} => s.apps[p].state = s.links[a]
    <2>1. s.apps[p] # NoApp
      BY ParamFacts
    <2> QED
      BY <2>1, <1>0, <1>a DEF AppsMatch, InUse, Unused
  <1>2. Moves(s, p, a, s.apps[p].state, nx, s.links[a], <<>>)
    BY <1>1 DEF Moves
  <1> QED
    BY <1>2, <1>a

LEMMA ConnectMoves ==
    ASSUME NEW s, Sound(s), s.out = <<>>, NEW p \in AppIds, s.apps[p] \in RegParam
    PROVE  \E st, nx, lk, o : /\ Result(s, UserConnect(s, p), p, st, nx, lk, o)
                              /\ Moves(s, p, s.apps[p].addr, st, nx, lk, o)
  <1>0. s \in StackRec
    BY DEF Sound
  <1>1. PICK t : t = UserConnect(s, p)
    OBVIOUS
  <1>2. Connects(s, t, p)
    BY <1>0, <1>1, ConnectsIs
  <1>3. CASE s.apps[p].state \in {"IDLE", "DISCONNECTED"} /\ IdleConnect(s, t, p)
    BY <1>1, <1>3, IdleMoves
  <1>4. CASE /\ s.apps[p].state \in {"CONNECTING", "DISCONNECTING"}
             /\ \E nx : Result(s, t, p, s.apps[p].state, nx, s.links[s.apps[p].addr], s.out)
    <2>1. PICK nx : Result(s, t, p, s.apps[p].state, nx, s.links[s.apps[p].addr], s.out)
      BY <1>4
    <2> QED
      BY <1>1, <1>4, <2>1, KeepMoves
  <1>5. CASE Result(s, t, p, s.apps[p].state, s.apps[p].next, s.links[s.apps[p].addr], s.out)
    BY <1>1, <1>5, KeepMoves
  <1> QED
    BY <1>2, <1>3, <1>4, <1>5 DEF Connects

LEMMA DisconnectMoves ==
    ASSUME NEW s, Sound(s), s.out = <<>>, NEW p \in AppIds, s.apps[p] \in RegParam
    PROVE  \E st, nx, lk, o : /\ Result(s, UserDisconnect(s, p), p, st, nx, lk, o)
                              /\ Moves(s, p, s.apps[p].addr, st, nx, lk, o)
  <1>0. s \in StackRec /\ AppsMatch(s)
    BY DEF Sound
  <1>c. s.apps[p].state = "CONNECTED" => s.links[s.apps[p].addr] = "CONNECTED"
    <2>1. s.apps[p] # NoApp
      BY ParamFacts
    <2> QED
      BY <2>1, <1>0 DEF AppsMatch, InUse, Unused
  <1>1. PICK t : t = UserDisconnect(s, p)
    OBVIOUS
  <1>2. Disconnects(s, t, p)
    BY <1>0, <1>1, <1>c, DisconnectsIs
  <1>3. CASE s.apps[p].state = "CONNECTED" /\ Leave(s, t, p)
    BY <1>1, <1>3, <1>c, LeaveMoves
  <1>4. CASE /\ s.apps[p].state \in {"CONNECTING", "DISCONNECTING"}
             /\ \E nx : Result(s, t, p, s.apps[p].state, nx, s.links[s.apps[p].addr], s.out)
    <2>1. PICK nx : Result(s, t, p, s.apps[p].state, nx, s.links[s.apps[p].addr], s.out)
      BY <1>4
    <2> QED
      BY <1>1, <1>4, <2>1, KeepMoves
  <1>5. CASE Result(s, t, p, s.apps[p].state, s.apps[p].next, s.links[s.apps[p].addr], s.out)
    BY <1>1, <1>5, KeepMoves
  <1> QED
    BY <1>2, <1>3, <1>4, <1>5 DEF Disconnects

\* Applications may have gone or be new, or have another wish: nothing else differs.
Milder(s, t) ==
    /\ t \in StackRec /\ t.links = s.links /\ t.cleaning = s.cleaning /\ t.cm = s.cm
    /\ t.out = s.out /\ t.bad = s.bad
    /\ \A p \in AppIds :
          \/ t.apps[p] = NoApp
          \/ t.apps[p].state = "IDLE" /\ t.apps[p].next = "NONE"
          \/ /\ s.apps[p] # NoApp /\ t.apps[p].addr = s.apps[p].addr
             /\ t.apps[p].state = s.apps[p].state /\ t.apps[p].next = s.apps[p].next

LEMMA MilderIs ==
    ASSUME NEW s, Sound(s), NEW t, Milder(s, t), NEW r
    PROVE  Sound(t) /\ (Due(s, r) => Due(t, r))
  <1>0. s \in StackRec /\ AppsMatch(s) /\ CmWell(s.cm) /\ TableTold(s)
    BY DEF Sound
  <1>m. /\ t \in StackRec /\ t.links = s.links /\ t.cleaning = s.cleaning /\ t.cm = s.cm
        /\ \A p \in AppIds :
              \/ t.apps[p] = NoApp
              \/ t.apps[p].state = "IDLE" /\ t.apps[p].next = "NONE"
              \/ /\ s.apps[p] # NoApp /\ t.apps[p].addr = s.apps[p].addr
                 /\ t.apps[p].state = s.apps[p].state /\ t.apps[p].next = s.apps[p].next
    BY DEF Milder
  <1>1. AppsMatch(t)
    BY <1>0, <1>m DEF AppsMatch, InUse, Unused
  <1>2. CmWell(t.cm) /\ TableTold(t)
    BY <1>0, <1>m DEF TableTold
  <1>3. ASSUME Due(s, r) PROVE Due(t, r)
    <2>0. /\ \A b \in Addr : LinkDue(s, r, b)
          /\ \A p \in AppIds : AppDue(s, r, p)
          /\ HearsAgain(s, r)
      BY <1>3, DueParts
    <2>1. \A b \in Addr : LinkDue(t, r, b)
      BY <2>0, <1>m DEF LinkDue
    <2>2. ASSUME NEW p \in AppIds PROVE AppDue(t, r, p)
      BY <2>0, <1>m DEF AppDue, InUse, Unused, Released
    <2>3. HearsAgain(t, r)
      BY <2>0, <1>m DEF HearsAgain, Released
    <2> QED
      BY <2>1, <2>2, <2>3, DueParts
  <1> QED
    BY <1>m, <1>1, <1>2, <1>3 DEF Sound

LEMMA MilderHandled ==
    ASSUME NEW s, Sound(s), s.out = <<>>, NEW t, Milder(s, t), NEW r \in Seq(Task)
    PROVE  Handled(s, t, r, r) /\ t.cm = s.cm
  <1>1. Sound(t) /\ (Due(s, r) => Due(t, r))
    BY MilderIs
  <1>2. t.out = <<>> /\ t.cm = s.cm
    BY DEF Milder
  <1>3. t.out \in Seq(Task) /\ \A k \in 1 .. Len(t.out) : Quiet(t.out[k])
    BY <1>2, NothingPosted
  <1>4. r \o t.out = r
    BY <1>2
  <1> QED
    BY <1>1, <1>2, <1>3, <1>4 DEF Handled

LEMMA WantIs ==
    ASSUME NEW s \in StackRec, NEW p \in AppIds, s.apps[p] \in RegParam, NEW w \in Opers
    PROVE  LET u == [s EXCEPT !.apps[p].want = w]
           IN  Milder(s, u) /\ u.apps[p] \in RegParam
  <1>1. PICK e : e = [s.apps[p] EXCEPT !.want = w]
    OBVIOUS
  <1>2. /\ e \in RegParam /\ e.addr = s.apps[p].addr /\ e.state = s.apps[p].state
        /\ e.next = s.apps[p].next
    BY <1>1 DEF RegParam
  <1>3. PICK A : A = [s.apps EXCEPT ![p] = e]
    OBVIOUS
  <1>4. /\ A \in [AppIds -> RegParam \cup {NoApp}] /\ A[p] = e
        /\ \A q \in AppIds : q # p => A[q] = s.apps[q]
    BY <1>2, <1>3, StackFacts
  <1>5. PICK u : u = [s EXCEPT !.apps = A]
    OBVIOUS
  <1>6. /\ u \in StackRec /\ u.apps = A /\ u.links = s.links /\ u.cleaning = s.cleaning
        /\ u.cm = s.cm /\ u.out = s.out /\ u.bad = s.bad
    BY <1>4, <1>5, NewApps
  <1>7. ASSUME NEW q \in AppIds
        PROVE  \/ u.apps[q] = NoApp
               \/ /\ s.apps[q] # NoApp /\ u.apps[q].addr = s.apps[q].addr
                  /\ u.apps[q].state = s.apps[q].state /\ u.apps[q].next = s.apps[q].next
    <2>1. s.apps[p] # NoApp
      BY ParamFacts
    <2> QED
      BY <2>1, <1>2, <1>4, <1>6
  <1>8. Milder(s, u) /\ u.apps[p] \in RegParam
    BY <1>2, <1>4, <1>6, <1>7 DEF Milder
  <1>9. [s EXCEPT !.apps[p].want = w] = u
    BY <1>1, <1>3, <1>5
  <1> QED
    BY <1>8, <1>9

\* SsapClientConnect and SsapClientDisconnect.
LEMMA ClientHandled ==
    ASSUME NEW s, Sound(s), s.out = <<>>, NEW p \in AppIds, NEW r \in Seq(Task)
    PROVE  /\ Handled(s, ClientConnect(s, p), r, r) /\ ClientConnect(s, p).cm = s.cm
           /\ Handled(s, ClientDisconnect(s, p), r, r) /\ ClientDisconnect(s, p).cm = s.cm
  <1>0. s \in StackRec
    BY DEF Sound
  <1>1. CASE s.apps[p] = NoApp \/ s.cleaning
    <2>1. ClientConnect(s, p) = s /\ ClientDisconnect(s, p) = s
      BY <1>1 DEF ClientConnect, ClientDisconnect
    <2>2. Handled(s, s, r, r)
      BY StillHandled
    <2> QED
      BY <2>1, <2>2
  <1>2. CASE ~(s.apps[p] = NoApp \/ s.cleaning)
    <2>0. s.apps[p] \in RegParam /\ ~s.cleaning
      BY <1>0, <1>2, AddrOf
    <2>o. "CONNECT" \in Opers /\ "DISCONNECT" \in Opers
      BY DEF Opers
    <2>1. ASSUME NEW u, Milder(s, u), u.apps[p] \in RegParam, NEW t,
                 \E st, nx, lk, o : /\ Result(u, t, p, st, nx, lk, o)
                                    /\ Moves(u, p, u.apps[p].addr, st, nx, lk, o)
          PROVE  Handled(s, t, r, r) /\ t.cm = s.cm
      <3>1. /\ u.out = <<>> /\ u.bad = s.bad /\ u.cm = s.cm /\ ~u.cleaning
        BY <2>0, <2>1 DEF Milder
      <3>2. Sound(u) /\ (Due(s, r) => Due(u, r))
        BY <2>1, MilderIs
      <3>3. Handled(u, t, r, r) /\ t.cm = u.cm
        <4>1. PICK st, nx, lk, o : /\ Result(u, t, p, st, nx, lk, o)
                                   /\ Moves(u, p, u.apps[p].addr, st, nx, lk, o)
          BY <2>1
        <4> QED
          BY <4>1, <2>1, <3>1, <3>2, CallHandled
      <3> QED
        BY <3>1, <3>2, <3>3 DEF Handled
    <2>2. PICK u : u = [s EXCEPT !.apps[p].want = "CONNECT"]
      OBVIOUS
    <2>3. PICK v : v = [s EXCEPT !.apps[p].want = "DISCONNECT"]
      OBVIOUS
    <2>4. Milder(s, u) /\ u.apps[p] \in RegParam
      BY <1>0, <2>0, <2>o, <2>2, WantIs
    <2>5. Milder(s, v) /\ v.apps[p] \in RegParam
      BY <1>0, <2>0, <2>o, <2>3, WantIs
    <2>6. Sound(u) /\ Sound(v)
      BY <2>4, <2>5, MilderIs
    <2>7. u.out = <<>> /\ v.out = <<>>
      BY <2>4, <2>5 DEF Milder
    <2>8. \E st, nx, lk, o : /\ Result(u, UserConnect(u, p), p, st, nx, lk, o)
                             /\ Moves(u, p, u.apps[p].addr, st, nx, lk, o)
      BY <2>4, <2>6, <2>7, ConnectMoves
    <2>9. \E st, nx, lk, o : /\ Result(v, UserDisconnect(v, p), p, st, nx, lk, o)
                             /\ Moves(v, p, v.apps[p].addr, st, nx, lk, o)
      BY <2>5, <2>6, <2>7, DisconnectMoves
    <2>10. ClientConnect(s, p) = UserConnect(u, p)
      BY <1>2, <2>2 DEF ClientConnect
    <2>11. ClientDisconnect(s, p) = UserDisconnect(v, p)
      BY <1>2, <2>3 DEF ClientDisconnect
    <2>12. Handled(s, UserConnect(u, p), r, r) /\ UserConnect(u, p).cm = s.cm
      BY <2>1, <2>4, <2>8
    <2>13. Handled(s, UserDisconnect(v, p), r, r) /\ UserDisconnect(v, p).cm = s.cm
      BY <2>1, <2>5, <2>9
    <2> QED
      BY <2>10, <2>11, <2>12, <2>13
  <1> QED
    BY <1>1, <1>2

\* GetAppId and SsapcAppRegister.
LEMMA RegisterHandled ==
    ASSUME NEW s, Sound(s), s.out = <<>>, NEW a \in Addr, NEW r \in Seq(Task)
    PROVE  Handled(s, AppRegister(s, a), r, r) /\ AppRegister(s, a).cm = s.cm
  <1>0. s \in StackRec
    BY DEF Sound
  <1>1. PICK free : free = AppIds \ Registered(s)
    OBVIOUS
  <1>2. PICK id : id = CHOOSE p \in free : \A q \in free : p <= q
    OBVIOUS
  <1>3. PICK e : e = [addr |-> a, state |-> "IDLE", next |-> "NONE", want |-> "NONE"]
    OBVIOUS
  <1>4. AppRegister(s, a) = IF free = {} THEN s ELSE [s EXCEPT !.apps[id] = e]
    BY <1>1, <1>2, <1>3 DEF AppRegister
  <1>5. CASE free = {}
    <2>1. Handled(s, s, r, r)
      BY StillHandled
    <2> QED
      BY <1>4, <1>5, <2>1
  <1>6. CASE free # {}
    <2>1. free \in SUBSET Nat
      BY <1>1 DEF AppIds
    <2>2. \E p \in free : \A q \in free : p <= q
      BY <2>1, <1>6, LeastNumber
    <2>3. id \in free
      BY <2>2, <1>2
    <2>4. id \in AppIds
      BY <2>3, <1>1
    <2>5. e \in RegParam /\ e.state = "IDLE" /\ e.next = "NONE"
      BY <1>3 DEF RegParam, AppStates, Opers
    <2>6. PICK A : A = [s.apps EXCEPT ![id] = e]
      OBVIOUS
    <2>7. /\ A \in [AppIds -> RegParam \cup {NoApp}] /\ A[id] = e
          /\ \A q \in AppIds : q # id => A[q] = s.apps[q]
      BY <1>0, <2>4, <2>5, <2>6, StackFacts
    <2>8. PICK t : t = [s EXCEPT !.apps = A]
      OBVIOUS
    <2>9. /\ t \in StackRec /\ t.apps = A /\ t.links = s.links /\ t.cleaning = s.cleaning
          /\ t.cm = s.cm /\ t.out = s.out /\ t.bad = s.bad
      BY <1>0, <2>7, <2>8, NewApps
    <2>10. Milder(s, t)
      BY <2>5, <2>7, <2>9 DEF Milder
    <2>11. AppRegister(s, a) = t
      BY <1>4, <1>6, <2>6, <2>8
    <2>12. Handled(s, t, r, r) /\ t.cm = s.cm
      BY <2>10, MilderHandled
    <2> QED
      BY <2>11, <2>12
  <1> QED
    BY <1>5, <1>6

\* SsapcAppDeregister.
LEMMA DeregisterHandled ==
    ASSUME NEW s, Sound(s), s.out = <<>>, NEW p \in AppIds, NEW r \in Seq(Task)
    PROVE  Handled(s, AppDeregister(s, p), r, r) /\ AppDeregister(s, p).cm = s.cm
  <1>0. s \in StackRec
    BY DEF Sound
  <1>1. PICK A : A = [q \in AppIds |-> IF q \in {p} THEN NoApp ELSE s.apps[q]]
    OBVIOUS
  <1>2. A \in [AppIds -> RegParam \cup {NoApp}] /\ \A q \in AppIds : A[q] = NoApp \/ A[q] = s.apps[q]
    BY <1>0, <1>1, StackFacts
  <1>3. PICK t : t = [s EXCEPT !.apps = A]
    OBVIOUS
  <1>4. /\ t \in StackRec /\ t.apps = A /\ t.links = s.links /\ t.cleaning = s.cleaning
        /\ t.cm = s.cm /\ t.out = s.out /\ t.bad = s.bad
    BY <1>0, <1>2, <1>3, NewApps
  <1>5. Milder(s, t)
    BY <1>2, <1>4 DEF Milder
  <1>6. AppDeregister(s, p) = t
    BY <1>1, <1>3 DEF AppDeregister, Freed
  <1>7. Handled(s, t, r, r) /\ t.cm = s.cm
    BY <1>5, MilderHandled
  <1> QED
    BY <1>6, <1>7

-----------------------------------------------------------------------------
(* Switching off.                                                          *)

\* The values of the function behind Removes.
RemovesStep(s, ids, f, k) ==
    IF k = 0 THEN <<>>
    ELSE IF k - 1 \in ids THEN Append(f[k - 1], [op |-> "REMOVE", addr |-> s.apps[k - 1].addr])
    ELSE f[k - 1]

IsRemoves(s, ids, n, f) == f = [k \in 0 .. n |-> RemovesStep(s, ids, f, k)]

LEMMA RemovesExists ==
    ASSUME NEW s, NEW ids, NEW n \in Nat
    PROVE  \E f : IsRemoves(s, ids, n, f)
  <1> DEFINE Bad == {m \in Nat : ~ \E f : IsRemoves(s, ids, m, f)}
  <1> SUFFICES ASSUME Bad # {}
               PROVE  FALSE
    OBVIOUS
  <1>1. PICK m \in Bad : \A k \in Bad : m <= k
    BY LeastNumber
  <1>2. m \in Nat /\ ~ \E f : IsRemoves(s, ids, m, f)
    OBVIOUS
  <1>3. CASE m = 0
    <2> DEFINE g == [k \in 0 .. 0 |-> <<>>]
    <2>1. g = [k \in 0 .. 0 |-> RemovesStep(s, ids, g, k)]
      BY DEF RemovesStep
    <2> HIDE DEF g
    <2> QED
      BY <2>1, <1>2, <1>3 DEF IsRemoves
  <1>4. CASE m # 0
    <2>1. m - 1 \in Nat /\ m - 1 \notin Bad
      BY <1>1, <1>2, <1>4
    <2>2. PICK f : IsRemoves(s, ids, m - 1, f)
      BY <2>1
    <2> HIDE DEF Bad
    <2>3. \A k \in 0 .. m - 1 : f[k] = RemovesStep(s, ids, f, k)
      BY <2>2 DEF IsRemoves
    <2> DEFINE g == [k \in 0 .. m |-> RemovesStep(s, ids, f, k)]
    <2>4. \A k \in 0 .. m - 1 : k \in 0 .. m /\ g[k] = f[k]
      BY <1>2, <2>3
    <2>5. \A k \in 0 .. m : g[k] = RemovesStep(s, ids, f, k)
      OBVIOUS
    <2>6. g = [k \in 0 .. m |-> g[k]]
      OBVIOUS
    <2> HIDE DEF g
    <2>7. ASSUME NEW k \in 0 .. m
          PROVE  g[k] = RemovesStep(s, ids, g, k)
      <3>1. CASE k = 0
        BY <3>1, <2>5 DEF RemovesStep
      <3>2. CASE k # 0
        <4>1. k - 1 \in 0 .. m - 1
          BY <3>2, <1>2
        <4>2. g[k - 1] = f[k - 1]
          BY <4>1, <2>4
        <4> QED
          BY <4>2, <2>5 DEF RemovesStep
      <3> QED
        BY <3>1, <3>2
    <2>8. IsRemoves(s, ids, m, g)
      BY <2>6, <2>7 DEF IsRemoves
    <2> QED
      BY <2>8, <1>2
  <1> QED
    BY <1>3, <1>4

RemoveTasks == {REMOVE(b) : b \in Addr}

\* The requests for the applications below k, and no other task.
RemovesBelow(s, ids, o, k) ==
    /\ o \in Seq(RemoveTasks)
    /\ \A p \in ids : p < k => Contains(o, REMOVE(s.apps[p].addr))

LEMMA RemovesAre ==
    ASSUME NEW s \in StackRec, NEW ids \in SUBSET AppIds, \A p \in ids : s.apps[p] # NoApp
    PROVE  RemovesBelow(s, ids, Removes(s, ids), MaxApp)
  <1>0. PICK n \in Nat : n = MaxApp
    BY SsapLinkAssumption
  <1> DEFINE F == CHOOSE f : IsRemoves(s, ids, n, f)
  <1>1. Removes(s, ids) = F[n]
    BY <1>0 DEF Removes, IsRemoves, RemovesStep
  <1>2. IsRemoves(s, ids, n, F)
    BY RemovesExists
  <1> HIDE DEF F
  <1>3. \A k \in 0 .. n : F[k] = RemovesStep(s, ids, F, k)
    BY <1>2 DEF IsRemoves
  <1>i. \A p \in ids : p \in AppIds /\ p \in Nat /\ s.apps[p].addr \in Addr
    <2>1. ASSUME NEW p \in ids PROVE p \in AppIds /\ p \in Nat /\ s.apps[p].addr \in Addr
      BY AddrOf DEF AppIds
    <2> QED
      BY <2>1
  <1> DEFINE Bad == {k \in 0 .. n : ~RemovesBelow(s, ids, F[k], k)}
  <1>4. Bad = {}
    <2> SUFFICES ASSUME Bad # {}
                 PROVE  FALSE
      OBVIOUS
    <2>0. Bad \in SUBSET Nat
      OBVIOUS
    <2>1. PICK m \in Bad : \A k \in Bad : m <= k
      BY <2>0, LeastNumber
    <2>2. m \in 0 .. n /\ ~RemovesBelow(s, ids, F[m], m)
      OBVIOUS
    <2>3. m # 0
      <3>0. 0 \in 0 .. n
        OBVIOUS
      <3>z. F[0] = RemovesStep(s, ids, F, 0)
        BY <1>3, <3>0
      <3>1. F[0] = <<>>
        BY <3>z, Zenon DEF RemovesStep
      <3>2. <<>> \in Seq(RemoveTasks)
        OBVIOUS
      <3>4. \A q \in ids : ~(q < 0)
        BY <1>i
      <3>5. RemovesBelow(s, ids, <<>>, 0)
        BY <3>2, <3>4 DEF RemovesBelow
      <3>3. RemovesBelow(s, ids, F[0], 0)
        BY <3>1, <3>5
      <3> QED
        BY <2>2, <3>3
    <2>4. PICK p \in Nat : m = p + 1
      <3>1. m - 1 \in Nat /\ m = (m - 1) + 1
        BY <2>2, <2>3
      <3> QED
        BY <3>1
    <2>5. p \in 0 .. n /\ m - 1 = p
      BY <2>2, <2>4
    <2>6. RemovesBelow(s, ids, F[p], p)
      <3>1. ~(m <= p)
        BY <2>4
      <3> QED
        BY <3>1, <2>1, <2>5
    <2> HIDE DEF Bad
    <2>7. F[m] = IF p \in ids THEN Append(F[p], REMOVE(s.apps[p].addr)) ELSE F[p]
      <3>1. F[m] = RemovesStep(s, ids, F, m)
        BY <1>3, <2>2
      <3> QED
        BY <3>1, <2>3, <2>5 DEF RemovesStep, REMOVE
    <2>8. PICK o \in Seq(RemoveTasks) : o = F[p]
      BY <2>6 DEF RemovesBelow
    <2>c. \A q \in ids : q < p => Contains(o, REMOVE(s.apps[q].addr))
      BY <2>6, <2>8 DEF RemovesBelow
    <2>9. CASE p \in ids
      <3>1. PICK x : x = REMOVE(s.apps[p].addr)
        OBVIOUS
      <3>2. x \in RemoveTasks
        BY <3>1, <2>9, <1>i DEF RemoveTasks
      <3>3. Append(o, x) \in Seq(RemoveTasks) /\ Contains(Append(o, x), x)
        <4>1. Len(o) \in Nat /\ Len(Append(o, x)) = Len(o) + 1 /\ Append(o, x)[Len(o) + 1] = x
          OBVIOUS
        <4>2. Len(o) + 1 \in 1 .. Len(Append(o, x))
          BY <4>1
        <4> QED
          BY <3>2, <4>1, <4>2 DEF Contains
      <3>4. ASSUME NEW y, Contains(o, y) PROVE Contains(Append(o, x), y)
        <4>1. PICK i \in 1 .. Len(o) : o[i] = y
          BY <3>4 DEF Contains
        <4>2. i \in 1 .. Len(Append(o, x)) /\ Append(o, x)[i] = y
          BY <4>1
        <4> QED
          BY <4>2 DEF Contains
      <3>5. ASSUME NEW q \in ids, q < m PROVE Contains(Append(o, x), REMOVE(s.apps[q].addr))
        <4>1. q \in Nat
          BY <1>i
        <4>2. q < p \/ q = p
          BY <4>1, <2>4, <3>5
        <4>3. CASE q < p
          BY <4>3, <2>c, <3>4
        <4>4. CASE q = p
          BY <4>4, <3>1, <3>3
        <4> QED
          BY <4>2, <4>3, <4>4
      <3>6. F[m] = Append(o, x)
        BY <2>7, <2>8, <2>9, <3>1
      <3> QED
        BY <3>3, <3>5, <3>6, <2>2 DEF RemovesBelow
    <2>10. CASE p \notin ids
      <3>1. ASSUME NEW q \in ids, q < m PROVE Contains(o, REMOVE(s.apps[q].addr))
        <4>1. q \in Nat /\ q # p
          BY <1>i, <2>10
        <4>2. q < p
          BY <4>1, <2>4, <3>1
        <4> QED
          BY <4>2, <2>c
      <3>2. F[m] = o
        BY <2>7, <2>8, <2>10
      <3> QED
        BY <3>1, <3>2, <2>2 DEF RemovesBelow
    <2> QED
      BY <2>9, <2>10
  <1>5. RemovesBelow(s, ids, F[n], n)
    BY <1>4
  <1> QED
    BY <1>0, <1>1, <1>5

LEMMA RemoveTasksAre ==
    ASSUME NEW o \in Seq(RemoveTasks)
    PROVE  /\ o \in Seq(Task) /\ \A k \in 1 .. Len(o) : Quiet(o[k])
           /\ \A b \in Addr : ~Contains(o, ADD(b))
  <1>1. RemoveTasks \subseteq Task
    BY TaskFacts DEF RemoveTasks
  <1>2. o \in Seq(Task)
    BY <1>1
  <1>3. ASSUME NEW k \in 1 .. Len(o) PROVE Quiet(o[k]) /\ \A b \in Addr : o[k] # ADD(b)
    <2>1. PICK a \in Addr : o[k] = REMOVE(a)
      BY DEF RemoveTasks
    <2> QED
      BY <2>1 DEF ADD, REMOVE, UP, DOWN, READY, Quiet
  <1> QED
    BY <1>2, <1>3 DEF Contains

\* SsapcClientCleanApp.
LEMMA CleanHandled ==
    ASSUME NEW s, Sound(s), s.out = <<>>, NEW r \in Seq(Task)
    PROVE  Handled(s, ClientCleanApp(s), r, r) /\ ClientCleanApp(s).cm = s.cm
  <1>0. s \in StackRec /\ AppsMatch(s) /\ CmWell(s.cm) /\ TableTold(s)
    BY DEF Sound
  <1>1. PICK ids : ids = {p \in Registered(s) : ~Unused(s, p)}
    OBVIOUS
  <1>2. ids \in SUBSET AppIds /\ \A p \in AppIds : p \in ids <=> InUse(s, p)
    BY <1>1 DEF Registered, InUse
  <1>3. PICK A : A = [p \in AppIds |-> IF p \in ids THEN [s.apps[p] EXCEPT !.next = "NONE"] ELSE NoApp]
    OBVIOUS
  <1>4. ASSUME NEW p \in ids
        PROVE  /\ A[p] \in RegParam /\ A[p] # NoApp /\ A[p].addr = s.apps[p].addr
               /\ A[p].state = s.apps[p].state /\ A[p].next = "NONE"
    <2>1. p \in AppIds /\ s.apps[p] \in RegParam
      BY <1>0, <1>2, InUseFacts
    <2>2. PICK e \in RegParam : e = s.apps[p]
      BY <2>1
    <2>3. A[p] = [e EXCEPT !.next = "NONE"]
      BY <1>3, <2>1, <2>2
    <2>4. /\ A[p] \in RegParam /\ A[p].addr = e.addr /\ A[p].state = e.state /\ A[p].next = "NONE"
      BY <2>3 DEF RegParam, Opers
    <2>5. A[p] # NoApp
      BY <2>4, ParamFacts
    <2> QED
      BY <2>2, <2>4, <2>5
  <1>5. \A p \in AppIds : p \notin ids => A[p] = NoApp
    BY <1>3
  <1>6. A \in [AppIds -> RegParam \cup {NoApp}]
    <2>1. ASSUME NEW p \in AppIds PROVE A[p] \in RegParam \cup {NoApp}
      BY <1>4, <1>5
    <2>2. A = [p \in AppIds |-> A[p]]
      BY <1>3
    <2> QED
      BY <2>1, <2>2
  <1>7. PICK R \in Seq(RemoveTasks) : R = Removes(s, ids)
        /\ \A p \in ids : Contains(R, REMOVE(s.apps[p].addr))
    <2>1. \A p \in ids : s.apps[p] # NoApp
      BY <1>2 DEF InUse
    <2>2. RemovesBelow(s, ids, Removes(s, ids), MaxApp)
      BY <1>0, <1>2, <2>1, RemovesAre
    <2>3. \A p \in ids : p < MaxApp
      <3>1. MaxApp \in Nat
        BY SsapLinkAssumption
      <3> QED
        BY <3>1, <1>2 DEF AppIds
    <2> QED
      BY <2>2, <2>3 DEF RemovesBelow
  <1>8. /\ R \in Seq(Task) /\ \A k \in 1 .. Len(R) : Quiet(R[k])
        /\ \A b \in Addr : ~Contains(R, ADD(b))
    BY RemoveTasksAre
  <1>9. PICK C \in BOOLEAN : C <=> ids # {}
    OBVIOUS
  <1>10. PICK O : O = IF s.bad = "POST" THEN <<>> ELSE R
    OBVIOUS
  <1>11. PICK t : t = ClientCleanApp(s)
    OBVIOUS
  <1>12. /\ O \in Seq(Task) /\ \A k \in 1 .. Len(O) : Quiet(O[k])
    <2>1. CASE s.bad = "POST"
      <3>1. O = <<>>
        BY <2>1, <1>10
      <3> QED
        BY <3>1
    <2>2. CASE s.bad # "POST"
      BY <2>2, <1>8, <1>10
    <2> QED
      BY <2>1, <2>2
  <1>13. t = [s EXCEPT !.apps = A, !.cleaning = C, !.out = O]
    <2>1. <<>> \o R = R
      BY <1>8
    <2>2. C = (ids # {})
      BY <1>9
    <2>3. (IF s.bad = "POST" THEN s.out ELSE s.out \o Removes(s, ids)) = O
      BY <2>1, <1>7, <1>10
    <2> QED
      BY <1>1, <1>3, <1>11, <2>2, <2>3 DEF ClientCleanApp
  <1>14. /\ t \in StackRec /\ t.apps = A /\ t.links = s.links /\ (t.cleaning <=> ids # {})
         /\ t.cm = s.cm /\ t.out = O /\ t.bad = s.bad
    BY <1>0, <1>6, <1>9, <1>12, <1>13 DEF StackRec
  <1>15. ASSUME NEW p \in AppIds, t.apps[p] # NoApp
         PROVE  /\ p \in ids /\ InUse(s, p) /\ t.apps[p].addr = s.apps[p].addr
                /\ t.apps[p].state = s.apps[p].state /\ t.apps[p].next = "NONE"
    BY <1>2, <1>4, <1>5, <1>14, <1>15
  <1>16. AppsMatch(t)
    BY <1>0, <1>14, <1>15 DEF AppsMatch, InUse
  <1>17. TableTold(t) /\ CmWell(t.cm)
    BY <1>0, <1>14 DEF TableTold
  <1>18. ASSUME s.bad = "NONE", Due(s, r) PROVE Due(t, r \o t.out)
    <2>0. \A b \in Addr : LinkDue(s, r, b)
      BY <1>18, DueParts
    <2>o. t.out = R
      BY <1>10, <1>14, <1>18
    <2>1. ASSUME NEW b \in Addr PROVE LinkDue(t, r \o t.out, b)
      <3>1. PassesOn(r, r \o t.out, b)
        BY <2>o, <1>8, PassesConcat
      <3> QED
        BY <2>0, <3>1, <1>14, LinkDueFrom
    <2>2. ASSUME NEW p \in ids PROVE Released(t, r \o t.out, s.apps[p].addr)
      <3>1. s.apps[p].addr \in Addr
        BY <1>0, <1>2, InUseFacts
      <3>2. PICK b \in Addr : b = s.apps[p].addr
        BY <3>1
      <3>3. Contains(t.out, REMOVE(b)) /\ ~Contains(t.out, ADD(b)) /\ t.out \in Seq(Task)
        BY <2>o, <3>2, <1>7, <1>8
      <3>4. LastRemove(r \o t.out, b)
        BY <3>3, LastRemoveConcat
      <3> QED
        BY <3>2, <3>4 DEF Released
    <2>3. ASSUME NEW p \in AppIds PROVE AppDue(t, r \o t.out, p)
      BY <1>15, <2>2 DEF AppDue
    <2>4. HearsAgain(t, r \o t.out)
      <3>1. ASSUME t.cleaning
            PROVE  \E b \in Addr : t.links[b] # "NONE" /\ Released(t, r \o t.out, b)
        <4>1. PICK p \in ids : TRUE
          BY <3>1, <1>14
        <4>2. s.apps[p].addr \in Addr /\ s.links[s.apps[p].addr] # "NONE"
          BY <1>0, <1>2, InUseFacts
        <4> QED
          BY <4>2, <2>2, <1>14
      <3> QED
        BY <3>1 DEF HearsAgain
    <2> QED
      BY <2>1, <2>3, <2>4, DueParts
  <1>19. Handled(s, t, r, r)
    BY <1>12, <1>14, <1>16, <1>17, <1>18 DEF Handled, Sound
  <1> QED
    BY <1>11, <1>14, <1>19

-----------------------------------------------------------------------------
(* The events of the controller, one task after another.                   *)

\* The work list and CM agree with the controller.
Events(m, q, c) == ReadsWell(m, q) /\ Connected(m, q, c)

LEMMA ReadLater ==
    ASSUME NEW q \in Seq(Task), q # <<>>, NEW m, ReadsWell(m, q), NEW b \in Addr,
           Contains(Tail(q), READY(b))
    PROVE  /\ m[b].link # "NONE" /\ ~m[b].told
           /\ Head(q) # READY(b) /\ Head(q) # DOWN(b)
  <1>1. PICK k \in 1 .. Len(Tail(q)) : Tail(q)[k] = READY(b)
    BY DEF Contains
  <1>2. Len(q) \in Nat /\ Len(Tail(q)) = Len(q) - 1 /\ Head(q) = q[1] /\ 1 \in 1 .. Len(q)
    BY TailFacts
  <1>3. PICK i \in 1 .. Len(q) : i = k + 1 /\ q[i] = READY(b) /\ i # 1 /\ ~(i < 1)
    <2>1. k + 1 \in 1 .. Len(q) /\ q[k + 1] = READY(b)
      BY <1>1, <1>2, TailFacts
    <2>2. k + 1 # 1 /\ ~(k + 1 < 1)
      BY <1>1, <1>2
    <2> QED
      BY <2>1, <2>2
  <1>4. /\ m[b].link # "NONE" /\ ~m[b].told
        /\ \A j \in 1 .. Len(q) : q[j] = READY(b) => j = i
        /\ \A j \in 1 .. Len(q) : q[j] = DOWN(b) => i < j
    BY <1>3 DEF ReadsWell
  <1> QED
    BY <1>2, <1>3, <1>4

\* The first step of the history.
LEMMA FirstTurn ==
    ASSUME NEW q \in Seq(Task), q # <<>>, NEW m, NEW c, NEW h, History(h, m, q, c)
    PROVE  Turns(Head(q), {a \in Addr : m[a].link # "NONE"}, h[1])
  <1>1. 1 \in 1 .. Len(q) /\ Head(q) = q[1]
    BY TailFacts
  <1>2. Turns(q[1], h[1 - 1], h[1]) /\ h[0] = {a \in Addr : m[a].link # "NONE"}
    BY <1>1 DEF History
  <1>3. 1 - 1 = 0
    OBVIOUS
  <1> QED
    BY <1>1, <1>2, <1>3

LEMMA QuietStep ==
    ASSUME NEW q \in Seq(Task), q # <<>>, NEW m, NEW n, NEW c, Events(m, q, c), Quiet(Head(q)),
           CmKeeps(m, n)
    PROVE  Events(n, Tail(q), c)
  <1>1. ReadsWell(m, q) /\ Connected(m, q, c)
    BY DEF Events
  <1>2. ASSUME NEW a \in Addr, Contains(Tail(q), READY(a)) PROVE n[a].link # "NONE" /\ ~n[a].told
    <2>1. m[a].link # "NONE" /\ ~m[a].told
      BY <1>1, <1>2, ReadLater
    <2> QED
      BY <2>1 DEF CmKeeps
  <1>3. ReadsWell(n, Tail(q))
    BY <1>1, <1>2, ReadsTail
  <1>4. PICK h : History(h, m, q, c)
    BY <1>1 DEF Connected
  <1>5. Turns(Head(q), {a \in Addr : m[a].link # "NONE"}, h[1])
    BY <1>4, FirstTurn
  <1>6. h[1] = {a \in Addr : m[a].link # "NONE"}
    BY <1>5 DEF Turns, Quiet
  <1>7. {a \in Addr : n[a].link # "NONE"} = h[1]
    BY <1>6 DEF CmKeeps
  <1>8. Connected(n, Tail(q), c)
    BY <1>4, <1>7, ConnectedTail
  <1> QED
    BY <1>3, <1>8 DEF Events

LEMMA UpStep ==
    ASSUME NEW q \in Seq(Task), q # <<>>, NEW m, NEW c, Events(m, q, c), NEW a \in Addr,
           Head(q) = UP(a)
    PROVE  /\ m[a].link = "NONE"
           /\ \A n : Turned(m, n, a, TRUE, FALSE) => Events(n, Tail(q), c)
  <1>1. ReadsWell(m, q) /\ Connected(m, q, c)
    BY DEF Events
  <1>2. PICK h : History(h, m, q, c)
    BY <1>1 DEF Connected
  <1>3. Turns(Head(q), {b \in Addr : m[b].link # "NONE"}, h[1])
    BY <1>2, FirstTurn
  <1>4. m[a].link = "NONE" /\ h[1] = {b \in Addr : m[b].link # "NONE"} \cup {a}
    BY <1>3 DEF Turns
  <1>5. ASSUME NEW n, Turned(m, n, a, TRUE, FALSE) PROVE Events(n, Tail(q), c)
    <2>1. ASSUME NEW b \in Addr, Contains(Tail(q), READY(b)) PROVE n[b].link # "NONE" /\ ~n[b].told
      <3>1. m[b].link # "NONE" /\ ~m[b].told
        BY <1>1, <2>1, ReadLater
      <3>2. b # a
        BY <3>1, <1>4
      <3> QED
        BY <3>1, <3>2, <1>5 DEF Turned
    <2>2. ReadsWell(n, Tail(q))
      BY <1>1, <2>1, ReadsTail
    <2>3. {b \in Addr : n[b].link # "NONE"} = h[1]
      BY <1>4, <1>5 DEF Turned
    <2>4. Connected(n, Tail(q), c)
      BY <1>2, <2>3, ConnectedTail
    <2> QED
      BY <2>2, <2>4 DEF Events
  <1> QED
    BY <1>4, <1>5

LEMMA ReadyStep ==
    ASSUME NEW q \in Seq(Task), q # <<>>, NEW m, NEW c, Events(m, q, c), NEW a \in Addr,
           Head(q) = READY(a)
    PROVE  /\ m[a].link # "NONE" /\ ~m[a].told
           /\ \A n : Turned(m, n, a, TRUE, TRUE) => Events(n, Tail(q), c)
  <1>1. ReadsWell(m, q) /\ Connected(m, q, c)
    BY DEF Events
  <1>2. PICK h : History(h, m, q, c)
    BY <1>1 DEF Connected
  <1>3. Turns(Head(q), {b \in Addr : m[b].link # "NONE"}, h[1])
    BY <1>2, FirstTurn
  <1>4. h[1] = {b \in Addr : m[b].link # "NONE"}
    <2>1. \A b \in Addr : READY(a) # UP(b) /\ READY(a) # DOWN(b)
      BY DEF READY, UP, DOWN
    <2> QED
      BY <1>3, <2>1 DEF Turns
  <1>5. m[a].link # "NONE" /\ ~m[a].told
    <2>1. 1 \in 1 .. Len(q) /\ q[1] = READY(a)
      BY TailFacts
    <2> QED
      BY <1>1, <2>1 DEF ReadsWell
  <1>6. ASSUME NEW n, Turned(m, n, a, TRUE, TRUE) PROVE Events(n, Tail(q), c)
    <2>1. ASSUME NEW b \in Addr, Contains(Tail(q), READY(b)) PROVE n[b].link # "NONE" /\ ~n[b].told
      <3>1. m[b].link # "NONE" /\ ~m[b].told /\ Head(q) # READY(b)
        BY <1>1, <2>1, ReadLater
      <3>2. b # a
        BY <3>1
      <3> QED
        BY <3>1, <3>2, <1>6 DEF Turned
    <2>2. ReadsWell(n, Tail(q))
      BY <1>1, <2>1, ReadsTail
    <2>3. {b \in Addr : n[b].link # "NONE"} = h[1]
      BY <1>4, <1>5, <1>6 DEF Turned
    <2>4. Connected(n, Tail(q), c)
      BY <1>2, <2>3, ConnectedTail
    <2> QED
      BY <2>2, <2>4 DEF Events
  <1> QED
    BY <1>5, <1>6

LEMMA DownStep ==
    ASSUME NEW q \in Seq(Task), q # <<>>, NEW m, NEW c, Events(m, q, c), NEW a \in Addr,
           Head(q) = DOWN(a), NEW n, Turned(m, n, a, FALSE, FALSE)
    PROVE  Events(n, Tail(q), c)
  <1>1. ReadsWell(m, q) /\ Connected(m, q, c)
    BY DEF Events
  <1>2. PICK h : History(h, m, q, c)
    BY <1>1 DEF Connected
  <1>3. Turns(Head(q), {b \in Addr : m[b].link # "NONE"}, h[1])
    BY <1>2, FirstTurn
  <1>4. h[1] = {b \in Addr : m[b].link # "NONE"} \ {a}
    BY <1>3 DEF Turns
  <1>5. ASSUME NEW b \in Addr, Contains(Tail(q), READY(b)) PROVE n[b].link # "NONE" /\ ~n[b].told
    <2>1. m[b].link # "NONE" /\ ~m[b].told /\ Head(q) # DOWN(b)
      BY <1>1, <1>5, ReadLater
    <2>2. b # a
      BY <2>1
    <2> QED
      BY <2>1, <2>2 DEF Turned
  <1>6. ReadsWell(n, Tail(q))
    BY <1>1, <1>5, ReadsTail
  <1>7. {b \in Addr : n[b].link # "NONE"} = h[1]
    BY <1>4 DEF Turned
  <1>8. Connected(n, Tail(q), c)
    BY <1>2, <1>7, ConnectedTail
  <1> QED
    BY <1>6, <1>8 DEF Events

\* CM's links are the same ones, and nothing is taken from the work list.
LEMMA EventsKeep ==
    ASSUME NEW q, NEW m, NEW n, NEW c, Events(m, q, c), CmKeeps(m, n)
    PROVE  Events(n, q, c)
  <1>1. ReadsWell(m, q) /\ Connected(m, q, c)
    BY DEF Events
  <1>2. ReadsWell(n, q)
    BY <1>1 DEF ReadsWell, CmKeeps
  <1>3. {a \in Addr : n[a].link # "NONE"} = {a \in Addr : m[a].link # "NONE"}
    BY DEF CmKeeps
  <1>4. Connected(n, q, c)
    BY <1>1, <1>3 DEF Connected, History
  <1> QED
    BY <1>2, <1>4 DEF Events

\* The posts of a task come last.
LEMMA EventsPosts ==
    ASSUME NEW q \in Seq(Task), NEW o \in Seq(Task), NEW m, NEW c, Events(m, q, c),
           \A k \in 1 .. Len(o) : Quiet(o[k])
    PROVE  Events(m, q \o o, c)
  <1>1. ReadsWell(m, q) /\ Connected(m, q, c)
    BY DEF Events
  <1>2. ReadsWell(m, q \o o)
    BY <1>1, ReadsConcat
  <1>3. Connected(m, q \o o, c)
    BY <1>1, ConnectedConcat
  <1> QED
    BY <1>2, <1>3 DEF Events

LEMMA ReadsAppend ==
    ASSUME NEW q \in Seq(Task), NEW x \in Task, NEW m, ReadsWell(m, q),
           \A a \in Addr : x = READY(a) => /\ m[a].link # "NONE" /\ ~m[a].told
                                           /\ ~Contains(q, READY(a)) /\ ~Contains(q, DOWN(a))
    PROVE  ReadsWell(m, Append(q, x))
  <1>0. PICK l \in Nat : l = Len(q) /\ Len(Append(q, x)) = l + 1
    OBVIOUS
  <1>p. PICK w : w = Append(q, x)
    OBVIOUS
  <1>1. Len(w) = l + 1 /\ w[l + 1] = x /\ \A i \in 1 .. l : w[i] = q[i]
    BY <1>0, <1>p
  <1>2. ASSUME NEW a \in Addr, NEW i \in 1 .. Len(w), w[i] = READY(a)
        PROVE  /\ m[a].link # "NONE" /\ ~m[a].told
               /\ \A j \in 1 .. Len(w) : w[j] = READY(a) => j = i
               /\ \A j \in 1 .. Len(w) : w[j] = DOWN(a) => i < j
    <2>0. i \in 1 .. l \/ i = l + 1
      BY <1>1
    <2>d. READY(a) # DOWN(a)
      BY DEF READY, DOWN
    <2>1. CASE i \in 1 .. l
      <3>1. q[i] = READY(a) /\ i \in 1 .. Len(q)
        BY <2>1, <1>0, <1>1, <1>2
      <3>2. /\ m[a].link # "NONE" /\ ~m[a].told
            /\ \A j \in 1 .. Len(q) : q[j] = READY(a) => j = i
            /\ \A j \in 1 .. Len(q) : q[j] = DOWN(a) => i < j
        BY <3>1 DEF ReadsWell
      <3>3. Contains(q, READY(a))
        BY <3>1 DEF Contains
      <3>4. ASSUME NEW j \in 1 .. Len(w), w[j] = READY(a) PROVE j = i
        <4>1. j \in 1 .. l
          <5>1. j # l + 1
            BY <3>3, <3>4, <1>1
          <5> QED
            BY <5>1, <1>1
        <4> QED
          BY <4>1, <3>2, <3>4, <1>0, <1>1
      <3>5. ASSUME NEW j \in 1 .. Len(w), w[j] = DOWN(a) PROVE i < j
        <4>1. CASE j = l + 1
          BY <4>1, <2>1
        <4>2. CASE j # l + 1
          <5>1. j \in 1 .. l
            BY <4>2, <1>1
          <5> QED
            BY <5>1, <3>2, <3>5, <1>0, <1>1
        <4> QED
          BY <4>1, <4>2
      <3> QED
        BY <3>2, <3>4, <3>5
    <2>2. CASE i = l + 1
      <3>1. x = READY(a)
        BY <2>2, <1>1, <1>2
      <3>2. m[a].link # "NONE" /\ ~m[a].told /\ ~Contains(q, READY(a)) /\ ~Contains(q, DOWN(a))
        BY <3>1
      <3>3. ASSUME NEW j \in 1 .. l PROVE w[j] # READY(a) /\ w[j] # DOWN(a)
        BY <3>2, <1>0, <1>1 DEF Contains
      <3>4. ASSUME NEW j \in 1 .. Len(w), w[j] = READY(a) \/ w[j] = DOWN(a) PROVE j = i /\ w[j] = READY(a)
        <4>1. j \in 1 .. l \/ j = l + 1
          BY <1>1
        <4> QED
          BY <4>1, <3>3, <3>4, <2>2, <1>2
      <3> QED
        BY <3>2, <3>4, <2>d
    <2> QED
      BY <2>0, <2>1, <2>2
  <1>3. ReadsWell(m, w)
    BY <1>2 DEF ReadsWell
  <1> QED
    BY <1>3, <1>p

LEMMA EventsAppend ==
    ASSUME NEW q \in Seq(Task), NEW x \in Task, NEW m, NEW c, NEW d \in SUBSET Addr,
           Events(m, q, c), Turns(x, c, d),
           \A a \in Addr : x = READY(a) => /\ m[a].link # "NONE" /\ ~m[a].told
                                           /\ ~Contains(q, READY(a)) /\ ~Contains(q, DOWN(a))
    PROVE  Events(m, Append(q, x), d)
  <1>1. ReadsWell(m, q) /\ Connected(m, q, c)
    BY DEF Events
  <1>2. ReadsWell(m, Append(q, x))
    BY <1>1, ReadsAppend
  <1>3. Connected(m, Append(q, x), d)
    BY <1>1, ConnectedAppend
  <1> QED
    BY <1>2, <1>3 DEF Events

\* The kinds of tasks.
LEMMA TaskKinds ==
    ASSUME NEW x \in Task
    PROVE  \/ x.op \in {"CONNECT", "DISCONNECT", "DEREGISTER"} /\ x.app \in AppIds /\ Quiet(x)
              /\ \A b \in Addr : x # ADD(b) /\ x # REMOVE(b)
           \/ x.op = "REGISTER" /\ x.addr \in Addr /\ Quiet(x)
              /\ \A b \in Addr : x # ADD(b) /\ x # REMOVE(b)
           \/ x.op = "CLEAN" /\ Quiet(x) /\ \A b \in Addr : x # ADD(b) /\ x # REMOVE(b)
           \/ x.op = "ADD" /\ x.addr \in Addr /\ x = ADD(x.addr) /\ Quiet(x)
           \/ x.op = "REMOVE" /\ x.addr \in Addr /\ x = REMOVE(x.addr) /\ Quiet(x)
           \/ x.op = "UP" /\ x.addr \in Addr /\ x = UP(x.addr)
              /\ \A b \in Addr : x # ADD(b) /\ x # REMOVE(b)
           \/ x.op = "READY" /\ x.addr \in Addr /\ x = READY(x.addr)
              /\ \A b \in Addr : x # ADD(b) /\ x # REMOVE(b)
           \/ x.op = "DOWN" /\ x.addr \in Addr /\ x = DOWN(x.addr)
              /\ \A b \in Addr : x # ADD(b) /\ x # REMOVE(b)
  <1>o. \A b \in Addr : /\ ADD(b).op = "ADD" /\ REMOVE(b).op = "REMOVE" /\ UP(b).op = "UP"
                        /\ READY(b).op = "READY" /\ DOWN(b).op = "DOWN"
    BY DEF ADD, REMOVE, UP, READY, DOWN
  <1>q. x.op \notin {"UP", "READY", "DOWN"} => Quiet(x)
    BY <1>o DEF Quiet
  <1>n. x.op \notin {"ADD", "REMOVE"} => \A b \in Addr : x # ADD(b) /\ x # REMOVE(b)
    BY <1>o
  <1>1. CASE x \in [op : {"CONNECT", "DISCONNECT", "DEREGISTER"}, app : AppIds]
    BY <1>1, <1>q, <1>n
  <1>2. CASE x \in [op : {"REGISTER", "ADD", "REMOVE", "UP", "READY", "DOWN"}, addr : Addr]
    <2>1. x.op \in {"REGISTER", "ADD", "REMOVE", "UP", "READY", "DOWN"} /\ x.addr \in Addr
      BY <1>2
    <2>2. x = [op |-> x.op, addr |-> x.addr]
      BY <1>2
    <2>3. /\ x.op = "ADD" => x = ADD(x.addr)
          /\ x.op = "REMOVE" => x = REMOVE(x.addr)
          /\ x.op = "UP" => x = UP(x.addr)
          /\ x.op = "READY" => x = READY(x.addr)
          /\ x.op = "DOWN" => x = DOWN(x.addr)
      BY <2>2 DEF ADD, REMOVE, UP, READY, DOWN
    <2> QED
      BY <2>1, <2>3, <1>q, <1>n
  <1>3. CASE x \in [op : {"CLEAN"}]
    BY <1>3, <1>q, <1>n
  <1> QED
    BY <1>1, <1>2, <1>3 DEF Task

\* The tasks that CM does not see.
LEMMA OwnTask ==
    ASSUME NEW s, Sound(s), NEW q \in Seq(Task), q # <<>>, NEW c, Events(s.cm, q, c),
           Quiet(Head(q)), \A b \in Addr : Head(q) # ADD(b) /\ Head(q) # REMOVE(b),
           NEW t, Handled(s, t, Tail(q), Tail(q)), t.cm = s.cm
    PROVE  Handled(s, t, q, Tail(q)) /\ Events(t.cm, Tail(q), c)
  <1>0. s \in StackRec
    BY DEF Sound
  <1>1. \A b \in Addr : PassesOn(q, Tail(q), b)
    BY PassesTail
  <1>2. Due(s, q) => Due(s, Tail(q))
    BY <1>0, <1>1, DueFrom
  <1>3. Handled(s, t, q, Tail(q))
    BY <1>2 DEF Handled
  <1>4. CmKeeps(s.cm, t.cm)
    BY DEF CmKeeps
  <1>5. Events(t.cm, Tail(q), c)
    BY <1>4, QuietStep
  <1> QED
    BY <1>3, <1>5

\* Every task keeps the invariant's parts.
LEMMA TaskHandled ==
    ASSUME NEW s, Sound(s), s.out = <<>>, NEW q \in Seq(Task), q # <<>>, NEW ow \in BOOLEAN,
           NEW c, Events(s.cm, q, c)
    PROVE  /\ Handled(s, Handle(s, Head(q), ow), q, Tail(q))
           /\ Events(Handle(s, Head(q), ow).cm, Tail(q), c)
  <1>x. PICK x \in Task : x = Head(q)
    BY TailFacts
  <1>r. PICK r \in Seq(Task) : r = Tail(q)
    BY TailFacts
  <1>t. PICK t : t = Handle(s, x, ow)
    OBVIOUS
  <1>p. (\A b \in Addr : x # ADD(b) /\ x # REMOVE(b)) => PassesAll(q, r)
    BY <1>x, <1>r, PassesTail DEF PassesAll
  <1>1. CASE /\ x.op \in {"CONNECT", "DISCONNECT", "DEREGISTER"} /\ x.app \in AppIds /\ Quiet(x)
             /\ \A b \in Addr : x # ADD(b) /\ x # REMOVE(b)
    <2>1. \/ t = ClientConnect(s, x.app) \/ t = ClientDisconnect(s, x.app)
          \/ t = AppDeregister(s, x.app)
      BY <1>1, <1>t DEF Handle
    <2>2. Handled(s, t, r, r) /\ t.cm = s.cm
      BY <1>1, <2>1, ClientHandled, DeregisterHandled
    <2> QED
      BY <1>1, <2>2, <1>x, <1>r, <1>t, OwnTask
  <1>2. CASE /\ x.op = "REGISTER" /\ x.addr \in Addr /\ Quiet(x)
             /\ \A b \in Addr : x # ADD(b) /\ x # REMOVE(b)
    <2>1. t = AppRegister(s, x.addr)
      BY <1>2, <1>t DEF Handle
    <2>2. Handled(s, t, r, r) /\ t.cm = s.cm
      BY <1>2, <2>1, RegisterHandled
    <2> QED
      BY <1>2, <2>2, <1>x, <1>r, <1>t, OwnTask
  <1>3. CASE x.op = "CLEAN" /\ Quiet(x) /\ \A b \in Addr : x # ADD(b) /\ x # REMOVE(b)
    <2>1. t = ClientCleanApp(s)
      BY <1>3, <1>t DEF Handle
    <2>2. Handled(s, t, r, r) /\ t.cm = s.cm
      BY <2>1, CleanHandled
    <2> QED
      BY <1>3, <2>2, <1>x, <1>r, <1>t, OwnTask
  <1>4. CASE x.op = "ADD" /\ x.addr \in Addr /\ x = ADD(x.addr) /\ Quiet(x)
    <2>1. t = CmAdd(s, x.addr)
      BY <1>4, <1>t DEF Handle
    <2>2. Head(q) = ADD(x.addr)
      BY <1>4, <1>x
    <2>3. Handled(s, t, q, r) /\ CmKeeps(s.cm, t.cm)
      BY <1>4, <2>1, <2>2, <1>r, AddHandled
    <2>4. Events(t.cm, r, c)
      BY <1>4, <2>3, <1>x, <1>r, QuietStep
    <2> QED
      BY <2>3, <2>4, <1>x, <1>r, <1>t
  <1>5. CASE x.op = "REMOVE" /\ x.addr \in Addr /\ x = REMOVE(x.addr) /\ Quiet(x)
    <2>1. t = CmRemove(s, x.addr, ow)
      BY <1>5, <1>t DEF Handle
    <2>2. Head(q) = REMOVE(x.addr)
      BY <1>5, <1>x
    <2>p. Removing(q, r, x.addr)
      BY <1>5, <2>2, <1>r, RemovingTail
    <2>3. Handled(s, t, q, r) /\ CmKeeps(s.cm, t.cm)
      BY <1>5, <2>1, <2>p, RemoveHandled
    <2>4. Events(t.cm, r, c)
      BY <1>5, <2>3, <1>x, <1>r, QuietStep
    <2> QED
      BY <2>3, <2>4, <1>x, <1>r, <1>t
  <1>6. CASE /\ x.op = "UP" /\ x.addr \in Addr /\ x = UP(x.addr)
             /\ \A b \in Addr : x # ADD(b) /\ x # REMOVE(b)
    <2>1. t = CmUp(s, x.addr)
      BY <1>6, <1>t DEF Handle
    <2>2. Head(q) = UP(x.addr)
      BY <1>6, <1>x
    <2>3. /\ s.cm[x.addr].link = "NONE"
          /\ \A n : Turned(s.cm, n, x.addr, TRUE, FALSE) => Events(n, Tail(q), c)
      BY <1>6, <2>2, UpStep
    <2>4. Handled(s, t, q, r) /\ Turned(s.cm, t.cm, x.addr, TRUE, FALSE)
      BY <1>6, <2>1, <2>3, <1>p, UpHandled
    <2> QED
      BY <2>3, <2>4, <1>x, <1>r, <1>t
  <1>7. CASE /\ x.op = "READY" /\ x.addr \in Addr /\ x = READY(x.addr)
             /\ \A b \in Addr : x # ADD(b) /\ x # REMOVE(b)
    <2>1. t = CmReady(s, x.addr)
      BY <1>7, <1>t DEF Handle
    <2>2. Head(q) = READY(x.addr)
      BY <1>7, <1>x
    <2>3. /\ s.cm[x.addr].link # "NONE" /\ ~s.cm[x.addr].told
          /\ \A n : Turned(s.cm, n, x.addr, TRUE, TRUE) => Events(n, Tail(q), c)
      BY <1>7, <2>2, ReadyStep
    <2>4. Handled(s, t, q, r) /\ Turned(s.cm, t.cm, x.addr, TRUE, TRUE)
      BY <1>7, <2>1, <2>3, <1>p, ReadyHandled
    <2> QED
      BY <2>3, <2>4, <1>x, <1>r, <1>t
  <1>8. CASE /\ x.op = "DOWN" /\ x.addr \in Addr /\ x = DOWN(x.addr)
             /\ \A b \in Addr : x # ADD(b) /\ x # REMOVE(b)
    <2>1. t = CmDown(s, x.addr)
      BY <1>8, <1>t DEF Handle
    <2>2. Head(q) = DOWN(x.addr)
      BY <1>8, <1>x
    <2>3. Handled(s, t, q, r) /\ Turned(s.cm, t.cm, x.addr, FALSE, FALSE)
      BY <1>8, <2>1, <1>p, DownHandled
    <2>4. Events(t.cm, Tail(q), c)
      BY <1>8, <2>2, <2>3, DownStep
    <2> QED
      BY <2>3, <2>4, <1>x, <1>r, <1>t
  <1> QED
    BY <1>1, <1>2, <1>3, <1>4, <1>5, <1>6, <1>7, <1>8, TaskKinds

-----------------------------------------------------------------------------
(* The actions.                                                            *)

\* The same stack, as the state and as the record of a task.
Same(s, u) == u.apps = s.apps /\ u.links = s.links /\ u.cleaning = s.cleaning /\ u.cm = s.cm

LEMMA SameMeans ==
    ASSUME NEW s, NEW u, Same(s, u), NEW q
    PROVE  /\ AppsMatch(s) <=> AppsMatch(u)
           /\ TableTold(s) <=> TableTold(u)
           /\ Due(s, q) <=> Due(u, q)
  <1>1. AppsMatch(s) <=> AppsMatch(u)
    BY DEF Same, AppsMatch, InUse, Unused
  <1>2. TableTold(s) <=> TableTold(u)
    BY DEF Same, TableTold
  <1>3. (TableTrue(s) <=> TableTrue(u)) /\ (KeptDue(s) <=> KeptDue(u))
    BY DEF Same, TableTrue, KeptDue
  <1>4. LinksDue(s, q) <=> LinksDue(u, q)
    BY DEF Same, LinksDue
  <1>5. CleanDue(s, q) <=> CleanDue(u, q)
    BY DEF Same, CleanDue, InUse, Unused, Released
  <1> QED
    BY <1>1, <1>2, <1>3, <1>4, <1>5 DEF Due

LEMMA StackIs ==
    ASSUME TypeOK, Safe(ssap, tasks, conn), NEW bad \in Failures \cup {"NONE"}
    PROVE  /\ Sound(Stack(bad)) /\ Stack(bad).out = <<>> /\ Stack(bad).bad = bad
           /\ Stack(bad).cm = ssap.cm /\ Same(ssap, Stack(bad)) /\ Events(ssap.cm, tasks, conn)
  <1>1. PICK s : s = Stack(bad)
    OBVIOUS
  <1>2. /\ s \in StackRec /\ s.out = <<>> /\ s.bad = bad /\ s.cm = ssap.cm /\ Same(ssap, s)
    BY <1>1 DEF TypeOK, Stack, StackRec, Same
  <1>3. AppsMatch(s) /\ TableTold(s) /\ CmWell(s.cm)
    BY <1>2, SameMeans DEF Safe
  <1>4. Events(ssap.cm, tasks, conn)
    BY DEF Safe, Events
  <1> QED
    BY <1>1, <1>2, <1>3, <1>4 DEF Sound

LEMMA BecomesKeeps ==
    ASSUME SInv, NEW bad \in Failures \cup {"NONE"}, NEW left \in Seq(Task), NEW t,
           Handled(Stack(bad), t, tasks, left), Events(t.cm, left, conn), Becomes(t, left),
           conn' = conn, reqs' \in 0 .. MaxReq, air' \in 0 .. MaxAir, faults' \in 0 .. MaxFault,
           faults' = 0 => faults = 0 /\ bad = "NONE"
    PROVE  SInv'
  <1>0. TypeOK /\ Safe(ssap, tasks, conn) /\ (Roomy /\ faults = 0 => Due(ssap, tasks))
    BY DEF SInv
  <1>1. /\ Stack(bad).bad = bad /\ Same(ssap, Stack(bad))
    BY <1>0, StackIs
  <1>2. /\ Sound(t) /\ t.out \in Seq(Task) /\ \A k \in 1 .. Len(t.out) : Quiet(t.out[k])
        /\ Roomy /\ Stack(bad).bad = "NONE" /\ Due(Stack(bad), tasks) => Due(t, left \o t.out)
    BY DEF Handled
  <1>3. tasks' = left \o t.out
        /\ ssap' = [apps |-> t.apps, links |-> t.links, cleaning |-> t.cleaning, cm |-> t.cm]
    BY DEF Becomes
  <1>4. Same(t, ssap') /\ ssap'.cm = t.cm
    BY <1>3 DEF Same
  <1>5. t \in StackRec /\ AppsMatch(t) /\ CmWell(t.cm) /\ TableTold(t)
    BY <1>2 DEF Sound
  <1>6. Events(t.cm, tasks', conn)
    BY <1>2, <1>3, EventsPosts
  <1>7. AppsMatch(ssap') /\ TableTold(ssap')
    BY <1>4, <1>5, SameMeans
  <1>8. Safe(ssap', tasks', conn')
    BY <1>4, <1>5, <1>6, <1>7 DEF Safe, Events
  <1>9. TypeOK'
    <2>1. tasks' \in Seq(Task)
      BY <1>2, <1>3, ConcatFacts
    <2>2. conn' \subseteq Addr
      BY <1>0 DEF TypeOK
    <2>3. /\ ssap'.apps \in [AppIds -> RegParam \cup {NoApp}] /\ ssap'.links \in [Addr -> LinkStates]
          /\ ssap'.cleaning \in BOOLEAN /\ ssap'.cm \in [Addr -> CmLink]
      BY <1>4, <1>5, StackFacts DEF Same
    <2> QED
      BY <2>1, <2>2, <2>3 DEF TypeOK
  <1>10. ASSUME Roomy, faults' = 0 PROVE Due(ssap', tasks')
    <2>1. Due(ssap, tasks) /\ bad = "NONE"
      BY <1>0, <1>10
    <2>2. Due(Stack(bad), tasks)
      BY <2>1, <1>1, SameMeans
    <2>3. Due(t, tasks')
      BY <2>1, <2>2, <1>1, <1>2, <1>3, <1>10
    <2> QED
      BY <2>3, <1>4, SameMeans
  <1>11. Roomy' <=> Roomy
    BY DEF Roomy
  <1> QED
    BY <1>8, <1>9, <1>10, <1>11 DEF SInv

\* One more task at the end of the work list: a call of a service, or an event of the
\* controller.
LEMMA ArrivalKeeps ==
    ASSUME SInv, NEW x \in Task, NEW d \in SUBSET Addr, Turns(x, conn, d),
           \A b \in Addr : x # ADD(b),
           \A b \in Addr : x = READY(b) => /\ ssap.cm[b].link # "NONE" /\ ~ssap.cm[b].told
                                           /\ ~Contains(tasks, READY(b)) /\ ~Contains(tasks, DOWN(b)),
           tasks' = Append(tasks, x), conn' = d, ssap' = ssap, faults' = faults,
           reqs' \in 0 .. MaxReq, air' \in 0 .. MaxAir
    PROVE  SInv'
  <1>0. TypeOK /\ Safe(ssap, tasks, conn) /\ (Roomy /\ faults = 0 => Due(ssap, tasks))
    BY DEF SInv
  <1>1. tasks \in Seq(Task)
    BY <1>0 DEF TypeOK
  <1>2. /\ Sound(Stack("NONE")) /\ Same(ssap, Stack("NONE")) /\ Events(ssap.cm, tasks, conn)
    BY <1>0, StackIs
  <1>3. Events(ssap.cm, Append(tasks, x), d)
    BY <1>1, <1>2, EventsAppend
  <1>4. Safe(ssap', tasks', conn')
    BY <1>0, <1>3 DEF Safe, Events
  <1>5. TypeOK'
    <2>1. Append(tasks, x) \in Seq(Task)
      BY <1>1
    <2> QED
      BY <1>0, <2>1 DEF TypeOK
  <1>s. <<x>> \in Seq(Task)
    OBVIOUS
  <1>6. PICK o \in Seq(Task) : o = <<x>>
    BY <1>s
  <1>7. Append(tasks, x) = tasks \o o
    BY <1>1, <1>6
  <1>8. ASSUME NEW b \in Addr PROVE PassesOn(tasks, tasks \o o, b)
    <2>1. ~Contains(o, ADD(b))
      BY <1>6 DEF Contains
    <2> QED
      BY <1>1, <2>1, PassesConcat
  <1>9. ASSUME Roomy, faults' = 0 PROVE Due(ssap', tasks')
    <2>1. Due(Stack("NONE"), tasks)
      BY <1>0, <1>2, <1>9, SameMeans
    <2>2. Stack("NONE") \in StackRec
      BY <1>2 DEF Sound
    <2>3. Due(Stack("NONE"), tasks \o o)
      BY <2>1, <2>2, <1>8, DueFrom
    <2>4. Due(ssap, tasks \o o)
      BY <2>3, <1>2, SameMeans
    <2> QED
      BY <2>4, <1>7
  <1>10. Roomy' <=> Roomy
    BY DEF Roomy
  <1> QED
    BY <1>4, <1>5, <1>9, <1>10 DEF SInv

\* The calls of the services.
LEMMA CallKeeps ==
    ASSUME SInv, NEW x \in Task, Quiet(x), \A b \in Addr : x # ADD(b), Call(x)
    PROVE  SInv'
  <1>1. TypeOK
    BY DEF SInv
  <1>2. conn \in SUBSET Addr /\ reqs \in 0 .. MaxReq /\ air \in 0 .. MaxAir
    BY <1>1 DEF TypeOK
  <1>3. reqs' \in 0 .. MaxReq
    BY <1>2, SsapLinkAssumption DEF Call
  <1>4. /\ tasks' = Append(tasks, x) /\ conn' = conn /\ ssap' = ssap /\ faults' = faults
        /\ air' = air
    BY DEF Call
  <1>5. Turns(x, conn, conn) /\ \A b \in Addr : x # READY(b)
    BY DEF Quiet, Turns
  <1> QED
    BY <1>2, <1>3, <1>4, <1>5, ArrivalKeeps

LEMMA ServiceKeeps ==
    ASSUME SInv
    PROVE  /\ \A p \in AppIds : Connect(p) \/ Disconnect(p) \/ Deregister(p) => SInv'
           /\ \A a \in Addr : Register(a) => SInv'
           /\ Clean => SInv'
  <1>1. ASSUME NEW p \in AppIds, NEW k \in {"CONNECT", "DISCONNECT", "DEREGISTER"},
               Call([op |-> k, app |-> p])
        PROVE  SInv'
    <2>1. PICK x : x = [op |-> k, app |-> p]
      OBVIOUS
    <2>2. x \in Task /\ x.op = k
      BY <2>1 DEF Task
    <2>3. Quiet(x) /\ \A b \in Addr : x # ADD(b)
      BY <2>2, TaskKinds
    <2> QED
      BY <1>1, <2>1, <2>2, <2>3, CallKeeps
  <1>2. ASSUME NEW a \in Addr, Call([op |-> "REGISTER", addr |-> a])
        PROVE  SInv'
    <2>1. PICK x : x = [op |-> "REGISTER", addr |-> a]
      OBVIOUS
    <2>2. x \in Task /\ x.op = "REGISTER"
      BY <2>1 DEF Task
    <2>3. Quiet(x) /\ \A b \in Addr : x # ADD(b)
      BY <2>2, TaskKinds
    <2> QED
      BY <1>2, <2>1, <2>2, <2>3, CallKeeps
  <1>3. ASSUME Call([op |-> "CLEAN"])
        PROVE  SInv'
    <2>1. PICK x : x = [op |-> "CLEAN"]
      OBVIOUS
    <2>2. x \in Task /\ x.op = "CLEAN"
      BY <2>1 DEF Task
    <2>3. Quiet(x) /\ \A b \in Addr : x # ADD(b)
      BY <2>2, TaskKinds
    <2> QED
      BY <1>3, <2>1, <2>2, <2>3, CallKeeps
  <1> QED
    BY <1>1, <1>2, <1>3 DEF Connect, Disconnect, Deregister, Register, Clean

\* What the controller does.
LEMMA ControllerKeeps ==
    ASSUME SInv, NEW a \in Addr, CtlConnect(a) \/ CtlRead(a) \/ CtlRelease(a) \/ CtlLose(a)
    PROVE  SInv'
  <1>0. TypeOK
    BY DEF SInv
  <1>1. conn \in SUBSET Addr /\ reqs \in 0 .. MaxReq /\ air \in 0 .. MaxAir
    BY <1>0 DEF TypeOK
  <1>2. /\ UP(a) \in Task /\ READY(a) \in Task /\ DOWN(a) \in Task
    BY DEF UP, READY, DOWN, Task
  <1>3. \A b \in Addr : /\ UP(a) # ADD(b) /\ READY(a) # ADD(b) /\ DOWN(a) # ADD(b)
                        /\ UP(a) # READY(b) /\ DOWN(a) # READY(b)
                        /\ UP(a) # DOWN(b) /\ DOWN(a) # UP(b) /\ READY(a) # UP(b) /\ READY(a) # DOWN(b)
                        /\ (UP(a) = UP(b) => a = b) /\ (DOWN(a) = DOWN(b) => a = b)
                        /\ (READY(a) = READY(b) => a = b)
    BY DEF UP, READY, DOWN, ADD
  <1>4. CASE CtlConnect(a)
    <2>1. /\ a \notin conn /\ conn' = conn \cup {a} /\ tasks' = Append(tasks, UP(a))
          /\ ssap' = ssap /\ reqs' = reqs /\ faults' = faults
      BY <1>4 DEF CtlConnect, UP
    <2>2. air' \in 0 .. MaxAir
      BY <1>4, <1>1, SsapLinkAssumption DEF CtlConnect
    <2>3. Turns(UP(a), conn, conn \cup {a})
      BY <2>1, <1>3 DEF Turns
    <2>4. conn \cup {a} \in SUBSET Addr
      BY <1>1
    <2> QED
      BY <2>1, <2>2, <2>3, <2>4, <1>1, <1>2, <1>3, ArrivalKeeps
  <1>5. CASE CtlRead(a)
    <2>1. /\ conn' = conn /\ tasks' = Append(tasks, READY(a)) /\ air' = air
          /\ ssap' = ssap /\ reqs' = reqs /\ faults' = faults
          /\ ssap.cm[a].link # "NONE" /\ ~ssap.cm[a].told
          /\ ~Contains(tasks, READY(a)) /\ ~Contains(tasks, DOWN(a))
      BY <1>5 DEF CtlRead, READY, DOWN
    <2>2. Turns(READY(a), conn, conn)
      BY <1>3 DEF Turns
    <2> QED
      BY <2>1, <2>2, <1>1, <1>2, <1>3, ArrivalKeeps
  <1>6. CASE CtlRelease(a) \/ CtlLose(a)
    <2>0. Gone(a)
      BY <1>6 DEF CtlRelease, CtlLose
    <2>1. /\ a \in conn /\ conn' = conn \ {a} /\ tasks' = Append(tasks, DOWN(a))
          /\ ssap' = ssap /\ reqs' = reqs /\ faults' = faults
      BY <2>0 DEF Gone, DOWN
    <2>2. air' \in 0 .. MaxAir
      BY <1>6, <1>1, SsapLinkAssumption DEF CtlRelease, CtlLose
    <2>3. Turns(DOWN(a), conn, conn \ {a})
      BY <2>1, <1>3 DEF Turns
    <2>4. conn \ {a} \in SUBSET Addr
      BY <1>1
    <2> QED
      BY <2>1, <2>2, <2>3, <2>4, <1>1, <1>2, <1>3, ArrivalKeeps
  <1> QED
    BY <1>4, <1>5, <1>6

\* CM gives up, for itself or for another module.
LEMMA CmOwnKeeps ==
    ASSUME SInv, NEW a \in Addr, Timeout(a) \/ OtherRemoves(a)
    PROVE  SInv'
  <1>0. TypeOK /\ Safe(ssap, tasks, conn)
    BY DEF SInv
  <1>1. tasks \in Seq(Task) /\ reqs \in 0 .. MaxReq /\ air \in 0 .. MaxAir /\ faults \in 0 .. MaxFault
    BY <1>0 DEF TypeOK
  <1>n. "NONE" \in Failures \cup {"NONE"}
    OBVIOUS
  <1>2. PICK s : s = Stack("NONE")
    OBVIOUS
  <1>3. Sound(s) /\ s.out = <<>> /\ s.cm = ssap.cm /\ Events(s.cm, tasks, conn)
    BY <1>0, <1>2, <1>n, StackIs
  <1>4. CASE Timeout(a)
    <2>1. PICK t : t = CmTimeout(s, a)
      OBVIOUS
    <2>2. /\ s.cm[a].waits /\ Becomes(t, tasks) /\ conn' = conn /\ reqs' = reqs /\ air' = air
          /\ faults' = faults
      BY <1>4, <1>2, <1>3, <2>1 DEF Timeout
    <2>3. Handled(s, t, tasks, tasks) /\ CmKeeps(s.cm, t.cm)
      BY <1>1, <1>3, <2>1, <2>2, TimeoutHandled
    <2>4. Events(t.cm, tasks, conn)
      BY <2>3, <1>3, EventsKeep
    <2> QED
      BY <2>2, <2>3, <2>4, <1>1, <1>2, <1>n, BecomesKeeps
  <1>5. CASE OtherRemoves(a)
    <2>0. PICK ow \in BOOLEAN : ow = TRUE
      OBVIOUS
    <2>1. PICK t : t = CmRemove(s, a, ow)
      OBVIOUS
    <2>2. /\ Becomes(t, tasks) /\ conn' = conn /\ reqs' = reqs /\ faults' = faults
      BY <1>5, <1>2, <2>0, <2>1, Zenon DEF OtherRemoves
    <2>a. air' \in 0 .. MaxAir
      BY <1>5, <1>1, SsapLinkAssumption DEF OtherRemoves
    <2>3. Removing(tasks, tasks, a)
      BY RemovingSame
    <2>4. Handled(s, t, tasks, tasks) /\ CmKeeps(s.cm, t.cm)
      BY <1>1, <1>3, <2>1, <2>3, RemoveHandled
    <2>5. Events(t.cm, tasks, conn)
      BY <2>4, <1>3, EventsKeep
    <2> QED
      BY <2>2, <2>a, <2>4, <2>5, <1>1, <1>2, <1>n, BecomesKeeps
  <1> QED
    BY <1>4, <1>5

LEMMA RunTaskKeeps ==
    ASSUME SInv, RunTask
    PROVE  SInv'
  <1>0. TypeOK /\ Safe(ssap, tasks, conn)
    BY DEF SInv
  <1>1. tasks \in Seq(Task) /\ reqs \in 0 .. MaxReq /\ air \in 0 .. MaxAir /\ faults \in 0 .. MaxFault
    BY <1>0 DEF TypeOK
  <1>2. PICK bad \in {"NONE"} \cup (IF faults < MaxFault THEN Failures ELSE {}) :
          /\ faults' = faults + (IF bad = "NONE" THEN 0 ELSE 1)
          /\ \E othersWait \in IF Head(tasks).op = "REMOVE" THEN BOOLEAN ELSE {FALSE} :
                \E s \in {Handle(Stack(bad), Head(tasks), othersWait)} : Becomes(s, Tail(tasks))
    BY DEF RunTask
  <1>3. PICK ow \in BOOLEAN : Becomes(Handle(Stack(bad), Head(tasks), ow), Tail(tasks))
    BY <1>2
  <1>4. /\ tasks # <<>> /\ conn' = conn /\ reqs' = reqs /\ air' = air
    BY DEF RunTask
  <1>5. bad \in Failures \cup {"NONE"}
    BY <1>2
  <1>6. /\ faults' \in 0 .. MaxFault
        /\ faults' = 0 => faults = 0 /\ bad = "NONE"
    BY <1>1, <1>2, SsapLinkAssumption
  <1>7. PICK s : s = Stack(bad)
    OBVIOUS
  <1>8. PICK t : t = Handle(s, Head(tasks), ow)
    OBVIOUS
  <1>9. Sound(s) /\ s.out = <<>> /\ Events(s.cm, tasks, conn)
    BY <1>0, <1>5, <1>7, StackIs
  <1>10. Handled(s, t, tasks, Tail(tasks)) /\ Events(t.cm, Tail(tasks), conn)
    BY <1>1, <1>4, <1>8, <1>9, TaskHandled
  <1>11. Tail(tasks) \in Seq(Task)
    BY <1>1, <1>4, TailFacts
  <1> QED
    BY <1>1, <1>3, <1>4, <1>5, <1>6, <1>7, <1>8, <1>10, <1>11, BecomesKeeps

LEMMA SInvInit ==
    ASSUME Init
    PROVE  SInv
  <1>1. TypeOK
    BY SsapLinkAssumption DEF Init, TypeOK, CmLink, LinkStates
  <1>2. Len(tasks) = 0 /\ tasks = <<>>
    BY DEF Init
  <1>3. /\ \A p \in AppIds : ssap.apps[p] = NoApp
        /\ \A a \in Addr : ssap.links[a] = "NONE" /\ ssap.cm[a].link = "NONE" /\ ~ssap.cm[a].told
        /\ ~ssap.cleaning /\ conn = {}
    BY DEF Init
  <1>4. AppsMatch(ssap) /\ CmWell(ssap.cm) /\ TableTold(ssap) /\ ReadsWell(ssap.cm, tasks)
    <2>1. AppsMatch(ssap)
      BY <1>3 DEF AppsMatch, InUse
    <2>2. CmWell(ssap.cm) /\ TableTold(ssap)
      BY <1>3 DEF CmWell, TableTold
    <2>3. ReadsWell(ssap.cm, tasks)
      BY <1>2 DEF ReadsWell
    <2> QED
      BY <2>1, <2>2, <2>3
  <1>5. Connected(ssap.cm, tasks, conn)
    <2>1. PICK h : h = [i \in 0 .. 0 |-> {}]
      OBVIOUS
    <2>2. h \in [0 .. Len(tasks) -> SUBSET Addr] /\ h[0] = {}
      BY <2>1, <1>2
    <2>3. {a \in Addr : ssap.cm[a].link # "NONE"} = {}
      BY <1>3
    <2>4. History(h, ssap.cm, tasks, conn)
      BY <2>2, <2>3, <1>2, <1>3 DEF History
    <2> QED
      BY <2>2, <2>4 DEF Connected
  <1>6. Due(ssap, tasks)
    BY <1>3 DEF Due, TableTrue, LinksDue, KeptDue, CleanDue
  <1> QED
    BY <1>1, <1>4, <1>5, <1>6 DEF SInv, Safe

LEMMA SInvNext ==
    ASSUME SInv, [Next]_vars
    PROVE  SInv'
  <1>1. ASSUME NEW p \in AppIds, Connect(p) \/ Disconnect(p) \/ Deregister(p) PROVE SInv'
    BY <1>1, ServiceKeeps
  <1>2. ASSUME NEW a \in Addr, Register(a) PROVE SInv'
    BY <1>2, ServiceKeeps
  <1>3. CASE Clean
    BY <1>3, ServiceKeeps
  <1>4. CASE RunTask
    BY <1>4, RunTaskKeeps
  <1>5. ASSUME NEW a \in Addr, Timeout(a) \/ OtherRemoves(a) PROVE SInv'
    BY <1>5, CmOwnKeeps
  <1>6. ASSUME NEW a \in Addr, CtlConnect(a) \/ CtlRead(a) \/ CtlRelease(a) \/ CtlLose(a)
        PROVE  SInv'
    BY <1>6, ControllerKeeps
  <1>7. CASE UNCHANGED vars
    <2>1. ssap' = ssap /\ tasks' = tasks /\ conn' = conn /\ reqs' = reqs /\ air' = air /\ faults' = faults
      BY <1>7 DEF vars
    <2>2. TypeOK' <=> TypeOK
      BY <2>1 DEF TypeOK
    <2>3. Roomy' <=> Roomy
      BY DEF Roomy
    <2> QED
      BY <2>1, <2>2, <2>3 DEF SInv
  <1> QED
    BY <1>1, <1>2, <1>3, <1>4, <1>5, <1>6, <1>7 DEF Next

-----------------------------------------------------------------------------
(* The theorems.                                                           *)

\* The inductive invariant: types, the agreement of applications, table, CM and work list,
\* and, while no call failed and the table has room for every peer, what is due.
THEOREM SInvAlways == Spec => []SInv
  <1>1. Init => SInv
    BY SInvInit
  <1>2. SInv /\ [Next]_vars => SInv'
    BY SInvNext
  <1> QED
    BY <1>1, <1>2, PTL DEF Spec

\* Every part of SSAP's and CM's state, the work list and the counters keep their types:
\* no handler leaves a link or an application in a state the code has no case for.
THEOREM TypeCorrect == Spec => []TypeOK
  <1>1. SInv => TypeOK
    BY DEF SInv
  <1> QED
    BY <1>1, SInvAlways, PTL

\* Whatever fails and however small the table is: an application that is connecting,
\* connected or disconnecting is in the state of the link it shares, and the table holds a
\* connection only if CM reported it.
THEOREM AppsAlwaysFollow == Spec => [](AppsMatch(ssap) /\ TableTold(ssap))
  <1>1. SInv => AppsMatch(ssap) /\ TableTold(ssap)
    BY DEF SInv, Safe
  <1> QED
    BY <1>1, SInvAlways, PTL

LEMMA SInvMatches ==
    ASSUME Roomy, SInv
    PROVE  AppsMatchLink
  <1>1. AppsMatch(ssap) /\ TableTold(ssap)
    BY DEF SInv, Safe
  <1>2. faults = 0 => TableTrue(ssap)
    BY DEF SInv, Due
  <1>3. \A p \in Registered(ssap) : ~Unused(ssap, p) => ssap.apps[p].state = ssap.links[ssap.apps[p].addr]
    BY <1>1 DEF AppsMatch, InUse, Registered
  <1>4. ASSUME NEW a \in Addr
        PROVE  /\ ssap.links[a] \in {"CONNECTED", "DISCONNECTING"} => ssap.cm[a].told
               /\ ssap.cm[a].told /\ ssap.cm[a].link = "CONNECTED" /\ faults = 0 =>
                      ssap.links[a] \in {"CONNECTED", "DISCONNECTING"}
    BY <1>1, <1>2 DEF TableTold, TableTrue
  <1> QED
    BY <1>3, <1>4 DEF AppsMatchLink

LEMMA SInvDue ==
    ASSUME Roomy, SInv
    PROVE  AnswerIsDue
  <1>0. SUFFICES ASSUME faults = 0
                 PROVE  AnswerIsDue
    BY DEF AnswerIsDue
  <1>1. TypeOK /\ LinksDue(ssap, tasks) /\ KeptDue(ssap) /\ CleanDue(ssap, tasks)
    BY <1>0 DEF SInv, Due
  <1>q. ASSUME NEW a PROVE /\ Queued("ADD", a) <=> Contains(tasks, ADD(a))
                           /\ Queued("REMOVE", a) <=> Contains(tasks, REMOVE(a))
    BY DEF Queued, ADD, REMOVE
  <1>2. ASSUME NEW a \in Addr
        PROVE  /\ ssap.links[a] = "CONNECTING" =>
                      \/ Queued("ADD", a) \/ ssap.cm[a].waits
                      \/ ssap.cm[a].link # "NONE" /\ ~ssap.cm[a].told
               /\ ssap.links[a] = "DISCONNECTING" => Leaving(a)
    BY <1>1, <1>q DEF LinksDue, Leaving
  <1>3. ASSUME NEW p \in Registered(ssap), ssap.apps[p].next # "NONE"
        PROVE  ssap.links[ssap.apps[p].addr] \in {"CONNECTING", "DISCONNECTING"}
    BY <1>1, <1>3 DEF KeptDue, Registered
  <1>4. ASSUME ssap.cleaning PROVE \E a \in Addr : Leaving(a)
    <2>1. PICK a \in Addr : Released(ssap, tasks, a)
      BY <1>1, <1>4 DEF CleanDue
    <2>2. LastRemove(tasks, a) => Contains(tasks, REMOVE(a))
      BY DEF LastRemove, Contains
    <2>3. Leaving(a)
      BY <2>1, <2>2, <1>q DEF Released, Leaving
    <2> QED
      BY <2>3
  <1> QED
    BY <1>2, <1>3, <1>4 DEF AnswerIsDue

\* While the table of links has an entry for every peer, the applications are in the state
\* of the link they share and SSAP's table agrees with what CM reported last, until a call
\* fails (SsapcAppClientDisconnectCmLinkCheck, SsapLinkHandleRecordLinkStateFromCm).
THEOREM AppsAlwaysMatch ==
    ASSUME Roomy
    PROVE  Spec => []AppsMatchLink
  <1>1. SInv => AppsMatchLink
    BY SInvMatches
  <1> QED
    BY <1>1, SInvAlways, PTL

\* While the table of links has an entry for every peer and no call fails, nobody waits for
\* an answer that does not come: a link that is being connected or disconnected is in CM's
\* hands, an operation is kept only while an answer is due that replays it, and switching
\* off waits for a connection that is leaving.
THEOREM AnswersAlwaysDue ==
    ASSUME Roomy
    PROVE  Spec => []AnswerIsDue
  <1>1. SInv => AnswerIsDue
    BY SInvDue
  <1> QED
    BY <1>1, SInvAlways, PTL

=============================================================================
