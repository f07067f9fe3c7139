--------------------------- MODULE CmConnectProofs ---------------------------
(***************************************************************************)
(* The links of connection management, for any number of devices, modules, *)
(* handles, requests, events of the peers and failing calls.               *)
(*                                                                         *)
(* What CM believes and what the controller did differ by the events under *)
(* way.  The invariant says in which order these can stand: a connection   *)
(* on a handle, or with a device, that already has a link or a connection  *)
(* before it in the queue comes behind the end of that one.                *)
(***************************************************************************)
EXTENDS CmConnect, NaturalsInduction, WellFoundedInduction, SequenceTheorems, FiniteSetTheorems, TLAPS

\* The members of a sequence.
Items(s) == {s[i] : i \in 1 .. Len(s)}

\* The links: the one that stands for the command has neither address nor handle; no device
\* and no handle has two.
LinksOk(ls) ==
    /\ ls \in Seq(Link)
    /\ \A i \in 1 .. Len(ls) :
         /\ ls[i].addr = Zero <=> ls[i].lcid = NoLcid
         /\ ls[i].addr = Zero <=> ls[i].status = "CONNECTING"
    /\ \A i, j \in 1 .. Len(ls) : i # j => /\ ls[i].addr # ls[j].addr
                                           /\ ls[i].lcid # ls[j].lcid

\* The links with a connection, and the devices they are with and their handles.
Real(ls) == {ls[i] : i \in {j \in 1 .. Len(ls) : ls[j].lcid # NoLcid}}
Pairs(K) == {<<k.addr, k.lcid>> : k \in K}

Complete(q, j) == q[j].ev = "COMPLETE"
Gone(q, l, j) == q[j].ev = "DISCONNECT" /\ q[j].lcid = l

\* Links with the devices and handles of R, the events q and the connections conn agree.
\* A connection comes behind the end of the link it would double,
LinkFirst(R, q) ==
    \A p \in R, j \in 1 .. Len(q) :
        Complete(q, j) /\ (q[j].addr = p[1] \/ q[j].lcid = p[2]) =>
            \E i \in 1 .. Len(q) : i < j /\ Gone(q, p[2], i)

\* and behind the end of the connection before it;
EndFirst(q) ==
    \A i, j \in 1 .. Len(q) :
        /\ i < j /\ Complete(q, i) /\ Complete(q, j)
        /\ q[j].addr = q[i].addr \/ q[j].lcid = q[i].lcid
        => \E k \in 1 .. Len(q) : i < k /\ k < j /\ Gone(q, q[i].lcid, k)

\* what came up, or has a link, is there or its end follows;
UpOrEnds(q, conn) ==
    \A j \in 1 .. Len(q) :
        Complete(q, j) => \/ conn[q[j].lcid] = q[j].addr
                          \/ \E i \in 1 .. Len(q) : j < i /\ Gone(q, q[j].lcid, i)

LinkedOrEnds(R, q, conn) ==
    \A p \in R : conn[p[2]] = p[1] \/ \E i \in 1 .. Len(q) : Gone(q, p[2], i)

\* a handle that is used again is announced behind its end.
UsedAgain(q, conn) ==
    \A l \in Lcid, i \in 1 .. Len(q) :
        Gone(q, l, i) /\ conn[l] # Zero =>
            \E j \in 1 .. Len(q) : i < j /\ Complete(q, j) /\ q[j].lcid = l

OneEach(conn) == \A k, l \in Lcid : conn[k] = conn[l] /\ conn[k] # Zero => k = l

Agree(R, q, conn) ==
    /\ LinkFirst(R, q) /\ EndFirst(q)
    /\ UpOrEnds(q, conn) /\ LinkedOrEnds(R, q, conn)
    /\ UsedAgain(q, conn) /\ OneEach(conn)

\* No connection is forgotten: K are the links, Q the events and C the commands.
Announced(Q, l) == \E e \in Q : e.ev = "COMPLETE" /\ e.lcid = l
Leaves(Q, C, l) ==
    \/ \E e \in Q : e.ev = "DISCONNECT" /\ e.lcid = l
    \/ \E c \in C : c.op = "RELEASE" /\ c.lcid = l
Known(K, Q, C, conn) ==
    \A l \in Lcid : conn[l] # Zero =>
        \/ <<conn[l], l>> \in Pairs(K)
        \/ Announced(Q, l)
        \/ \E c \in C : c.op = "RELEASE" /\ c.lcid = l

\* The modules will hear of a link that they do not know, or that goes.
Read(Q, C, l) ==
    \/ \E e \in Q : e.ev \in Reads /\ e.lcid = l
    \/ \E c \in C : c.op \in Reads /\ c.lcid = l
Heard(K, Q, C) ==
    \A k \in K : /\ ~k.told => Read(Q, C, k.lcid) \/ Leaves(Q, C, k.lcid)
                 /\ k.status = "DISCONNECTING" => Leaves(Q, C, k.lcid)

\* A request is answered by its timer or by such a link.
Pending(K, asks, devs) ==
    \A p \in asks :
        \/ p[1] \in devs[p[2]].direct
        \/ \E k \in K : k.addr = p[2] /\ (~k.told \/ k.status = "DISCONNECTING")

IInv ==
    /\ TypeOK
    /\ LinksOk(host.links)
    /\ Agree(Pairs(Real(host.links)), evts, ctl.conn)
    /\ faults = 0 => /\ Known(Real(host.links), Items(evts), Items(cmds), ctl.conn)
                     /\ Heard(Real(host.links), Items(evts), Items(cmds))
                     /\ Pending(Real(host.links), host.asks, host.devs)
-----------------------------------------------------------------------------
(* The queue of events.                                                    *)

\* A queue with one event more.
LEMMA Longer ==
  ASSUME NEW q \in Seq(Event), NEW e \in Event
  PROVE  /\ Append(q, e) \in Seq(Event)
         /\ Len(q) \in Nat /\ Len(Append(q, e)) = Len(q) + 1
         /\ \A i \in 1 .. Len(q) : Append(q, e)[i] = q[i]
         /\ Append(q, e)[Len(q) + 1] = e
BY AppendProperties, LenProperties

\* A queue without its oldest event.
LEMMA Shorter ==
  ASSUME NEW q \in Seq(Event), q # <<>>
  PROVE  /\ Tail(q) \in Seq(Event) /\ Head(q) \in Event /\ Head(q) = q[1]
         /\ Len(q) \in Nat /\ Len(Tail(q)) \in Nat /\ Len(q) = Len(Tail(q)) + 1
         /\ \A i \in 1 .. Len(Tail(q)) : Tail(q)[i] = q[i + 1]
         /\ \A j \in 2 .. Len(q) : j - 1 \in 1 .. Len(Tail(q)) /\ q[j] = Tail(q)[j - 1]
<1>1. Tail(q) \in Seq(Event) /\ Head(q) \in Event /\ Len(Tail(q)) = Len(q) - 1
         /\ \A i \in 1 .. Len(Tail(q)) : Tail(q)[i] = q[i + 1]
  BY HeadTailProperties
<1>2. Len(q) \in Nat /\ Len(Tail(q)) \in Nat
  BY <1>1, LenProperties
<1>3. Len(q) = Len(Tail(q)) + 1
  BY <1>1, <1>2
<1>4. ASSUME NEW j \in 2 .. Len(q)
      PROVE  j - 1 \in 1 .. Len(Tail(q)) /\ q[j] = Tail(q)[j - 1]
  <2>1. j - 1 \in 1 .. Len(Tail(q)) /\ (j - 1) + 1 = j
    BY <1>2, <1>3
  <2> QED BY <2>1, <1>1
<1>5. Head(q) = q[1]
  OBVIOUS
<1> QED BY <1>1, <1>2, <1>3, <1>4, <1>5

\* A connection comes up.
LEMMA AgreeConnect ==
  ASSUME NEW q \in Seq(Event), NEW conn \in [Lcid -> Addr \cup {Zero}],
         NEW R \in SUBSET (Addr \X Lcid), NEW a \in Addr, NEW l \in Lcid, NEW e \in Event,
         Agree(R, q, conn), conn[l] = Zero, \A k \in Lcid : conn[k] # a,
         e.ev = "COMPLETE", e.addr = a, e.lcid = l
  PROVE  Agree(R, Append(q, e), [conn EXCEPT ![l] = a])
<1> PICK t \in Seq(Event) : t = Append(q, e)
  BY Longer
<1> PICK n \in Nat : n = Len(q)
  BY Longer
<1> PICK c \in [Lcid -> Addr \cup {Zero}] : c = [conn EXCEPT ![l] = a]
  OBVIOUS
<1>1. Len(t) = n + 1 /\ t[n + 1] = e /\ \A i \in 1 .. n : t[i] = q[i]
  BY Longer
<1>2. c[l] = a /\ \A k \in Lcid : k # l => c[k] = conn[k]
  OBVIOUS
<1>3. \A i \in 1 .. n : q[i] \in Event
  BY ElementOfSeq
<1>4. \A i \in 1 .. n : Complete(q, i) => q[i].addr \in Addr /\ q[i].lcid \in Lcid
  BY <1>3 DEF Event, Complete, Reads
<1>5. a # Zero /\ Zero \notin Addr
  BY CmConnectAssumption
<1>6. LinkFirst(R, q) /\ EndFirst(q) /\ UpOrEnds(q, conn) /\ LinkedOrEnds(R, q, conn)
        /\ UsedAgain(q, conn) /\ OneEach(conn)
  BY DEF Agree
<1>7. \A p \in R : p[1] \in Addr /\ p[2] \in Lcid
  OBVIOUS
<1>8. \A j \in 1 .. n : /\ Complete(t, j) <=> Complete(q, j)
                        /\ \A k : Gone(t, k, j) <=> Gone(q, k, j)
  BY <1>1 DEF Complete, Gone
<1>9. Complete(t, n + 1) /\ \A k : ~Gone(t, k, n + 1)
  BY <1>1 DEF Complete, Gone
<1>11. LinkFirst(R, t)
  <2> SUFFICES ASSUME NEW p \in R, NEW j \in 1 .. n + 1, Complete(t, j),
                      t[j].addr = p[1] \/ t[j].lcid = p[2]
               PROVE  \E i \in 1 .. n + 1 : i < j /\ Gone(t, p[2], i)
    BY <1>1 DEF LinkFirst
  <2>1. CASE j \in 1 .. n
    <3>1. PICK i \in 1 .. n : i < j /\ Gone(q, p[2], i)
      BY <2>1, <1>6, <1>1, <1>8 DEF LinkFirst
    <3> QED BY <3>1, <1>8
  <2>2. CASE j = n + 1
    <3>1. conn[p[2]] # p[1]
      BY <2>2, <1>1, <1>5, <1>7
    <3>2. PICK i \in 1 .. n : Gone(q, p[2], i)
      BY <3>1, <1>6 DEF LinkedOrEnds
    <3> QED BY <3>2, <2>2, <1>8
  <2> QED BY <2>1, <2>2
<1>12. EndFirst(t)
  <2> SUFFICES ASSUME NEW i \in 1 .. n + 1, NEW j \in 1 .. n + 1, i < j, Complete(t, i), Complete(t, j),
                      t[j].addr = t[i].addr \/ t[j].lcid = t[i].lcid
               PROVE  \E k \in 1 .. n + 1 : i < k /\ k < j /\ Gone(t, t[i].lcid, k)
    BY <1>1 DEF EndFirst
  <2>0. i \in 1 .. n
    OBVIOUS
  <2>1. CASE j \in 1 .. n
    <3>1. PICK k \in 1 .. n : i < k /\ k < j /\ Gone(q, q[i].lcid, k)
      BY <2>0, <2>1, <1>6, <1>1, <1>8 DEF EndFirst
    <3> QED BY <3>1, <2>0, <1>1, <1>8
  <2>2. CASE j = n + 1
    <3>1. Complete(q, i) /\ q[i].addr \in Addr /\ q[i].lcid \in Lcid /\ t[i] = q[i]
      BY <2>0, <1>8, <1>4, <1>1
    <3>2. conn[q[i].lcid] # q[i].addr
      BY <2>2, <3>1, <1>1, <1>5
    <3>3. PICK k \in 1 .. n : i < k /\ Gone(q, q[i].lcid, k)
      BY <3>1, <3>2, <1>6, <2>0 DEF UpOrEnds
    <3> QED BY <3>3, <3>1, <2>2, <1>8
  <2> QED BY <2>1, <2>2
<1>13. UpOrEnds(t, c)
  <2> SUFFICES ASSUME NEW j \in 1 .. n + 1, Complete(t, j), c[t[j].lcid] # t[j].addr
               PROVE  \E i \in 1 .. n + 1 : j < i /\ Gone(t, t[j].lcid, i)
    BY <1>1 DEF UpOrEnds
  <2>1. j \in 1 .. n
    BY <1>1, <1>2
  <2>2. Complete(q, j) /\ q[j].addr \in Addr /\ q[j].lcid \in Lcid /\ t[j] = q[j]
    BY <2>1, <1>8, <1>4, <1>1
  <2>3. conn[q[j].lcid] # q[j].addr
    BY <2>2, <1>2, <1>5
  <2>4. PICK i \in 1 .. n : j < i /\ Gone(q, q[j].lcid, i)
    BY <2>1, <2>2, <2>3, <1>6 DEF UpOrEnds
  <2> QED BY <2>4, <2>2, <1>8
<1>14. LinkedOrEnds(R, t, c)
  <2> SUFFICES ASSUME NEW p \in R, c[p[2]] # p[1]
               PROVE  \E i \in 1 .. n + 1 : Gone(t, p[2], i)
    BY <1>1 DEF LinkedOrEnds
  <2>1. conn[p[2]] # p[1]
    BY <1>2, <1>5, <1>7
  <2>2. PICK i \in 1 .. n : Gone(q, p[2], i)
    BY <2>1, <1>6 DEF LinkedOrEnds
  <2> QED BY <2>2, <1>8
<1>15. UsedAgain(t, c)
  <2> SUFFICES ASSUME NEW k \in Lcid, NEW i \in 1 .. n + 1, Gone(t, k, i), c[k] # Zero
               PROVE  \E j \in 1 .. n + 1 : i < j /\ Complete(t, j) /\ t[j].lcid = k
    BY <1>1 DEF UsedAgain
  <2>1. i \in 1 .. n
    BY <1>9
  <2>2. CASE k = l
    BY <2>1, <2>2, <1>9, <1>1
  <2>3. CASE k # l
    <3>1. PICK j \in 1 .. n : i < j /\ Complete(q, j) /\ q[j].lcid = k
      BY <2>1, <2>3, <1>2, <1>6, <1>8 DEF UsedAgain
    <3>2. j \in 1 .. n + 1 /\ Complete(t, j) /\ t[j] = q[j]
      BY <3>1, <1>8, <1>1
    <3> QED BY <3>1, <3>2
  <2> QED BY <2>2, <2>3
<1>16. OneEach(c)
  BY <1>2, <1>6 DEF OneEach
<1> QED BY <1>11, <1>12, <1>13, <1>14, <1>15, <1>16 DEF Agree

\* A connection ends, or is told to have ended.
LEMMA AgreeGone ==
  ASSUME NEW q \in Seq(Event), NEW conn \in [Lcid -> Addr \cup {Zero}],
         NEW R \in SUBSET (Addr \X Lcid), NEW l \in Lcid, NEW e \in Event,
         Agree(R, q, conn), e.ev = "DISCONNECT", e.lcid = l
  PROVE  Agree(R, Append(q, e), [conn EXCEPT ![l] = Zero])
<1> PICK t \in Seq(Event) : t = Append(q, e)
  BY Longer
<1> PICK n \in Nat : n = Len(q)
  BY Longer
<1> PICK c \in [Lcid -> Addr \cup {Zero}] : c = [conn EXCEPT ![l] = Zero]
  OBVIOUS
<1>1. Len(t) = n + 1 /\ t[n + 1] = e /\ \A i \in 1 .. n : t[i] = q[i]
  BY Longer
<1>2. c[l] = Zero /\ \A k \in Lcid : k # l => c[k] = conn[k]
  OBVIOUS
<1>6. LinkFirst(R, q) /\ EndFirst(q) /\ UpOrEnds(q, conn) /\ LinkedOrEnds(R, q, conn)
        /\ UsedAgain(q, conn) /\ OneEach(conn)
  BY DEF Agree
<1>7. \A p \in R : p[1] \in Addr /\ p[2] \in Lcid
  OBVIOUS
<1>8. \A j \in 1 .. n : /\ Complete(t, j) <=> Complete(q, j)
                        /\ \A k : Gone(t, k, j) <=> Gone(q, k, j)
  BY <1>1 DEF Complete, Gone
<1>9. ~Complete(t, n + 1) /\ Gone(t, l, n + 1) /\ \A k : Gone(t, k, n + 1) => k = l
  BY <1>1 DEF Complete, Gone
<1>10. \A i \in 1 .. n : Complete(q, i) => q[i].addr \in Addr /\ q[i].lcid \in Lcid
  BY ElementOfSeq DEF Event, Complete, Reads
<1>11. LinkFirst(R, t)
  <2> SUFFICES ASSUME NEW p \in R, NEW j \in 1 .. n + 1, Complete(t, j),
                      t[j].addr = p[1] \/ t[j].lcid = p[2]
               PROVE  \E i \in 1 .. n + 1 : i < j /\ Gone(t, p[2], i)
    BY <1>1 DEF LinkFirst
  <2>1. j \in 1 .. n
    BY <1>9
  <2>2. PICK i \in 1 .. n : i < j /\ Gone(q, p[2], i)
    BY <2>1, <1>6, <1>1, <1>8 DEF LinkFirst
  <2> QED BY <2>2, <1>8
<1>12. EndFirst(t)
  <2> SUFFICES ASSUME NEW i \in 1 .. n + 1, NEW j \in 1 .. n + 1, i < j, Complete(t, i), Complete(t, j),
                      t[j].addr = t[i].addr \/ t[j].lcid = t[i].lcid
               PROVE  \E k \in 1 .. n + 1 : i < k /\ k < j /\ Gone(t, t[i].lcid, k)
    BY <1>1 DEF EndFirst
  <2>1. i \in 1 .. n /\ j \in 1 .. n
    BY <1>9
  <2>2. PICK k \in 1 .. n : i < k /\ k < j /\ Gone(q, q[i].lcid, k)
    BY <2>1, <1>6, <1>1, <1>8 DEF EndFirst
  <2> QED BY <2>2, <2>1, <1>1, <1>8
<1>13. UpOrEnds(t, c)
  <2> SUFFICES ASSUME NEW j \in 1 .. n + 1, Complete(t, j), c[t[j].lcid] # t[j].addr
               PROVE  \E i \in 1 .. n + 1 : j < i /\ Gone(t, t[j].lcid, i)
    BY <1>1 DEF UpOrEnds
  <2>1. j \in 1 .. n
    BY <1>9
  <2>2. Complete(q, j) /\ t[j] = q[j] /\ q[j].lcid \in Lcid
    BY <2>1, <1>8, <1>1, <1>10
  <2>3. CASE q[j].lcid = l
    BY <2>1, <2>2, <2>3, <1>9
  <2>4. CASE q[j].lcid # l
    <3>1. conn[q[j].lcid] # q[j].addr
      BY <2>2, <2>4, <1>2
    <3>2. PICK i \in 1 .. n : j < i /\ Gone(q, q[j].lcid, i)
      BY <2>1, <2>2, <3>1, <1>6 DEF UpOrEnds
    <3> QED BY <3>2, <2>2, <1>8
  <2> QED BY <2>3, <2>4
<1>14. LinkedOrEnds(R, t, c)
  <2> SUFFICES ASSUME NEW p \in R, c[p[2]] # p[1]
               PROVE  \E i \in 1 .. n + 1 : Gone(t, p[2], i)
    BY <1>1 DEF LinkedOrEnds
  <2>1. CASE p[2] = l
    BY <2>1, <1>9
  <2>2. CASE p[2] # l
    <3>1. conn[p[2]] # p[1]
      BY <2>2, <1>2, <1>7
    <3>2. PICK i \in 1 .. n : Gone(q, p[2], i)
      BY <3>1, <1>6 DEF LinkedOrEnds
    <3> QED BY <3>2, <1>8
  <2> QED BY <2>1, <2>2
<1>15. UsedAgain(t, c)
  <2> SUFFICES ASSUME NEW k \in Lcid, NEW i \in 1 .. n + 1, Gone(t, k, i), c[k] # Zero
               PROVE  \E j \in 1 .. n + 1 : i < j /\ Complete(t, j) /\ t[j].lcid = k
    BY <1>1 DEF UsedAgain
  <2>1. k # l /\ i \in 1 .. n
    BY <1>2, <1>9
  <2>2. PICK j \in 1 .. n : i < j /\ Complete(q, j) /\ q[j].lcid = k
    BY <2>1, <1>2, <1>6, <1>8 DEF UsedAgain
  <2>3. j \in 1 .. n + 1 /\ Complete(t, j) /\ t[j] = q[j]
    BY <2>2, <1>8, <1>1
  <2> QED BY <2>2, <2>3
<1>16. OneEach(c)
  BY <1>2, <1>6 DEF OneEach
<1> QED BY <1>11, <1>12, <1>13, <1>14, <1>15, <1>16 DEF Agree

\* The answer to a read is queued.
LEMMA AgreeRead ==
  ASSUME NEW q \in Seq(Event), NEW conn \in [Lcid -> Addr \cup {Zero}],
         NEW R \in SUBSET (Addr \X Lcid), NEW e \in Event,
         Agree(R, q, conn), e.ev \in Reads
  PROVE  Agree(R, Append(q, e), conn)
<1> PICK t \in Seq(Event) : t = Append(q, e)
  BY Longer
<1> PICK n \in Nat : n = Len(q)
  BY Longer
<1>1. Len(t) = n + 1 /\ t[n + 1] = e /\ \A i \in 1 .. n : t[i] = q[i]
  BY Longer
<1>6. LinkFirst(R, q) /\ EndFirst(q) /\ UpOrEnds(q, conn) /\ LinkedOrEnds(R, q, conn)
        /\ UsedAgain(q, conn) /\ OneEach(conn)
  BY DEF Agree
<1>8. \A j \in 1 .. n : /\ Complete(t, j) <=> Complete(q, j)
                        /\ \A k : Gone(t, k, j) <=> Gone(q, k, j)
  BY <1>1 DEF Complete, Gone
<1>9. ~Complete(t, n + 1) /\ \A k : ~Gone(t, k, n + 1)
  BY <1>1 DEF Complete, Gone, Reads
<1>11. LinkFirst(R, t)
  <2> SUFFICES ASSUME NEW p \in R, NEW j \in 1 .. n + 1, Complete(t, j),
                      t[j].addr = p[1] \/ t[j].lcid = p[2]
               PROVE  \E i \in 1 .. n + 1 : i < j /\ Gone(t, p[2], i)
    BY <1>1 DEF LinkFirst
  <2>1. j \in 1 .. n
    BY <1>9
  <2>2. PICK i \in 1 .. n : i < j /\ Gone(q, p[2], i)
    BY <2>1, <1>6, <1>1, <1>8 DEF LinkFirst
  <2> QED BY <2>2, <1>8
<1>12. EndFirst(t)
  <2> SUFFICES ASSUME NEW i \in 1 .. n + 1, NEW j \in 1 .. n + 1, i < j, Complete(t, i), Complete(t, j),
                      t[j].addr = t[i].addr \/ t[j].lcid = t[i].lcid
               PROVE  \E k \in 1 .. n + 1 : i < k /\ k < j /\ Gone(t, t[i].lcid, k)
    BY <1>1 DEF EndFirst
  <2>1. i \in 1 .. n /\ j \in 1 .. n
    BY <1>9
  <2>2. PICK k \in 1 .. n : i < k /\ k < j /\ Gone(q, q[i].lcid, k)
    BY <2>1, <1>6, <1>1, <1>8 DEF EndFirst
  <2> QED BY <2>2, <2>1, <1>1, <1>8
<1>13. UpOrEnds(t, conn)
  <2> SUFFICES ASSUME NEW j \in 1 .. n + 1, Complete(t, j), conn[t[j].lcid] # t[j].addr
               PROVE  \E i \in 1 .. n + 1 : j < i /\ Gone(t, t[j].lcid, i)
    BY <1>1 DEF UpOrEnds
  <2>1. j \in 1 .. n
    BY <1>9
  <2>2. Complete(q, j) /\ t[j] = q[j]
    BY <2>1, <1>8, <1>1
  <2>3. PICK i \in 1 .. n : j < i /\ Gone(q, q[j].lcid, i)
    BY <2>1, <2>2, <1>6 DEF UpOrEnds
  <2> QED BY <2>3, <2>2, <1>8
<1>14. LinkedOrEnds(R, t, conn)
  <2> SUFFICES ASSUME NEW p \in R, conn[p[2]] # p[1]
               PROVE  \E i \in 1 .. n + 1 : Gone(t, p[2], i)
    BY <1>1 DEF LinkedOrEnds
  <2>1. PICK i \in 1 .. n : Gone(q, p[2], i)
    BY <1>6 DEF LinkedOrEnds
  <2> QED BY <2>1, <1>8
<1>15. UsedAgain(t, conn)
  <2> SUFFICES ASSUME NEW k \in Lcid, NEW i \in 1 .. n + 1, Gone(t, k, i), conn[k] # Zero
               PROVE  \E j \in 1 .. n + 1 : i < j /\ Complete(t, j) /\ t[j].lcid = k
    BY <1>1 DEF UsedAgain
  <2>1. i \in 1 .. n
    BY <1>9
  <2>2. PICK j \in 1 .. n : i < j /\ Complete(q, j) /\ q[j].lcid = k
    BY <2>1, <1>6, <1>8 DEF UsedAgain
  <2>3. j \in 1 .. n + 1 /\ Complete(t, j) /\ t[j] = q[j]
    BY <2>2, <1>8, <1>1
  <2> QED BY <2>2, <2>3
<1> QED BY <1>6, <1>11, <1>12, <1>13, <1>14, <1>15 DEF Agree

\* The oldest event is taken: the links left are those it does not end, and the one it
\* announces.
LEMMA AgreeTail ==
  ASSUME NEW q \in Seq(Event), NEW conn \in [Lcid -> Addr \cup {Zero}],
         NEW R \in SUBSET (Addr \X Lcid), NEW S \in SUBSET (Addr \X Lcid),
         Agree(R, q, conn), q # <<>>,
         \A p \in S : \/ p \in R /\ ~Gone(q, p[2], 1)
                      \/ Complete(q, 1) /\ p = <<q[1].addr, q[1].lcid>>
  PROVE  Agree(S, Tail(q), conn)
<1> PICK t \in Seq(Event) : t = Tail(q)
  BY Shorter
<1> PICK n \in Nat : n = Len(t)
  BY Shorter
<1>1. Len(q) = n + 1 /\ \A i \in 1 .. n : t[i] = q[i + 1]
  BY Shorter
<1>2. \A i \in 2 .. n + 1 : i - 1 \in 1 .. n /\ q[i] = t[i - 1]
  BY Shorter
<1>3. LinkFirst(R, q) /\ EndFirst(q) /\ UpOrEnds(q, conn) /\ LinkedOrEnds(R, q, conn)
        /\ UsedAgain(q, conn) /\ OneEach(conn)
  BY DEF Agree
<1>4. \A j \in 1 .. n : /\ Complete(t, j) <=> Complete(q, j + 1)
                        /\ \A k : Gone(t, k, j) <=> Gone(q, k, j + 1)
  BY <1>1 DEF Complete, Gone
<1>5. \A j \in 2 .. n + 1 : /\ Complete(q, j) <=> Complete(t, j - 1)
                            /\ \A k : Gone(q, k, j) <=> Gone(t, k, j - 1)
  BY <1>2 DEF Complete, Gone
<1>6. \A j \in 1 .. n : j + 1 \in 1 .. n + 1 /\ j + 1 > 1
  OBVIOUS
<1>7. \A j \in 1 .. n + 1 : j # 1 => j \in 2 .. n + 1
  OBVIOUS
<1>8. Complete(q, 1) => \A k : ~Gone(q, k, 1)
  BY DEF Complete, Gone
<1>11. LinkFirst(S, t)
  <2> SUFFICES ASSUME NEW p \in S, NEW j \in 1 .. n, Complete(t, j),
                      t[j].addr = p[1] \/ t[j].lcid = p[2]
               PROVE  \E i \in 1 .. n : i < j /\ Gone(t, p[2], i)
    BY DEF LinkFirst
  <2>0. Complete(q, j + 1) /\ t[j] = q[j + 1] /\ j + 1 \in 1 .. n + 1
    BY <1>1, <1>4
  <2>1. \E i \in 1 .. n + 1 : i < j + 1 /\ Gone(q, p[2], i) /\ i # 1
    <3>1. CASE p \in R /\ ~Gone(q, p[2], 1)
      <4>1. PICK i \in 1 .. n + 1 : i < j + 1 /\ Gone(q, p[2], i)
        BY <3>1, <2>0, <1>1, <1>3 DEF LinkFirst
      <4> QED BY <4>1, <3>1
    <3>2. CASE Complete(q, 1) /\ p = <<q[1].addr, q[1].lcid>>
      <4>1. p[1] = q[1].addr /\ p[2] = q[1].lcid
        BY <3>2
      <4>2. 1 \in 1 .. n + 1 /\ 1 < j + 1
        OBVIOUS
      <4>3. PICK i \in 1 .. n + 1 : 1 < i /\ i < j + 1 /\ Gone(q, q[1].lcid, i)
        BY <3>2, <4>1, <4>2, <2>0, <1>1, <1>3 DEF EndFirst
      <4> QED BY <4>3, <4>1
    <3> QED BY <3>1, <3>2
  <2>2. PICK i \in 2 .. n + 1 : i < j + 1 /\ Gone(q, p[2], i)
    BY <2>1, <1>7
  <2>3. i - 1 \in 1 .. n /\ i - 1 < j /\ Gone(t, p[2], i - 1)
    BY <2>2, <1>5
  <2> QED BY <2>3
<1>12. EndFirst(t)
  <2> SUFFICES ASSUME NEW i \in 1 .. n, NEW j \in 1 .. n, i < j, Complete(t, i), Complete(t, j),
                      t[j].addr = t[i].addr \/ t[j].lcid = t[i].lcid
               PROVE  \E k \in 1 .. n : i < k /\ k < j /\ Gone(t, t[i].lcid, k)
    BY DEF EndFirst
  <2>1. /\ Complete(q, i + 1) /\ t[i] = q[i + 1] /\ i + 1 \in 1 .. n + 1
        /\ Complete(q, j + 1) /\ t[j] = q[j + 1] /\ j + 1 \in 1 .. n + 1
        /\ i + 1 < j + 1
    BY <1>1, <1>4
  <2>2. PICK k \in 1 .. n + 1 : i + 1 < k /\ k < j + 1 /\ Gone(q, q[i + 1].lcid, k)
    BY <2>1, <1>1, <1>3 DEF EndFirst
  <2>3. k \in 2 .. n + 1 /\ k - 1 \in 1 .. n /\ i < k - 1 /\ k - 1 < j
    BY <2>2
  <2>4. Gone(t, t[i].lcid, k - 1)
    BY <2>1, <2>2, <2>3, <1>5
  <2> QED BY <2>3, <2>4
<1>13. UpOrEnds(t, conn)
  <2> SUFFICES ASSUME NEW j \in 1 .. n, Complete(t, j), conn[t[j].lcid] # t[j].addr
               PROVE  \E i \in 1 .. n : j < i /\ Gone(t, t[j].lcid, i)
    BY DEF UpOrEnds
  <2>1. Complete(q, j + 1) /\ t[j] = q[j + 1] /\ j + 1 \in 1 .. n + 1
    BY <1>1, <1>4
  <2>2. PICK i \in 1 .. n + 1 : j + 1 < i /\ Gone(q, q[j + 1].lcid, i)
    BY <2>1, <1>1, <1>3 DEF UpOrEnds
  <2>3. i \in 2 .. n + 1 /\ i - 1 \in 1 .. n /\ j < i - 1
    BY <2>2
  <2> QED BY <2>1, <2>2, <2>3, <1>5
<1>14. LinkedOrEnds(S, t, conn)
  <2> SUFFICES ASSUME NEW p \in S, conn[p[2]] # p[1]
               PROVE  \E i \in 1 .. n : Gone(t, p[2], i)
    BY DEF LinkedOrEnds
  <2>1. \E i \in 1 .. n + 1 : Gone(q, p[2], i) /\ i # 1
    <3>1. CASE p \in R /\ ~Gone(q, p[2], 1)
      BY <3>1, <1>1, <1>3 DEF LinkedOrEnds
    <3>2. CASE Complete(q, 1) /\ p = <<q[1].addr, q[1].lcid>>
      <4>1. p[1] = q[1].addr /\ p[2] = q[1].lcid /\ 1 \in 1 .. n + 1
        BY <3>2
      <4>2. PICK i \in 1 .. n + 1 : 1 < i /\ Gone(q, q[1].lcid, i)
        BY <3>2, <4>1, <1>1, <1>3 DEF UpOrEnds
      <4> QED BY <4>1, <4>2
    <3> QED BY <3>1, <3>2
  <2>2. PICK i \in 2 .. n + 1 : Gone(q, p[2], i)
    BY <2>1, <1>7
  <2>3. i - 1 \in 1 .. n /\ Gone(t, p[2], i - 1)
    BY <2>2, <1>5
  <2> QED BY <2>3
<1>15. UsedAgain(t, conn)
  <2> SUFFICES ASSUME NEW k \in Lcid, NEW i \in 1 .. n, Gone(t, k, i), conn[k] # Zero
               PROVE  \E j \in 1 .. n : i < j /\ Complete(t, j) /\ t[j].lcid = k
    BY DEF UsedAgain
  <2>1. Gone(q, k, i + 1) /\ i + 1 \in 1 .. n + 1
    BY <1>4
  <2>2. PICK j \in 1 .. n + 1 : i + 1 < j /\ Complete(q, j) /\ q[j].lcid = k
    BY <2>1, <1>1, <1>3 DEF UsedAgain
  <2>3. j \in 2 .. n + 1 /\ j - 1 \in 1 .. n /\ i < j - 1
    BY <2>2
  <2>4. Complete(t, j - 1) /\ t[j - 1].lcid = k
    BY <2>2, <2>3, <1>2, <1>5
  <2> QED BY <2>3, <2>4
<1> QED BY <1>3, <1>11, <1>12, <1>13, <1>14, <1>15 DEF Agree

\* A connection that is announced now has no link and its device has none.
LEMMA AnnouncedIsNew ==
  ASSUME NEW q \in Seq(Event), NEW R, LinkFirst(R, q), q # <<>>, Head(q).ev = "COMPLETE"
  PROVE  \A p \in R : p[1] # Head(q).addr /\ p[2] # Head(q).lcid
<1>1. Head(q) = q[1] /\ 1 \in 1 .. Len(q) /\ Len(q) \in Nat
  BY Shorter
<1>2. Complete(q, 1)
  BY <1>1 DEF Complete
<1>3. \A i \in 1 .. Len(q) : ~(i < 1)
  BY <1>1
<1> QED BY <1>1, <1>2, <1>3 DEF LinkFirst

\* The connection of a handle that has just been told to be gone, or to be another's, is
\* still to be announced.
LEMMA StillAnnounced ==
  ASSUME NEW q \in Seq(Event), NEW conn \in [Lcid -> Addr \cup {Zero}], NEW R, NEW l \in Lcid,
         Agree(R, q, conn), q # <<>>, conn[l] # Zero, Head(q).lcid = l,
         \/ Head(q).ev = "DISCONNECT"
         \/ Head(q).ev = "COMPLETE" /\ Head(q).addr # conn[l]
  PROVE  Announced(Items(Tail(q)), l)
<1> PICK t \in Seq(Event) : t = Tail(q)
  BY Shorter
<1> PICK n \in Nat : n = Len(t)
  BY Shorter
<1>1. Len(q) = n + 1 /\ Head(q) = q[1]
  BY Shorter
<1>2. \A i \in 2 .. n + 1 : i - 1 \in 1 .. n /\ q[i] = t[i - 1]
  BY Shorter
<1>3. UpOrEnds(q, conn) /\ UsedAgain(q, conn)
  BY DEF Agree
<1>4. \E i \in 1 .. n + 1 : Gone(q, l, i)
  <2>1. CASE Head(q).ev = "DISCONNECT"
    BY <2>1, <1>1 DEF Gone
  <2>2. CASE Head(q).ev = "COMPLETE" /\ Head(q).addr # conn[l]
    BY <2>2, <1>1, <1>3 DEF UpOrEnds, Complete
  <2> QED BY <2>1, <2>2
<1>5. PICK i \in 1 .. n + 1 : Gone(q, l, i)
  BY <1>4
<1>6. PICK j \in 1 .. n + 1 : i < j /\ Complete(q, j) /\ q[j].lcid = l
  BY <1>5, <1>3, <1>1 DEF UsedAgain
<1>7. j \in 2 .. n + 1
  BY <1>6
<1>8. j - 1 \in 1 .. n /\ q[j] = t[j - 1]
  BY <1>7, <1>2
<1>9. t[j - 1] \in Items(t)
  BY <1>8 DEF Items
<1> QED BY <1>6, <1>8, <1>9 DEF Announced, Complete

-----------------------------------------------------------------------------
(* Lists, and looking up in them.                                          *)

LEMMA ItemsAppend ==
  ASSUME NEW S, NEW s \in Seq(S), NEW e \in S
  PROVE  Items(Append(s, e)) = Items(s) \cup {e}
<1> PICK n \in Nat : n = Len(s)
  BY LenProperties
<1> PICK t \in Seq(S) : t = Append(s, e)
  BY AppendProperties
<1>1. Len(t) = n + 1 /\ t[n + 1] = e /\ \A i \in 1 .. n : t[i] = s[i]
  BY AppendProperties
<1>2. \A i \in 1 .. n + 1 : i \in 1 .. n \/ i = n + 1
  OBVIOUS
<1>3. \A i \in 1 .. n : i \in 1 .. n + 1
  OBVIOUS
<1>4. n + 1 \in 1 .. n + 1
  OBVIOUS
<1>5. ASSUME NEW x \in Items(t)
      PROVE  x \in Items(s) \cup {e}
  BY <1>1, <1>2 DEF Items
<1>6. ASSUME NEW x \in Items(s) \cup {e}
      PROVE  x \in Items(t)
  BY <1>1, <1>3, <1>4 DEF Items
<1> QED BY <1>5, <1>6

LEMMA ItemsConcat ==
  ASSUME NEW S, NEW s \in Seq(S), NEW t \in Seq(S)
  PROVE  Items(s \o t) = Items(s) \cup Items(t)
<1> PICK n \in Nat : n = Len(s)
  BY LenProperties
<1> PICK m \in Nat : m = Len(t)
  BY LenProperties
<1> PICK u \in Seq(S) : u = s \o t
  BY ConcatProperties
<1>1. Len(u) = n + m /\ \A i \in 1 .. n + m : u[i] = IF i <= n THEN s[i] ELSE t[i - n]
  BY ConcatProperties
<1>2. \A i \in 1 .. n + m : i \in 1 .. n \/ (i > n /\ i - n \in 1 .. m)
  OBVIOUS
<1>3. ASSUME NEW x \in Items(u)
      PROVE  x \in Items(s) \cup Items(t)
  <2>1. PICK i \in 1 .. n + m : x = u[i]
    BY <1>1 DEF Items
  <2>2. CASE i \in 1 .. n
    BY <2>1, <2>2, <1>1 DEF Items
  <2>3. CASE i > n /\ i - n \in 1 .. m
    <3>1. x = t[i - n]
      BY <2>1, <2>3, <1>1
    <3> QED BY <3>1, <2>3 DEF Items
  <2> QED BY <2>2, <2>3, <1>2
<1>4. ASSUME NEW x \in Items(s)
      PROVE  x \in Items(u)
  <2>1. PICK i \in 1 .. n : x = s[i]
    BY DEF Items
  <2>2. i \in 1 .. n + m /\ u[i] = x
    BY <2>1, <1>1
  <2> QED BY <2>2, <1>1 DEF Items
<1>5. ASSUME NEW x \in Items(t)
      PROVE  x \in Items(u)
  <2>1. PICK i \in 1 .. m : x = t[i]
    BY DEF Items
  <2>2. n + i \in 1 .. n + m /\ ~(n + i <= n) /\ (n + i) - n = i
    OBVIOUS
  <2>3. u[n + i] = t[i]
    BY <2>2, <1>1
  <2> QED BY <2>1, <2>2, <2>3, <1>1 DEF Items
<1> QED BY <1>3, <1>4, <1>5

LEMMA ItemsTail ==
  ASSUME NEW S, NEW s \in Seq(S), s # <<>>
  PROVE  Items(s) = {Head(s)} \cup Items(Tail(s))
<1> PICK t \in Seq(S) : t = Tail(s)
  BY HeadTailProperties
<1> PICK n \in Nat : n = Len(t)
  BY LenProperties
<1> PICK m \in Nat : m = Len(s)
  BY LenProperties
<1>1. n = m - 1 /\ \A i \in 1 .. n : t[i] = s[i + 1]
  BY HeadTailProperties
<1>2. m = n + 1
  BY <1>1
<1>3. Head(s) = s[1]
  OBVIOUS
<1>4. ASSUME NEW x \in Items(s)
      PROVE  x \in {Head(s)} \cup Items(t)
  <2>1. PICK i \in 1 .. n + 1 : x = s[i]
    BY <1>2 DEF Items
  <2>2. CASE i = 1
    BY <2>1, <2>2, <1>3
  <2>3. CASE i # 1
    <3>1. i - 1 \in 1 .. n /\ (i - 1) + 1 = i
      BY <2>3
    <3>2. t[i - 1] = x
      BY <3>1, <2>1, <1>1
    <3> QED BY <3>1, <3>2 DEF Items
  <2> QED BY <2>2, <2>3
<1>5. ASSUME NEW x \in Items(t)
      PROVE  x \in Items(s)
  <2>1. PICK i \in 1 .. n : x = s[i + 1]
    BY <1>1 DEF Items
  <2>2. i + 1 \in 1 .. n + 1
    OBVIOUS
  <2> QED BY <2>1, <2>2, <1>2 DEF Items
<1>6. Head(s) \in Items(s)
  <2>1. 1 \in 1 .. n + 1
    OBVIOUS
  <2> QED BY <2>1, <1>2, <1>3 DEF Items
<1> QED BY <1>4, <1>5, <1>6

LEMMA ItemsType ==
  ASSUME NEW S, NEW s \in Seq(S)
  PROVE  Items(s) \subseteq S
BY ElementOfSeq DEF Items

\* A set of natural numbers that is not empty has a least element.
LEMMA LeastNumber ==
  ASSUME NEW T \in SUBSET Nat, T # {}
  PROVE  \E m \in T : \A k \in T : m <= k
<1> DEFINE R == {ss \in Nat \X Nat : ss[1] < ss[2]}
<1>1. \E x \in T : \A y \in T : ~(<<y, x>> \in OpToRel(<, Nat))
  BY NatLessThanWellFounded, WFMin
<1>2. \E x \in T : \A y \in T : ~(<<y, x>> \in R)
  BY <1>1, Zenon DEF OpToRel
<1>3. ASSUME NEW x \in Nat, NEW y \in Nat, y < x
      PROVE  <<y, x>> \in R
  BY <1>3
<1>4. PICK x \in T : \A y \in T : ~(<<y, x>> \in R)
  BY <1>2
<1>5. \A y \in T : ~(y < x)
  BY <1>3, <1>4
<1> QED BY <1>5

LEMMA FirstOne ==
  ASSUME NEW n \in Nat, NEW I \in SUBSET (1 .. n), I # {}
  PROVE  Min(I) \in I
<1>1. I \in SUBSET Nat
  OBVIOUS
<1>2. \E m \in I : \A k \in I : m <= k
  BY <1>1, LeastNumber
<1> QED BY <1>2 DEF Min

\* The lookups find a link with that address, handle or status, or there is none.
LEMMA Lookups ==
  ASSUME NEW h, h.links \in Seq(Link), NEW x
  PROVE  /\ \/ ByAddr(h, x) = 0 /\ \A j \in 1 .. Len(h.links) : h.links[j].addr # x
            \/ ByAddr(h, x) \in 1 .. Len(h.links) /\ h.links[ByAddr(h, x)].addr = x
         /\ \/ ByLcid(h, x) = 0 /\ \A j \in 1 .. Len(h.links) : h.links[j].lcid # x
            \/ ByLcid(h, x) \in 1 .. Len(h.links) /\ h.links[ByLcid(h, x)].lcid = x
         /\ \/ ByStatus(h, x) = 0 /\ \A j \in 1 .. Len(h.links) : h.links[j].status # x
            \/ ByStatus(h, x) \in 1 .. Len(h.links) /\ h.links[ByStatus(h, x)].status = x
<1> DEFINE n == Len(h.links)
           A == {i \in 1 .. n : h.links[i].addr = x}
           L == {i \in 1 .. n : h.links[i].lcid = x}
           S == {i \in 1 .. n : h.links[i].status = x}
<1>0. n \in Nat
  BY LenProperties
<1>1. ByAddr(h, x) = IF A # {} THEN Min(A) ELSE 0
  BY DEF ByAddr, SelectInSeq
<1>2. ByLcid(h, x) = IF L # {} THEN Min(L) ELSE 0
  BY DEF ByLcid, SelectInSeq
<1>3. ByStatus(h, x) = IF S # {} THEN Min(S) ELSE 0
  BY DEF ByStatus, SelectInSeq
<1>4. A # {} => Min(A) \in A
  BY <1>0, FirstOne
<1>5. L # {} => Min(L) \in L
  BY <1>0, FirstOne
<1>6. S # {} => Min(S) \in S
  BY <1>0, FirstOne
<1>7. \/ ByAddr(h, x) = 0 /\ \A j \in 1 .. n : h.links[j].addr # x
      \/ ByAddr(h, x) \in 1 .. n /\ h.links[ByAddr(h, x)].addr = x
  BY <1>1, <1>4
<1>8. \/ ByLcid(h, x) = 0 /\ \A j \in 1 .. n : h.links[j].lcid # x
      \/ ByLcid(h, x) \in 1 .. n /\ h.links[ByLcid(h, x)].lcid = x
  BY <1>2, <1>5
<1>9. \/ ByStatus(h, x) = 0 /\ \A j \in 1 .. n : h.links[j].status # x
      \/ ByStatus(h, x) \in 1 .. n /\ h.links[ByStatus(h, x)].status = x
  BY <1>3, <1>6
<1> QED BY <1>7, <1>8, <1>9

\* SleLogicLinkRemove on the list.
LEMMA LinksRemove ==
  ASSUME NEW ls, LinksOk(ls), NEW i \in 1 .. Len(ls)
  PROVE  LinksOk(RemoveAt(ls, i)) /\ Real(RemoveAt(ls, i)) = Real(ls) \ {ls[i]}
<1>0. ls \in Seq(Link)
  BY DEF LinksOk
<1> PICK n \in Nat : n = Len(ls)
  BY <1>0, LenProperties
<1> DEFINE f == SubSeq(ls, 1, i - 1)
           g == SubSeq(ls, i + 1, n)
<1>1. \A j \in 1 .. n : ls[j] \in Link
  BY <1>0, ElementOfSeq
<1>2. f \in Seq(Link) /\ Len(f) = i - 1 /\ \A j \in 1 .. i - 1 : f[j] = ls[j]
  <2>1. \A j \in 1 .. i - 1 : ls[j] \in Link
    BY <1>1
  <2>2. f \in Seq(Link) /\ Len(f) = (IF 1 <= i - 1 THEN i - 1 - 1 + 1 ELSE 0)
          /\ \A j \in 1 .. i - 1 - 1 + 1 : f[j] = ls[1 + j - 1]
    BY <2>1, SubSeqProperties
  <2>3. \A j \in 1 .. i - 1 : j \in 1 .. i - 1 - 1 + 1 /\ 1 + j - 1 = j
    OBVIOUS
  <2> QED BY <2>2, <2>3
<1>3. g \in Seq(Link) /\ Len(g) = n - i /\ \A j \in 1 .. n - i : g[j] = ls[i + j]
  <2>1. \A j \in i + 1 .. n : ls[j] \in Link
    BY <1>1
  <2>2. g \in Seq(Link) /\ Len(g) = (IF i + 1 <= n THEN n - (i + 1) + 1 ELSE 0)
          /\ \A j \in 1 .. n - (i + 1) + 1 : g[j] = ls[(i + 1) + j - 1]
    BY <2>1, SubSeqProperties
  <2>3. \A j \in 1 .. n - i : j \in 1 .. n - (i + 1) + 1 /\ (i + 1) + j - 1 = i + j
    OBVIOUS
  <2> QED BY <2>2, <2>3
<1> PICK r : r = RemoveAt(ls, i)
  OBVIOUS
<1>4. r = f \o g
  BY DEF RemoveAt
<1> HIDE DEF f, g
<1>5. /\ r \in Seq(Link) /\ Len(r) = n - 1
      /\ \A j \in 1 .. n - 1 : r[j] = IF j < i THEN ls[j] ELSE ls[j + 1]
  <2>1. r \in Seq(Link) /\ Len(r) = Len(f) + Len(g)
          /\ \A j \in 1 .. Len(f) + Len(g) : r[j] = IF j <= Len(f) THEN f[j] ELSE g[j - Len(f)]
    <3>1. f \in Seq(Link) /\ g \in Seq(Link)
      BY <1>2, <1>3
    <3>2. f \o g \in Seq(Link) /\ Len(f \o g) = Len(f) + Len(g)
          /\ \A j \in 1 .. Len(f) + Len(g) : (f \o g)[j] = IF j <= Len(f) THEN f[j] ELSE g[j - Len(f)]
      BY <3>1, ConcatProperties, Zenon
    <3> QED BY <3>2, <1>4, Zenon
  <2>2. Len(f) + Len(g) = n - 1
    BY <1>2, <1>3
  <2>3. ASSUME NEW j \in 1 .. n - 1
        PROVE  r[j] = IF j < i THEN ls[j] ELSE ls[j + 1]
    <3>1. CASE j < i
      BY <3>1, <2>1, <2>2, <1>2
    <3>2. CASE ~(j < i)
      <4>1. j - (i - 1) \in 1 .. n - i /\ i + (j - (i - 1)) = j + 1 /\ ~(j <= i - 1)
        BY <3>2
      <4>2. r[j] = g[j - (i - 1)]
        BY <4>1, <2>1, <2>2, <1>2
      <4> QED BY <4>1, <4>2, <1>3, <3>2
    <3> QED BY <3>1, <3>2
  <2> QED BY <2>1, <2>2, <2>3
<1>6. \A j \in 1 .. n - 1 : \E k \in 1 .. n : k # i /\ r[j] = ls[k] /\ k = IF j < i THEN j ELSE j + 1
  <2> SUFFICES ASSUME NEW j \in 1 .. n - 1
               PROVE  \E k \in 1 .. n : k # i /\ r[j] = ls[k] /\ k = IF j < i THEN j ELSE j + 1
    OBVIOUS
  <2>1. CASE j < i
    BY <2>1, <1>5
  <2>2. CASE ~(j < i)
    <3>1. j + 1 \in 1 .. n /\ j + 1 # i
      BY <2>2
    <3> QED BY <3>1, <2>2, <1>5
  <2> QED BY <2>1, <2>2
<1>7. \A k \in 1 .. n : k # i => \E j \in 1 .. n - 1 : r[j] = ls[k]
  <2> SUFFICES ASSUME NEW k \in 1 .. n, k # i
               PROVE  \E j \in 1 .. n - 1 : r[j] = ls[k]
    OBVIOUS
  <2>1. CASE k < i
    <3>1. k \in 1 .. n - 1
      BY <2>1
    <3> QED BY <3>1, <2>1, <1>5
  <2>2. CASE ~(k < i)
    <3>1. k - 1 \in 1 .. n - 1 /\ ~(k - 1 < i) /\ (k - 1) + 1 = k
      BY <2>2
    <3> QED BY <3>1, <1>5
  <2> QED BY <2>1, <2>2
<1>8. LinksOk(r)
  <2>1. ASSUME NEW j \in 1 .. n - 1
        PROVE  /\ r[j].addr = Zero <=> r[j].lcid = NoLcid
               /\ r[j].addr = Zero <=> r[j].status = "CONNECTING"
    <3>1. PICK k \in 1 .. n : r[j] = ls[k]
      BY <1>6
    <3> QED BY <3>1 DEF LinksOk
  <2>2. ASSUME NEW j \in 1 .. n - 1, NEW k \in 1 .. n - 1, j # k
        PROVE  r[j].addr # r[k].addr /\ r[j].lcid # r[k].lcid
    <3>1. PICK u \in 1 .. n : r[j] = ls[u] /\ u = IF j < i THEN j ELSE j + 1
      BY <1>6
    <3>2. PICK v \in 1 .. n : r[k] = ls[v] /\ v = IF k < i THEN k ELSE k + 1
      BY <1>6
    <3>3. u # v
      BY <2>2, <3>1, <3>2
    <3> QED BY <3>1, <3>2, <3>3 DEF LinksOk
  <2> QED BY <2>1, <2>2, <1>5 DEF LinksOk
<1>9. Real(r) = Real(ls) \ {ls[i]}
  <2>1. ASSUME NEW x \in Real(r)
        PROVE  x \in Real(ls) \ {ls[i]}
    <3>1. PICK j \in 1 .. n - 1 : x = r[j] /\ r[j].lcid # NoLcid
      BY <1>5 DEF Real
    <3>2. PICK k \in 1 .. n : k # i /\ r[j] = ls[k]
      BY <1>6
    <3>3. ls[k] # ls[i]
      BY <3>2 DEF LinksOk
    <3> QED BY <3>1, <3>2, <3>3 DEF Real
  <2>2. ASSUME NEW x \in Real(ls) \ {ls[i]}
        PROVE  x \in Real(r)
    <3>1. PICK k \in 1 .. n : x = ls[k] /\ ls[k].lcid # NoLcid /\ k # i
      BY DEF Real
    <3>2. PICK j \in 1 .. n - 1 : r[j] = ls[k]
      BY <3>1, <1>7
    <3> QED BY <3>1, <3>2, <1>5 DEF Real
  <2> QED BY <2>1, <2>2
<1> QED BY <1>8, <1>9

\* SleLogicLinkAdd on the list.
LEMMA LinksAdd ==
  ASSUME NEW ls, LinksOk(ls), NEW k \in Link,
         k.addr = Zero <=> k.lcid = NoLcid, k.addr = Zero <=> k.status = "CONNECTING",
         \A j \in 1 .. Len(ls) : ls[j].addr # k.addr /\ ls[j].lcid # k.lcid
  PROVE  /\ LinksOk(Append(ls, k))
         /\ k.lcid # NoLcid => Real(Append(ls, k)) = Real(ls) \cup {k}
         /\ k.lcid = NoLcid => Real(Append(ls, k)) = Real(ls)
<1>0. ls \in Seq(Link)
  BY DEF LinksOk
<1> PICK n \in Nat : n = Len(ls)
  BY <1>0, LenProperties
<1> PICK r \in Seq(Link) : r = Append(ls, k)
  BY <1>0, AppendProperties
<1>1. Len(r) = n + 1 /\ r[n + 1] = k /\ \A i \in 1 .. n : r[i] = ls[i]
  BY <1>0, AppendProperties
<1>2. \A i \in 1 .. n + 1 : i \in 1 .. n \/ i = n + 1
  OBVIOUS
<1>3. LinksOk(r)
  <2>1. ASSUME NEW j \in 1 .. n + 1
        PROVE  /\ r[j].addr = Zero <=> r[j].lcid = NoLcid
               /\ r[j].addr = Zero <=> r[j].status = "CONNECTING"
    <3>1. CASE j \in 1 .. n
      BY <3>1, <1>1 DEF LinksOk
    <3>2. CASE j = n + 1
      BY <3>2, <1>1
    <3> QED BY <3>1, <3>2, <1>2
  <2>2. ASSUME NEW i \in 1 .. n + 1, NEW j \in 1 .. n + 1, i # j
        PROVE  r[i].addr # r[j].addr /\ r[i].lcid # r[j].lcid
    <3>1. CASE i \in 1 .. n /\ j \in 1 .. n
      BY <2>2, <3>1, <1>1 DEF LinksOk
    <3>2. CASE i = n + 1 /\ j \in 1 .. n
      BY <3>2, <1>1
    <3>3. CASE i \in 1 .. n /\ j = n + 1
      BY <3>3, <1>1
    <3> QED BY <2>2, <3>1, <3>2, <3>3, <1>2
  <2> QED BY <2>1, <2>2, <1>1 DEF LinksOk
<1>4. /\ k.lcid # NoLcid => Real(r) = Real(ls) \cup {k}
      /\ k.lcid = NoLcid => Real(r) = Real(ls)
  <2>1. ASSUME NEW x \in Real(r)
        PROVE  x \in Real(ls) \/ (x = k /\ k.lcid # NoLcid)
    <3>1. PICK j \in 1 .. n + 1 : x = r[j] /\ r[j].lcid # NoLcid
      BY <1>1 DEF Real
    <3> QED BY <3>1, <1>1, <1>2 DEF Real
  <2>2. ASSUME NEW x \in Real(ls)
        PROVE  x \in Real(r)
    <3>1. PICK j \in 1 .. n : x = ls[j] /\ ls[j].lcid # NoLcid
      BY DEF Real
    <3>2. j \in 1 .. n + 1
      OBVIOUS
    <3> QED BY <3>1, <3>2, <1>1 DEF Real
  <2>3. k.lcid # NoLcid => k \in Real(r)
    <3>1. n + 1 \in 1 .. n + 1
      OBVIOUS
    <3> QED BY <3>1, <1>1 DEF Real
  <2> QED BY <2>1, <2>2, <2>3
<1> QED BY <1>3, <1>4

\* A link of the list becomes one with a connection.
SetLink(ls, i, k) == [ls EXCEPT ![i] = k]

LEMMA LinksSet ==
  ASSUME NEW ls, LinksOk(ls), NEW i \in 1 .. Len(ls), NEW k \in Link,
         k.addr # Zero, k.lcid # NoLcid, k.status # "CONNECTING",
         \A j \in 1 .. Len(ls) : j # i => ls[j].addr # k.addr /\ ls[j].lcid # k.lcid
  PROVE  /\ LinksOk(SetLink(ls, i, k))
         /\ Real(SetLink(ls, i, k)) = (Real(ls) \ {ls[i]}) \cup {k}
         /\ Len(SetLink(ls, i, k)) = Len(ls) /\ SetLink(ls, i, k)[i] = k
         /\ \A j \in 1 .. Len(ls) : j # i => SetLink(ls, i, k)[j] = ls[j]
<1>0. ls \in Seq(Link)
  BY DEF LinksOk
<1> PICK n \in Nat : n = Len(ls)
  BY <1>0, LenProperties
<1> PICK r \in Seq(Link) : r = SetLink(ls, i, k)
  BY <1>0, ExceptSeq DEF SetLink
<1>1. Len(r) = n /\ r[i] = k /\ \A j \in 1 .. n : j # i => r[j] = ls[j]
  BY <1>0, ExceptSeq DEF SetLink
<1>3. LinksOk(r)
  <2>1. ASSUME NEW j \in 1 .. n
        PROVE  /\ r[j].addr = Zero <=> r[j].lcid = NoLcid
               /\ r[j].addr = Zero <=> r[j].status = "CONNECTING"
    BY <1>1 DEF LinksOk
  <2>2. ASSUME NEW u \in 1 .. n, NEW j \in 1 .. n, u # j
        PROVE  r[u].addr # r[j].addr /\ r[u].lcid # r[j].lcid
    <3>1. CASE u # i /\ j # i
      BY <2>2, <3>1, <1>1 DEF LinksOk
    <3>2. CASE u = i
      BY <2>2, <3>2, <1>1
    <3>3. CASE j = i
      BY <2>2, <3>3, <1>1
    <3> QED BY <3>1, <3>2, <3>3
  <2> QED BY <2>1, <2>2, <1>1 DEF LinksOk
<1>4. Real(r) = (Real(ls) \ {ls[i]}) \cup {k}
  <2>1. ASSUME NEW x \in Real(r)
        PROVE  x \in Real(ls) \ {ls[i]} \/ (x = k /\ k.lcid # NoLcid)
    <3>1. PICK j \in 1 .. n : x = r[j] /\ r[j].lcid # NoLcid
      BY <1>1 DEF Real
    <3>2. CASE j = i
      BY <3>1, <3>2, <1>1
    <3>3. CASE j # i
      <4>1. ls[j] # ls[i]
        BY <3>3 DEF LinksOk
      <4> QED BY <3>1, <3>3, <4>1, <1>1 DEF Real
    <3> QED BY <3>2, <3>3
  <2>2. ASSUME NEW x \in Real(ls) \ {ls[i]}
        PROVE  x \in Real(r)
    <3>1. PICK j \in 1 .. n : x = ls[j] /\ ls[j].lcid # NoLcid /\ j # i
      BY DEF Real
    <3> QED BY <3>1, <1>1 DEF Real
  <2>3. k.lcid # NoLcid => k \in Real(r)
    BY <1>1 DEF Real
  <2> QED BY <2>1, <2>2, <2>3
<1> QED BY <1>1, <1>3, <1>4

\* What the lookups of a well-formed list mean for its links.
LEMMA RealFacts ==
  ASSUME NEW ls, LinksOk(ls)
  PROVE  /\ Real(ls) \subseteq Link
         /\ \A k \in Real(ls) : k.addr \in Addr /\ k.lcid \in Lcid /\ k.status # "CONNECTING"
         /\ \A k, x \in Real(ls) : k.addr = x.addr \/ k.lcid = x.lcid => k = x
         /\ Pairs(Real(ls)) \in SUBSET (Addr \X Lcid)
         /\ \A i \in 1 .. Len(ls) : \/ ls[i] \in Real(ls)
                                    \/ ls[i].addr = Zero /\ ls[i].lcid = NoLcid
                                         /\ ls[i].status = "CONNECTING"
<1>0. ls \in Seq(Link)
  BY DEF LinksOk
<1>1. \A i \in 1 .. Len(ls) : ls[i] \in Link
  BY <1>0, ElementOfSeq
<1>2. Real(ls) \subseteq Link
  BY <1>1 DEF Real
<1>3. ASSUME NEW k \in Real(ls)
      PROVE  k.addr \in Addr /\ k.lcid \in Lcid /\ k.status # "CONNECTING"
  <2>1. PICK i \in 1 .. Len(ls) : k = ls[i] /\ ls[i].lcid # NoLcid
    BY DEF Real
  <2>2. k.addr # Zero /\ k.status # "CONNECTING"
    BY <2>1 DEF LinksOk
  <2> QED BY <2>1, <2>2, <1>2 DEF Link
<1>4. ASSUME NEW k \in Real(ls), NEW x \in Real(ls), k.addr = x.addr \/ k.lcid = x.lcid
      PROVE  k = x
  <2>1. PICK i \in 1 .. Len(ls) : k = ls[i]
    BY DEF Real
  <2>2. PICK j \in 1 .. Len(ls) : x = ls[j]
    BY DEF Real
  <2>3. i = j
    BY <1>4, <2>1, <2>2 DEF LinksOk
  <2> QED BY <2>1, <2>2, <2>3
<1>5. Pairs(Real(ls)) \in SUBSET (Addr \X Lcid)
  BY <1>3 DEF Pairs
<1>6. ASSUME NEW i \in 1 .. Len(ls)
      PROVE  \/ ls[i] \in Real(ls)
             \/ ls[i].addr = Zero /\ ls[i].lcid = NoLcid /\ ls[i].status = "CONNECTING"
  <2>1. CASE ls[i].lcid = NoLcid
    BY <2>1 DEF LinksOk
  <2>2. CASE ls[i].lcid # NoLcid
    BY <2>2 DEF Real
  <2> QED BY <2>1, <2>2
<1> QED BY <1>2, <1>3, <1>4, <1>5, <1>6

-----------------------------------------------------------------------------
(* The host while a handler runs.                                          *)

Host == [links : Seq(Link), devs : [Addr -> Dev], asks : SUBSET (Module \X Addr),
         out : Seq(Command), ok : BOOLEAN, bad : Failures \cup {NoFailure}]

Sound(h) == h \in Host /\ LinksOk(h.links)

\* The links with a connection, the devices and the requests stay as they were, and no
\* command is taken back.
Calm(h, g) ==
    /\ Sound(g) /\ g.bad = h.bad
    /\ Real(g.links) = Real(h.links) /\ g.devs = h.devs /\ g.asks = h.asks
    /\ Items(h.out) \subseteq Items(g.out)
    /\ h.bad = NoFailure => g.ok = h.ok

LEMMA HostFields ==
  ASSUME NEW h, Sound(h)
  PROVE  /\ h \in Host /\ LinksOk(h.links) /\ h.links \in Seq(Link)
         /\ h.devs \in [Addr -> Dev] /\ h.asks \in SUBSET (Module \X Addr)
         /\ h.out \in Seq(Command) /\ h.ok \in BOOLEAN
         /\ h.bad \in Failures \cup {NoFailure}
BY DEF Sound, Host

LEMMA CalmSelf ==
  ASSUME NEW h, Sound(h)
  PROVE  Calm(h, h)
BY DEF Calm

LEMMA CalmTrans ==
  ASSUME NEW h, NEW g, NEW f, Calm(h, g), Calm(g, f)
  PROVE  Calm(h, f)
BY DEF Calm

LEMMA TryCalm ==
  ASSUME NEW h, Sound(h), NEW op \in {"TIMER", "LIST", "CREATE", "CANCEL", "RELEASE", "FIXED"} \cup Reads
  PROVE  Calm(h, Try(h, op)) /\ Try(h, op).links = h.links /\ Try(h, op).out = h.out
<1>1. /\ Try(h, op) \in Host /\ Try(h, op).links = h.links /\ Try(h, op).bad = h.bad
      /\ Try(h, op).devs = h.devs /\ Try(h, op).asks = h.asks /\ Try(h, op).out = h.out
      /\ Try(h, op).ok = (h.ok /\ h.bad.op # op)
  BY DEF Sound, Host, Try
<1>2. h.bad = NoFailure => Try(h, op).ok = h.ok
  BY <1>1 DEF NoFailure, Reads, Sound, Host
<1> QED BY <1>1, <1>2 DEF Calm, Sound

\* DLI takes the command unless it is the call that fails.
LEMMA SendCalm ==
  ASSUME NEW h, Sound(h), NEW cmd \in Command
  PROVE  /\ Calm(h, Send(h, cmd)) /\ Send(h, cmd).links = h.links
         /\ h.bad = NoFailure => cmd \in Items(Send(h, cmd).out)
<1>0. cmd.op \in {"TIMER", "LIST", "CREATE", "CANCEL", "RELEASE", "FIXED"} \cup Reads
  BY DEF Command
<1>1. CASE h.bad.op = cmd.op
  <2>1. Send(h, cmd) = Try(h, cmd.op)
    BY <1>1 DEF Send
  <2>2. h.bad # NoFailure
    BY <1>0, <1>1 DEF NoFailure, Reads
  <2> QED BY <2>1, <2>2, <1>0, TryCalm
<1>2. CASE h.bad.op # cmd.op
  <2> PICK g : g = Send(h, cmd)
    OBVIOUS
  <2>1. g = [h EXCEPT !.out = Append(@, cmd)]
    BY <1>2 DEF Send
  <2>2. Append(h.out, cmd) \in Seq(Command)
    BY HostFields, AppendProperties
  <2>3. /\ g \in Host /\ g.links = h.links /\ g.bad = h.bad /\ g.devs = h.devs
        /\ g.asks = h.asks /\ g.out = Append(h.out, cmd) /\ g.ok = h.ok
    BY <2>1, <2>2 DEF Sound, Host
  <2>4. Items(g.out) = Items(h.out) \cup {cmd}
    BY <2>3, HostFields, ItemsAppend
  <2> QED BY <2>3, <2>4 DEF Calm, Sound
<1> QED BY <1>1, <1>2

LEMMA CommandTypes ==
  /\ [op |-> "CANCEL"] \in Command /\ [op |-> "CREATE"] \in Command
  /\ \A A \in SUBSET Addr : [op |-> "LIST", addrs |-> A] \in Command
  /\ \A l \in Lcid : [op |-> "RELEASE", lcid |-> l] \in Command
  /\ \A l \in Lcid, r \in Reads : [op |-> r, lcid |-> l] \in Command
BY DEF Command

\* The list of links is replaced by another with the same connections.
LEMMA LinksCalm ==
  ASSUME NEW h, Sound(h), NEW ls, LinksOk(ls), Real(ls) = Real(h.links)
  PROVE  Calm(h, [h EXCEPT !.links = ls]) /\ [h EXCEPT !.links = ls].links = ls
<1> PICK g : g = [h EXCEPT !.links = ls]
  OBVIOUS
<1>1. ls \in Seq(Link)
  BY DEF LinksOk
<1>2. /\ g \in Host /\ g.links = ls /\ g.bad = h.bad /\ g.devs = h.devs
      /\ g.asks = h.asks /\ g.out = h.out /\ g.ok = h.ok
  BY <1>1 DEF Sound, Host
<1> QED BY <1>2 DEF Calm, Sound

LEMMA RemoveCalm ==
  ASSUME NEW h, Sound(h), ByStatus(h, "CONNECTING") # 0
  PROVE  Calm(h, SleLogicLinkRemove(h, ByStatus(h, "CONNECTING")))
<1> PICK i : i = ByStatus(h, "CONNECTING")
  OBVIOUS
<1>1. i \in 1 .. Len(h.links) /\ h.links[i].status = "CONNECTING"
  BY HostFields, Lookups
<1>2. LinksOk(RemoveAt(h.links, i)) /\ Real(RemoveAt(h.links, i)) = Real(h.links) \ {h.links[i]}
  BY <1>1, HostFields, LinksRemove
<1>3. h.links[i] \notin Real(h.links)
  BY <1>1, HostFields, RealFacts
<1>4. Real(RemoveAt(h.links, i)) = Real(h.links)
  BY <1>2, <1>3
<1> QED BY <1>2, <1>4, LinksCalm DEF SleLogicLinkRemove

LEMMA CancelCalm ==
  ASSUME NEW h, Sound(h)
  PROVE  Calm(h, ConnectCancelReq(h))
<1> DEFINE i == ByStatus(h, "CONNECTING")
           g == SleLogicLinkRemove(h, i)
<1>1. CASE i = 0
  BY <1>1, CalmSelf DEF ConnectCancelReq
<1>2. CASE i # 0
  <2>1. Calm(h, g)
    BY <1>2, RemoveCalm
  <2>2. Calm(g, Send(g, [op |-> "CANCEL"]))
    BY <2>1, SendCalm, CommandTypes DEF Calm
  <2>3. ConnectCancelReq(h) = Send(g, [op |-> "CANCEL"])
    BY <1>2 DEF ConnectCancelReq
  <2> QED BY <2>1, <2>2, <2>3, CalmTrans
<1> QED BY <1>1, <1>2

LEMMA EstablishCalm ==
  ASSUME NEW h, Sound(h)
  PROVE  Calm(h, ConnectEstablishReq(h))
<1> DEFINE link == [addr |-> Zero, lcid |-> NoLcid, status |-> "CONNECTING",
                    type |-> "SCAN", role |-> "G", told |-> FALSE]
           g == SleLogicLinkAdd(h, link)
           asked == Send(g, [op |-> "CREATE"])
<1>1. CASE ByAddr(h, Zero) # 0 \/ ByStatus(h, "CONNECTING") # 0
  BY <1>1, CalmSelf DEF ConnectEstablishReq
<1>2. CASE ~(ByAddr(h, Zero) # 0 \/ ByStatus(h, "CONNECTING") # 0)
  <2>1. \A j \in 1 .. Len(h.links) : h.links[j].addr # Zero
    BY <1>2, HostFields, Lookups
  <2>2. \A j \in 1 .. Len(h.links) : h.links[j].addr # link.addr /\ h.links[j].lcid # link.lcid
    BY <2>1, HostFields DEF LinksOk
  <2>3. link \in Link
    BY DEF Link
  <2>4. link.addr = Zero /\ link.lcid = NoLcid /\ link.status = "CONNECTING"
    OBVIOUS
  <2> HIDE DEF link
  <2>5. LinksOk(Append(h.links, link))
    BY <2>2, <2>3, <2>4, HostFields, LinksAdd
  <2>6. Real(Append(h.links, link)) = Real(h.links)
    BY <2>2, <2>3, <2>4, HostFields, LinksAdd
  <2>7. Calm(h, g)
    BY <2>5, <2>6, LinksCalm DEF SleLogicLinkAdd
  <2>8. Calm(g, asked)
    BY <2>7, SendCalm, CommandTypes DEF Calm
  <2>9. Calm(h, asked)
    BY <2>7, <2>8, CalmTrans
  <2>10. Calm(asked, [asked EXCEPT !.links = h.links])
    <3>1. Sound(asked) /\ Real(asked.links) = Real(h.links)
      BY <2>9 DEF Calm
    <3> QED BY <3>1, HostFields, LinksCalm
  <2>11. Calm(h, [asked EXCEPT !.links = h.links])
    BY <2>9, <2>10, CalmTrans
  <2>12. ConnectEstablishReq(h) = IF Ok(asked) THEN asked ELSE [asked EXCEPT !.links = h.links]
    BY <1>2 DEF ConnectEstablishReq, link
  <2> QED BY <2>9, <2>11, <2>12
<1> QED BY <1>1, <1>2

LEMMA ResetCalm ==
  ASSUME NEW h, Sound(h)
  PROVE  Calm(h, ResetAllowList(h))
<1> DEFINE t == Try(h, "LIST")
           some == [op |-> "LIST", addrs |-> Waiting(h) \cap h.bad.got]
           all == [op |-> "LIST", addrs |-> Waiting(h)]
<1>0. Waiting(h) \in SUBSET Addr /\ Waiting(h) \cap h.bad.got \in SUBSET Addr
  BY DEF Waiting
<1>1. some \in Command /\ all \in Command
  BY <1>0, CommandTypes
<1> HIDE DEF some, all
<1>2. CASE h.bad.op = "LIST"
  <2> PICK g : g = [t EXCEPT !.out = Append(@, some)]
    OBVIOUS
  <2>1. Calm(h, t)
    BY TryCalm
  <2>2. Sound(t)
    BY <2>1 DEF Calm
  <2>3. Append(t.out, some) \in Seq(Command) /\ Items(Append(t.out, some)) = Items(t.out) \cup {some}
    BY <1>1, <2>2, HostFields, AppendProperties, ItemsAppend
  <2>4. /\ g \in Host /\ g.links = t.links /\ g.bad = t.bad /\ g.devs = t.devs
        /\ g.asks = t.asks /\ g.out = Append(t.out, some) /\ g.ok = t.ok
    BY <2>2, <2>3 DEF Sound, Host
  <2>5. Calm(t, g)
    BY <2>2, <2>3, <2>4 DEF Calm, Sound
  <2>6. ResetAllowList(h) = g
    BY <1>2 DEF ResetAllowList, some
  <2> QED BY <2>1, <2>5, <2>6, CalmTrans
<1>3. CASE h.bad.op # "LIST"
  <2>1. ResetAllowList(h) = Send(h, all)
    BY <1>3 DEF ResetAllowList, all
  <2> QED BY <2>1, <1>1, SendCalm
<1> QED BY <1>2, <1>3

LEMMA StartCalm ==
  ASSUME NEW h, Sound(h)
  PROVE  Calm(h, StartAllowListConnReq(h))
<1> DEFINE g == ResetAllowList(h)
<1>1. Calm(h, h) /\ Calm(h, g)
  BY CalmSelf, ResetCalm
<1>2. Calm(g, ConnectEstablishReq(g))
  BY <1>1, EstablishCalm DEF Calm
<1>3. Calm(h, ConnectEstablishReq(g))
  BY <1>1, <1>2, CalmTrans
<1>4. StartAllowListConnReq(h) \in {h, g, ConnectEstablishReq(g)}
  BY DEF StartAllowListConnReq
<1> QED BY <1>1, <1>3, <1>4

LEMMA RestartCalm ==
  ASSUME NEW h, Sound(h)
  PROVE  Calm(h, Restart(h))
<1> DEFINE g == ConnectCancelReq(h)
<1>1. Calm(h, g)
  BY CancelCalm
<1>2. Calm(g, StartAllowListConnReq(g))
  BY <1>1, StartCalm DEF Calm
<1>3. Calm(h, StartAllowListConnReq(g))
  BY <1>1, <1>2, CalmTrans
<1>4. Restart(h) \in {g, StartAllowListConnReq(g)}
  BY DEF Restart
<1> QED BY <1>1, <1>3, <1>4

-----------------------------------------------------------------------------
(* The requests of the modules and the timers.                             *)

\* What a request may do: connections stay linked, and where no call fails the links that
\* change are released and the requests stay pending.
Kept(h, g) ==
    /\ \A k \in Real(g.links) : k \in Real(h.links) \/ Leaves({}, Items(g.out), k.lcid)
    /\ Pending(Real(h.links), h.asks, h.devs) => Pending(Real(g.links), g.asks, g.devs)

Served(h, g) ==
    /\ Sound(g) /\ g.bad = h.bad
    /\ Pairs(Real(g.links)) = Pairs(Real(h.links))
    /\ h.bad = NoFailure /\ h.ok => g.ok /\ Kept(h, g)

LEMMA ServedCalm ==
  ASSUME NEW h, NEW g, NEW f, Served(h, g), Calm(g, f)
  PROVE  Served(h, f)
<1>1. Sound(f) /\ f.bad = h.bad /\ Pairs(Real(f.links)) = Pairs(Real(h.links))
  BY DEF Served, Calm
<1>2. ASSUME h.bad = NoFailure, h.ok
      PROVE  f.ok /\ Kept(h, f)
  <2>1. g.ok /\ Kept(h, g) /\ f.ok = g.ok /\ Real(f.links) = Real(g.links) /\ f.devs = g.devs
          /\ f.asks = g.asks /\ Items(g.out) \subseteq Items(f.out)
    BY <1>2 DEF Served, Calm
  <2> QED BY <2>1 DEF Kept, Leaves
<1> QED BY <1>1, <1>2 DEF Served

LEMMA CalmServed ==
  ASSUME NEW h, NEW g, Calm(h, g)
  PROVE  Served(h, g)
BY DEF Served, Kept, Calm

\* Only the devices and the requests change.
LEMMA EditServed ==
  ASSUME NEW h, Sound(h), NEW g \in Host, g.links = h.links, g.out = h.out, g.ok = h.ok, g.bad = h.bad,
         h.bad = NoFailure /\ h.ok /\ Pending(Real(h.links), h.asks, h.devs) =>
             Pending(Real(h.links), g.asks, g.devs)
  PROVE  Served(h, g)
BY DEF Served, Kept, Sound

AsksLeft(asks, M, a) == asks \ (M \X {a})

LEMMA TellFields ==
  ASSUME NEW h \in Host, NEW a, NEW M
  PROVE  /\ Tell(h, a, M) \in Host
         /\ Tell(h, a, M).links = h.links /\ Tell(h, a, M).out = h.out
         /\ Tell(h, a, M).ok = h.ok /\ Tell(h, a, M).bad = h.bad /\ Tell(h, a, M).devs = h.devs
         /\ Tell(h, a, M).asks = AsksLeft(h.asks, M, a)
BY DEF Tell, Host, AsksLeft

LEMMA ForgetFields ==
  ASSUME NEW h \in Host, NEW A
  PROVE  /\ Forget(h, A) \in Host
         /\ Forget(h, A).links = h.links /\ Forget(h, A).out = h.out
         /\ Forget(h, A).ok = h.ok /\ Forget(h, A).bad = h.bad /\ Forget(h, A).asks = h.asks
         /\ \A a \in Addr : Forget(h, A).devs[a] = IF a \in A THEN NoDev ELSE h.devs[a]
<1>1. [a \in Addr |-> IF a \in A THEN NoDev ELSE h.devs[a]] \in [Addr -> Dev]
  BY DEF Host, NoDev, Dev
<1> QED BY <1>1 DEF Forget, Host

\* A device forgotten after a failure.
LEMMA FailureServed ==
  ASSUME NEW h, NEW g, Served(h, g), ~g.ok, NEW f \in Host, f.links = g.links, f.bad = g.bad
  PROVE  Served(h, f)
BY DEF Served, Sound

\* CM_DirectConnectAdd.
LEMMA DirectAddServed ==
  ASSUME NEW h, Sound(h), NEW m \in Module, NEW a \in Addr
  PROVE  Served(h, DirectConnectAddInner(h, m, a))
<1> DEFINE timed == Try(h, "TIMER")
           cancelled == ConnectCancelReq(timed)
           entered == [cancelled EXCEPT !.devs[a].direct = @ \cup {m}, !.asks = @ \cup {<<m, a>>}]
           inserted == DoingConnDirectInsert(h, m, a)
           done == IF m \in h.devs[a].direct THEN timed ELSE inserted
           forgotten == Forget(Tell(done, a, {m}), {a})
<1>1. Calm(h, timed)
  BY TryCalm
<1>2. Calm(h, cancelled)
  BY <1>1, CancelCalm, CalmTrans DEF Calm
<1>3. Served(h, timed) /\ Served(h, cancelled) /\ Served(h, h)
  BY <1>1, <1>2, CalmSelf, CalmServed
<1>4. Served(cancelled, entered)
  <2> PICK c : c = cancelled
    OBVIOUS
  <2>g. PICK g : g = [c EXCEPT !.devs[a].direct = @ \cup {m}, !.asks = @ \cup {<<m, a>>}]
    OBVIOUS
  <2>1. Sound(c)
    BY <1>2 DEF Calm
  <2>2. [c.devs EXCEPT ![a].direct = @ \cup {m}] \in [Addr -> Dev]
    BY <2>1, HostFields DEF Dev
  <2>3. /\ g \in Host /\ g.links = c.links /\ g.out = c.out /\ g.ok = c.ok /\ g.bad = c.bad
        /\ g.asks = c.asks \cup {<<m, a>>}
        /\ g.devs = [c.devs EXCEPT ![a].direct = @ \cup {m}]
    <3> PICK d \in [Addr -> Dev] : d = [c.devs EXCEPT ![a].direct = @ \cup {m}]
      BY <2>2
    <3> PICK k : k = c.asks \cup {<<m, a>>}
      OBVIOUS
    <3>k. k \in SUBSET (Module \X Addr)
      <4>1. <<m, a>> \in Module \X Addr
        OBVIOUS
      <4>2. c.asks \in SUBSET (Module \X Addr)
        BY <2>1, HostFields
      <4> QED BY <4>1, <4>2
    <3>0. c \in Host
      BY <2>1 DEF Sound
    <3>1. g.links = c.links /\ g.out = c.out /\ g.ok = c.ok /\ g.bad = c.bad
      BY <3>0, <2>g DEF Host
    <3>2. g.asks = k
      BY <3>0, <2>g DEF Host
    <3>3. g.devs = d
      BY <3>0, <2>g DEF Host
    <3>4. g \in Host
      BY <3>0, <2>g, <3>1, <3>2, <3>3, <3>k DEF Host
    <3> QED BY <3>1, <3>2, <3>3, <3>4
  <2>4. \A b \in Addr : c.devs[b].direct \subseteq g.devs[b].direct
    BY <2>1, <2>3, HostFields DEF Dev
  <2>5. m \in g.devs[a].direct
    BY <2>1, <2>3, HostFields DEF Dev
  <2>6. \A p \in c.asks : p[2] \in Addr
    BY <2>1, HostFields
  <2>7. Pending(Real(c.links), c.asks, c.devs) => Pending(Real(c.links), g.asks, g.devs)
    BY <2>3, <2>4, <2>5, <2>6 DEF Pending
  <2>8. Served(c, g)
    <3>1. g \in Host /\ g.links = c.links /\ g.out = c.out /\ g.ok = c.ok /\ g.bad = c.bad
      BY <2>3
    <3> QED BY <2>1, <2>7, <3>1, EditServed
  <2> QED BY <2>8, <2>g
<1>5. Served(h, entered)
  <2>1. Sound(entered)
    BY <1>4 DEF Served
  <2> QED BY <1>2, <1>4 DEF Served, Calm, Kept
<1> HIDE DEF entered
<1>6. Served(h, StartAllowListConnReq(entered))
  BY <1>5, StartCalm, ServedCalm DEF Served
<1>7. Served(h, inserted)
  BY <1>3, <1>6 DEF DoingConnDirectInsert, entered
<1>8. Served(h, done)
  BY <1>3, <1>7
<1>9. ~done.ok => Served(h, forgotten)
  <2> HIDE DEF done
  <2>1. done \in Host
    BY <1>8 DEF Served, Sound
  <2>2. forgotten \in Host /\ forgotten.links = done.links /\ forgotten.bad = done.bad
    BY <2>1, TellFields, ForgetFields
  <2> QED BY <1>8, <2>2, FailureServed
<1> QED BY <1>3, <1>8, <1>9 DEF DirectConnectAddInner, Ok

Swap(K, j, k) == (K \ {j}) \cup {k}

\* A link with a connection changes, but not its device or its handle.
Put(h, i, k) == [h EXCEPT !.links = SetLink(@, i, k)]

LEMMA PutFields ==
  ASSUME NEW h, Sound(h), NEW i \in 1 .. Len(h.links), NEW k \in Link,
         h.links[i].status # "CONNECTING", k.status # "CONNECTING",
         k.addr = h.links[i].addr, k.lcid = h.links[i].lcid
  PROVE  /\ Sound(Put(h, i, k)) /\ Put(h, i, k).devs = h.devs /\ Put(h, i, k).asks = h.asks
         /\ Put(h, i, k).out = h.out /\ Put(h, i, k).ok = h.ok /\ Put(h, i, k).bad = h.bad
         /\ Put(h, i, k).links = SetLink(h.links, i, k)
         /\ Real(Put(h, i, k).links) = Swap(Real(h.links), h.links[i], k)
         /\ h.links[i] \in Real(h.links)
         /\ Pairs(Real(Put(h, i, k).links)) = Pairs(Real(h.links))
<1>0. h \in Host /\ LinksOk(h.links)
  BY HostFields
<1> PICK ls : ls = h.links
  OBVIOUS
<1>1. ls[i].addr # Zero /\ ls[i].lcid # NoLcid
  BY <1>0 DEF LinksOk
<1>2. \A j \in 1 .. Len(ls) : j # i => ls[j].addr # k.addr /\ ls[j].lcid # k.lcid
  BY <1>0 DEF LinksOk
<1> PICK r : r = SetLink(ls, i, k)
  OBVIOUS
<1>3. LinksOk(r)
  BY <1>0, <1>1, <1>2, LinksSet
<1>4. Real(r) = (Real(ls) \ {ls[i]}) \cup {k}
  BY <1>0, <1>1, <1>2, LinksSet
<1>5. ls[i] \in Real(ls)
  BY <1>1 DEF Real
<1>6. Pairs(Real(r)) = Pairs(Real(ls))
  <2>1. ASSUME NEW p \in Pairs(Real(r))
        PROVE  p \in Pairs(Real(ls))
    <3>1. PICK x \in Real(r) : p = <<x.addr, x.lcid>>
      BY DEF Pairs
    <3>2. CASE x = k
      BY <3>1, <3>2, <1>5 DEF Pairs
    <3>3. CASE x # k
      BY <3>1, <3>3, <1>4 DEF Pairs
    <3> QED BY <3>2, <3>3
  <2>2. ASSUME NEW p \in Pairs(Real(ls))
        PROVE  p \in Pairs(Real(r))
    <3>1. PICK x \in Real(ls) : p = <<x.addr, x.lcid>>
      BY DEF Pairs
    <3>2. CASE x = ls[i]
      BY <3>1, <3>2, <1>4 DEF Pairs
    <3>3. CASE x # ls[i]
      BY <3>1, <3>3, <1>4 DEF Pairs
    <3> QED BY <3>2, <3>3
  <2> QED BY <2>1, <2>2
<1> PICK g : g = Put(h, i, k)
  OBVIOUS
<1>7. g = [h EXCEPT !.links = r]
  BY DEF Put
<1>8. r \in Seq(Link)
  BY <1>3 DEF LinksOk
<1>9. /\ g \in Host /\ g.links = r /\ g.devs = h.devs /\ g.asks = h.asks /\ g.out = h.out
      /\ g.ok = h.ok /\ g.bad = h.bad
  BY <1>0, <1>7, <1>8 DEF Host
<1> QED BY <1>3, <1>4, <1>5, <1>6, <1>9 DEF Sound, Swap

\* Marking a link as DISCONNECTING, or as known to the modules.
LEMMA MarkFields ==
  ASSUME NEW k \in Link, k.status # "CONNECTING"
  PROVE  /\ [k EXCEPT !.status = "DISCONNECTING"] \in Link
         /\ [k EXCEPT !.status = "DISCONNECTING"].status = "DISCONNECTING"
         /\ [k EXCEPT !.status = "DISCONNECTING"].addr = k.addr
         /\ [k EXCEPT !.status = "DISCONNECTING"].lcid = k.lcid
         /\ [k EXCEPT !.told = TRUE] \in Link
         /\ [k EXCEPT !.told = TRUE].told = TRUE
         /\ [k EXCEPT !.told = TRUE].status = k.status
         /\ [k EXCEPT !.told = TRUE].addr = k.addr
         /\ [k EXCEPT !.told = TRUE].lcid = k.lcid
BY DEF Link

\* CM_ConnectionProcInterruptReq: the link is on its way out.
LEMMA InterruptEffect ==
  ASSUME NEW h, Sound(h), NEW i \in 1 .. Len(h.links), h.links[i].status # "CONNECTING"
  PROVE  /\ Sound(Interrupt(h, i)) /\ Interrupt(h, i).bad = h.bad
         /\ Interrupt(h, i).devs = h.devs /\ Interrupt(h, i).asks = h.asks
         /\ h.bad = NoFailure => Interrupt(h, i).ok = h.ok
         /\ Items(h.out) \subseteq Items(Interrupt(h, i).out)
         /\ Pairs(Real(Interrupt(h, i).links)) = Pairs(Real(h.links))
         /\ Len(Interrupt(h, i).links) = Len(h.links)
         /\ \E k \in Link :
              /\ k.addr = h.links[i].addr /\ k.lcid = h.links[i].lcid /\ k.status = "DISCONNECTING"
              /\ Interrupt(h, i).links = SetLink(h.links, i, k)
              /\ Interrupt(h, i).links[i] = k
              /\ Real(Interrupt(h, i).links) = Swap(Real(h.links), h.links[i], k)
              /\ h.links[i] \in Real(h.links)
              /\ h.bad = NoFailure => Leaves({}, Items(Interrupt(h, i).out), k.lcid)
<1>0. h \in Host /\ LinksOk(h.links) /\ h.links \in Seq(Link)
  BY HostFields
<1>1. h.links[i] \in Link
  BY <1>0, ElementOfSeq
<1>k. PICK k \in Link : k = [h.links[i] EXCEPT !.status = "DISCONNECTING"]
  BY <1>1, MarkFields
<1>2. k.status = "DISCONNECTING" /\ k.addr = h.links[i].addr /\ k.lcid = h.links[i].lcid
  BY <1>1, <1>k, MarkFields
<1> PICK g : g = Put(h, i, k)
  OBVIOUS
<1>3. /\ Sound(g) /\ g.devs = h.devs /\ g.asks = h.asks /\ g.out = h.out /\ g.ok = h.ok
      /\ g.bad = h.bad /\ g.links = SetLink(h.links, i, k)
      /\ Real(g.links) = Swap(Real(h.links), h.links[i], k)
      /\ h.links[i] \in Real(h.links)
      /\ Pairs(Real(g.links)) = Pairs(Real(h.links))
  <2>1. k.status # "CONNECTING"
    BY <1>2
  <2> QED BY <1>2, <2>1, PutFields
<1>4. g = [h EXCEPT !.links[i].status = "DISCONNECTING"]
  BY <1>k DEF Put, SetLink
<1>c. PICK c : c = [op |-> "RELEASE", lcid |-> h.links[i].lcid]
  OBVIOUS
<1>5. h.links[i].lcid \in Lcid
  BY <1>0, <1>3, RealFacts
<1>6. c \in Command /\ c.op = "RELEASE" /\ c.lcid = k.lcid
  BY <1>2, <1>5, <1>c, CommandTypes
<1> PICK f : f = Send(g, c)
  OBVIOUS
<1>7. f = Interrupt(h, i)
  BY <1>4, <1>c DEF Interrupt
<1>8. Calm(g, f) /\ f.links = g.links /\ (g.bad = NoFailure => c \in Items(f.out))
  BY <1>3, <1>6, SendCalm
<1>9. h.bad = NoFailure => Leaves({}, Items(f.out), k.lcid)
  BY <1>3, <1>6, <1>8 DEF Leaves
<1>10. Len(f.links) = Len(h.links) /\ f.links[i] = k
  BY <1>0, <1>3, <1>8, ExceptSeq DEF SetLink
<1>11. /\ Sound(f) /\ f.bad = h.bad /\ f.devs = h.devs /\ f.asks = h.asks
       /\ h.bad = NoFailure => f.ok = h.ok
       /\ Items(h.out) \subseteq Items(f.out)
       /\ Pairs(Real(f.links)) = Pairs(Real(h.links))
       /\ f.links = SetLink(h.links, i, k)
       /\ Real(f.links) = Swap(Real(h.links), h.links[i], k)
  BY <1>3, <1>8 DEF Calm
<1> HIDE DEF Interrupt
<1> QED BY <1>2, <1>3, <1>7, <1>9, <1>10, <1>11

\* More links that go keep the requests pending.
LEMMA PendingMark ==
  ASSUME NEW K, NEW asks, NEW devs, NEW j, NEW k, Pending(K, asks, devs),
         k.addr = j.addr, k.status = "DISCONNECTING"
  PROVE  Pending(Swap(K, j, k), asks, devs)
<1> SUFFICES ASSUME NEW p \in asks, ~(p[1] \in devs[p[2]].direct)
             PROVE  \E x \in Swap(K, j, k) : x.addr = p[2] /\ (~x.told \/ x.status = "DISCONNECTING")
  BY DEF Pending
<1>1. PICK x \in K : x.addr = p[2] /\ (~x.told \/ x.status = "DISCONNECTING")
  BY DEF Pending
<1>2. CASE x = j
  BY <1>1, <1>2 DEF Swap
<1>3. CASE x # j
  BY <1>1, <1>3 DEF Swap
<1> QED BY <1>2, <1>3

\* CM_ConnectReleaseReq.
LEMMA ReleaseServed ==
  ASSUME NEW h, Sound(h), NEW i \in 1 .. Len(h.links), h.links[i].status # "CONNECTING"
  PROVE  Served(h, ConnectReleaseReq(h, i))
<1> DEFINE f == Interrupt(h, i)
<1>1. PICK k \in Link :
              /\ k.addr = h.links[i].addr /\ k.lcid = h.links[i].lcid /\ k.status = "DISCONNECTING"
              /\ f.links = SetLink(h.links, i, k)
              /\ f.links[i] = k
              /\ Real(f.links) = Swap(Real(h.links), h.links[i], k)
              /\ h.links[i] \in Real(h.links)
              /\ h.bad = NoFailure => Leaves({}, Items(f.out), k.lcid)
  BY InterruptEffect
<1>2. /\ Sound(f) /\ f.bad = h.bad /\ f.devs = h.devs /\ f.asks = h.asks
      /\ h.bad = NoFailure => f.ok = h.ok
      /\ Pairs(Real(f.links)) = Pairs(Real(h.links))
  BY InterruptEffect
<1> HIDE DEF f
<1>3. Pending(Real(h.links), h.asks, h.devs) => Pending(Real(f.links), f.asks, f.devs)
  BY <1>1, <1>2, PendingMark
<1>4. h.bad = NoFailure =>
        \A x \in Real(f.links) : x \in Real(h.links) \/ Leaves({}, Items(f.out), x.lcid)
  BY <1>1 DEF Swap
<1>5. Served(h, f)
  BY <1>2, <1>3, <1>4 DEF Served, Kept
<1>g. PICK g : g = [f EXCEPT !.links = h.links]
  OBVIOUS
<1>6. g \in Host /\ g.links = h.links /\ g.bad = f.bad
  BY <1>2, <1>g, HostFields DEF Host
<1> PICK t : t = TellAll(g, h.links[i].addr)
  OBVIOUS
<1>7. t \in Host /\ t.links = h.links /\ t.bad = f.bad
  <2>1. t = Tell(g, h.links[i].addr, Module)
    BY DEF TellAll
  <2> QED BY <2>1, <1>6, TellFields
<1>8. ConnectReleaseReq(h, i) = IF f.ok THEN f ELSE t
  BY <1>g DEF ConnectReleaseReq, Interrupt, Ok, f
<1>9. ~f.ok => Served(h, t)
  BY <1>2, <1>7 DEF Served, Sound
<1> QED BY <1>5, <1>8, <1>9

\* CM_DirectConnectRemove.
LEMMA DirectRemoveServed ==
  ASSUME NEW h, Sound(h), NEW m \in Module, NEW a \in Addr
  PROVE  Served(h, DirectConnectRmvInner(h, m, a))
<1>0. h \in Host /\ LinksOk(h.links) /\ h.links \in Seq(Link) /\ h.asks \in SUBSET (Module \X Addr)
        /\ h.devs \in [Addr -> Dev]
  BY HostFields
<1>1. CASE HasStatus(h, a, "CONNECTED")
  <2>1. ByAddr(h, a) \in 1 .. Len(h.links) /\ h.links[ByAddr(h, a)].status # "CONNECTING"
    BY <1>0, <1>1, Lookups DEF HasStatus
  <2>2. Served(h, ConnectReleaseReq(h, ByAddr(h, a)))
    BY <2>1, ReleaseServed
  <2>3. ~HasStatus(h, a, "DISCONNECTING")
    BY <1>1 DEF HasStatus
  <2> QED BY <1>1, <2>2, <2>3 DEF DirectConnectRmvInner
<1>2. Served(h, h)
  BY CalmSelf, CalmServed
<1>3. Served(h, DoingConnDirectRemove(h, m, a))
  <2>1. CASE h.devs[a] = NoDev
    <3> PICK g : g = Tell(h, a, {m})
      OBVIOUS
    <3>1. /\ g \in Host /\ g.links = h.links /\ g.out = h.out /\ g.ok = h.ok /\ g.bad = h.bad
          /\ g.devs = h.devs /\ g.asks = AsksLeft(h.asks, {m}, a)
      BY <1>0, TellFields
    <3>2. g.asks \subseteq h.asks
      BY <3>1 DEF AsksLeft
    <3>3. Pending(Real(h.links), h.asks, h.devs) => Pending(Real(h.links), g.asks, g.devs)
      BY <3>1, <3>2 DEF Pending
    <3>4. Served(h, g)
      BY <3>1, <3>3, EditServed
    <3> QED BY <2>1, <3>4 DEF DoingConnDirectRemove
  <2>2. CASE h.devs[a] # NoDev
    <3> PICK t : t = Tell(h, a, h.devs[a].direct)
      OBVIOUS
    <3>1. /\ t \in Host /\ t.links = h.links /\ t.out = h.out /\ t.ok = h.ok /\ t.bad = h.bad
          /\ t.devs = h.devs /\ t.asks = AsksLeft(h.asks, h.devs[a].direct, a)
      BY <1>0, TellFields
    <3> PICK g : g = Forget(t, {a})
      OBVIOUS
    <3>2. /\ g \in Host /\ g.links = h.links /\ g.out = h.out /\ g.ok = h.ok /\ g.bad = h.bad
          /\ g.asks = AsksLeft(h.asks, h.devs[a].direct, a)
          /\ \A b \in Addr : b # a => g.devs[b] = h.devs[b]
      BY <3>1, ForgetFields
    <3>3. \A p \in g.asks : /\ p \in h.asks /\ p[2] \in Addr
                            /\ p[2] = a => p[1] \notin h.devs[a].direct
      <4> SUFFICES ASSUME NEW p \in g.asks
                   PROVE  p \in h.asks /\ p[2] \in Addr /\ (p[2] = a => p[1] \notin h.devs[a].direct)
        OBVIOUS
      <4>1. p \in h.asks /\ p \notin h.devs[a].direct \X {a}
        BY <3>2 DEF AsksLeft
      <4>2. p \in Module \X Addr
        BY <4>1, <1>0
      <4>3. p = <<p[1], p[2]>> /\ p[2] \in Addr
        BY <4>2
      <4> QED BY <4>1, <4>3
    <3>4. Pending(Real(h.links), h.asks, h.devs) => Pending(Real(h.links), g.asks, g.devs)
      BY <3>2, <3>3 DEF Pending
    <3>5. Served(h, g)
      BY <3>2, <3>4, EditServed
    <3>6. Served(h, Restart(g))
      BY <3>5, RestartCalm, ServedCalm DEF Served
    <3> QED BY <2>2, <3>6 DEF DoingConnDirectRemove
  <2> QED BY <2>1, <2>2
<1>4. ~HasStatus(h, a, "CONNECTED") => DirectConnectRmvInner(h, m, a) \in {h, DoingConnDirectRemove(h, m, a)}
  BY DEF DirectConnectRmvInner
<1> QED BY <1>1, <1>2, <1>3, <1>4

\* CM_DirectConnTimeoutCbkInner.
LEMMA TimeoutServed ==
  ASSUME NEW h, Sound(h), NEW m \in Module, NEW a \in Addr
  PROVE  Served(h, DirectConnTimeoutCbkInner(h, m, a))
<1>0. h \in Host /\ LinksOk(h.links) /\ h.asks \in SUBSET (Module \X Addr) /\ h.devs \in [Addr -> Dev]
  BY HostFields
<1>d. PICK d : d = [h.devs EXCEPT ![a].direct = @ \ {m}]
  OBVIOUS
<1>1. d \in [Addr -> Dev]
  BY <1>0, <1>d DEF Dev
<1>2. \A b \in Addr : \A x : x \in h.devs[b].direct /\ (b # a \/ x # m) => x \in d[b].direct
  BY <1>0, <1>d DEF Dev
<1>g. PICK g : g = [h EXCEPT !.devs = d]
  OBVIOUS
<1>3. /\ g \in Host /\ g.links = h.links /\ g.out = h.out /\ g.ok = h.ok /\ g.bad = h.bad
      /\ g.asks = h.asks /\ g.devs = d
  BY <1>0, <1>1, <1>g DEF Host
<1>4. Sound(g)
  BY <1>0, <1>3 DEF Sound
<1> PICK r : r = Restart(g)
  OBVIOUS
<1>5. Calm(g, r)
  BY <1>4, RestartCalm
<1>6. /\ Sound(r) /\ r \in Host /\ r.bad = h.bad /\ Real(r.links) = Real(h.links) /\ r.devs = d
      /\ r.asks = h.asks /\ (h.bad = NoFailure => r.ok = h.ok)
  BY <1>3, <1>5 DEF Calm, Sound
<1> PICK t : t = Tell(r, a, {m})
  OBVIOUS
<1>7. /\ t \in Host /\ t.links = r.links /\ t.ok = r.ok /\ t.bad = h.bad /\ t.devs = d
      /\ t.asks = AsksLeft(h.asks, {m}, a)
  BY <1>6, TellFields
<1>8. \A p \in t.asks : p \in h.asks /\ p[2] \in Addr /\ (p[2] # a \/ p[1] # m)
  <2> SUFFICES ASSUME NEW p \in t.asks
               PROVE  p \in h.asks /\ p[2] \in Addr /\ (p[2] # a \/ p[1] # m)
    OBVIOUS
  <2>1. p \in h.asks /\ p \notin {m} \X {a}
    BY <1>7 DEF AsksLeft
  <2>2. p \in Module \X Addr
    BY <2>1, <1>0
  <2>3. p = <<p[1], p[2]>> /\ p[2] \in Addr
    BY <2>2
  <2> QED BY <2>1, <2>3
<1>9. Pending(Real(h.links), h.asks, h.devs) => Pending(Real(t.links), t.asks, t.devs)
  <2> HAVE Pending(Real(h.links), h.asks, h.devs)
  <2> SUFFICES ASSUME NEW p \in t.asks, ~(p[1] \in d[p[2]].direct)
               PROVE  \E k \in Real(h.links) : k.addr = p[2] /\ (~k.told \/ k.status = "DISCONNECTING")
    BY <1>6, <1>7 DEF Pending
  <2>1. p \in h.asks /\ ~(p[1] \in h.devs[p[2]].direct)
    BY <1>8, <1>2
  <2> QED BY <2>1 DEF Pending
<1>10. r.ok => Served(h, t)
  BY <1>6, <1>7, <1>9 DEF Served, Kept, Sound
<1>11. ~r.ok => Served(h, r)
  BY <1>6 DEF Served
<1>12. g = [h EXCEPT !.devs[a].direct = @ \ {m}]
  BY <1>d, <1>g
<1>13. DirectConnTimeoutCbkInner(h, m, a) = IF r.ok THEN t ELSE r
  BY <1>12 DEF DirectConnTimeoutCbkInner, Ok
<1> QED BY <1>10, <1>11, <1>13

\* Only background connections change.
SameBut(h, g) ==
    /\ g \in Host /\ g.links = h.links /\ g.out = h.out /\ g.ok = h.ok /\ g.bad = h.bad
    /\ g.asks = h.asks /\ \A a \in Addr : g.devs[a].direct = h.devs[a].direct

LEMMA SameButServed ==
  ASSUME NEW h, Sound(h), NEW g, SameBut(h, g)
  PROVE  Served(h, g)
<1>1. \A p \in h.asks : p[2] \in Addr
  BY HostFields
<1>2. Pending(Real(h.links), h.asks, h.devs) => Pending(Real(h.links), g.asks, g.devs)
  BY <1>1 DEF Pending, SameBut
<1> QED BY <1>2, EditServed DEF SameBut

\* CM_BackgroundConnectRemove.
LEMMA BgRemoveServed ==
  ASSUME NEW h, Sound(h), NEW a \in Addr
  PROVE  Served(h, BgConnectRmvInner(h, a))
<1>0. h \in Host /\ h.devs \in [Addr -> Dev]
  BY HostFields
<1>d. PICK d : d = [h.devs EXCEPT ![a].bg = FALSE]
  OBVIOUS
<1>1. d \in [Addr -> Dev] /\ \A b \in Addr : d[b].direct = h.devs[b].direct
  BY <1>0, <1>d DEF Dev
<1>g. PICK g : g = [h EXCEPT !.devs = d]
  OBVIOUS
<1>2. SameBut(h, g)
  BY <1>0, <1>1, <1>g DEF Host, SameBut
<1>3. Served(h, Restart(g))
  BY <1>2, SameButServed, RestartCalm, ServedCalm DEF Served
<1>4. Served(h, h)
  BY CalmSelf, CalmServed
<1>5. g = [h EXCEPT !.devs[a].bg = FALSE]
  BY <1>d, <1>g
<1>6. BgConnectRmvInner(h, a) = IF h.devs[a].bg THEN Restart(g) ELSE h
  BY <1>5 DEF BgConnectRmvInner
<1> QED BY <1>3, <1>4, <1>6

\* CM_BackgroundConnectClear.
LEMMA BgClearServed ==
  ASSUME NEW h, Sound(h)
  PROVE  Served(h, BgConnectClearInner(h))
<1>0. h \in Host /\ h.devs \in [Addr -> Dev]
  BY HostFields
<1>d. PICK d : d = [a \in Addr |-> [h.devs[a] EXCEPT !.bg = FALSE]]
  OBVIOUS
<1>1. d \in [Addr -> Dev] /\ \A b \in Addr : d[b].direct = h.devs[b].direct
  BY <1>0, <1>d DEF Dev
<1>g. PICK g : g = [h EXCEPT !.devs = d]
  OBVIOUS
<1>2. SameBut(h, g)
  BY <1>0, <1>1, <1>g DEF Host, SameBut
<1>3. Served(h, Restart(g))
  BY <1>2, SameButServed, RestartCalm, ServedCalm DEF Served
<1>4. BgConnectClearInner(h) = Restart(g)
  BY <1>d, <1>g DEF BgConnectClearInner
<1> QED BY <1>3, <1>4

\* One address of a background list.
LEMMA BgInsertSame ==
  ASSUME NEW h, NEW g, SameBut(h, g), NEW a \in Addr
  PROVE  SameBut(h, BgInsert(g, a))
<1>0. g \in Host /\ g.devs \in [Addr -> Dev]
  BY DEF SameBut, Host
<1>d. PICK d : d = [g.devs EXCEPT ![a].bg = TRUE]
  OBVIOUS
<1>1. d \in [Addr -> Dev] /\ \A b \in Addr : d[b].direct = g.devs[b].direct
  BY <1>0, <1>d DEF Dev
<1>f. PICK f : f = [g EXCEPT !.devs = d]
  OBVIOUS
<1>2. SameBut(h, f)
  BY <1>0, <1>1, <1>f DEF Host, SameBut
<1>3. f = [g EXCEPT !.devs[a].bg = TRUE]
  BY <1>d, <1>f
<1>4. BgInsert(g, a) = g \/ BgInsert(g, a) = f
  BY <1>3 DEF BgInsert
<1> QED BY <1>2, <1>4

\* f[n] is the host after the first n addresses.
Inserts(h, list, n, f) ==
    f = [k \in 0 .. n |-> IF k = 0 THEN h ELSE BgInsert(f[k - 1], list[k])]

LEMMA InsertsExist ==
  ASSUME NEW h, NEW list, NEW n \in Nat
  PROVE  \E f : Inserts(h, list, n, f)
<1> DEFINE B == {m \in Nat : ~ \E f : Inserts(h, list, m, f)}
<1> SUFFICES ASSUME B # {}
             PROVE  FALSE
  OBVIOUS
<1>1. PICK m \in B : \A k \in B : m <= k
  BY LeastNumber
<1>2. m \in Nat /\ ~ \E f : Inserts(h, list, m, f)
  OBVIOUS
<1>3. CASE m = 0
  <2> PICK f : f = [k \in 0 .. 0 |-> h]
    OBVIOUS
  <2>1. f = [k \in 0 .. 0 |-> IF k = 0 THEN h ELSE BgInsert(f[k - 1], list[k])]
    OBVIOUS
  <2> QED BY <2>1, <1>2, <1>3 DEF Inserts
<1>4. CASE m # 0
  <2>1. m - 1 \in Nat /\ m - 1 \notin B
    BY <1>1, <1>2, <1>4
  <2>2. PICK f : Inserts(h, list, m - 1, f)
    BY <2>1
  <2>3. \A k \in 0 .. m - 1 : f[k] = IF k = 0 THEN h ELSE BgInsert(f[k - 1], list[k])
    BY <2>2 DEF Inserts
  <2> DEFINE g == [k \in 0 .. m |-> IF k = m THEN BgInsert(f[m - 1], list[m]) ELSE f[k]]
  <2>4. \A k \in 0 .. m - 1 : k \in 0 .. m /\ k # m /\ g[k] = f[k]
    BY <1>2
  <2>5. g[m] = BgInsert(f[m - 1], list[m])
    BY <1>2
  <2>6. ASSUME NEW k \in 0 .. m
        PROVE  g[k] = IF k = 0 THEN h ELSE BgInsert(g[k - 1], list[k])
    <3> HIDE DEF g
    <3>1. CASE k = 0
      <4>1. 0 \in 0 .. m - 1
        BY <1>2, <1>4
      <4> QED BY <3>1, <4>1, <2>3, <2>4
    <3>2. CASE k = m
      <4>1. m - 1 \in 0 .. m - 1 /\ k # 0
        BY <1>2, <1>4, <3>2
      <4> QED BY <3>2, <4>1, <2>4, <2>5
    <3>3. CASE k # 0 /\ k # m
      <4>1. k \in 0 .. m - 1 /\ k - 1 \in 0 .. m - 1
        BY <3>3, <1>2
      <4> QED BY <3>3, <4>1, <2>3, <2>4
    <3> QED BY <3>1, <3>2, <3>3
  <2>7. g = [k \in 0 .. m |-> IF k = 0 THEN h ELSE BgInsert(g[k - 1], list[k])]
    <3>1. g = [k \in 0 .. m |-> g[k]]
      OBVIOUS
    <3> HIDE DEF g
    <3> QED BY <3>1, <2>6
  <2> HIDE DEF g
  <2>8. Inserts(h, list, m, g)
    BY <2>7 DEF Inserts
  <2> QED BY <2>8, <1>2
<1> QED BY <1>3, <1>4

\* A whole background list.
LEMMA BgInsertFirstSame ==
  ASSUME NEW h, Sound(h), NEW list \in Seq(Addr)
  PROVE  SameBut(h, BgInsertFirst(h, list)[Len(list)])
<1> PICK n \in Nat : n = Len(list)
  BY LenProperties
<1> DEFINE f == BgInsertFirst(h, list)
<1>1. f = CHOOSE x : Inserts(h, list, n, x)
  BY DEF BgInsertFirst, Inserts
<1>2. Inserts(h, list, n, f)
  BY <1>1, InsertsExist
<1> HIDE DEF f
<1>3. \A k \in 0 .. n : f[k] = IF k = 0 THEN h ELSE BgInsert(f[k - 1], list[k])
  BY <1>2 DEF Inserts
<1> DEFINE B == {k \in 0 .. n : ~SameBut(h, f[k])}
<1>4. ASSUME B # {}
      PROVE  FALSE
  <2>1. PICK m \in B : \A k \in B : m <= k
    <3>1. B \in SUBSET Nat
      OBVIOUS
    <3> HIDE DEF B
    <3> QED BY <3>1, <1>4, LeastNumber
  <2>2. m \in 0 .. n /\ ~SameBut(h, f[m])
    OBVIOUS
  <2>3. CASE m = 0
    <3>1. f[0] = h
      BY <1>3
    <3> QED BY <2>2, <2>3, <3>1, HostFields DEF SameBut
  <2>4. CASE m # 0
    <3>1. m - 1 \in 0 .. n /\ m \in 1 .. n /\ ~(m <= m - 1)
      BY <2>2, <2>4
    <3>2. SameBut(h, f[m - 1])
      BY <2>1, <3>1
    <3>3. list[m] \in Addr
      BY <3>1, ElementOfSeq
    <3>4. f[m] = BgInsert(f[m - 1], list[m])
      BY <1>3, <2>2, <2>4
    <3> QED BY <3>2, <3>3, <3>4, <2>2, BgInsertSame
  <2> QED BY <2>3, <2>4
<1>5. n \in 0 .. n
  OBVIOUS
<1> QED BY <1>4, <1>5 DEF f

\* CM_BackgroundConnectAdd.
LEMMA BgAddServed ==
  ASSUME NEW h, Sound(h), NEW list \in Seq(Addr)
  PROVE  Served(h, BgConnectAddInner(h, list))
<1> DEFINE added == BgInsertFirst(h, list)[Len(list)]
           done == IF Waiting(h) = {} THEN StartAllowListConnReq(added) ELSE Restart(added)
           forgotten == Forget(done, {list[i] : i \in DOMAIN list})
<1>1. SameBut(h, added)
  BY BgInsertFirstSame
<1>2. Served(h, h) /\ Served(h, added)
  BY <1>1, SameButServed, CalmSelf, CalmServed
<1> HIDE DEF added
<1>3. Served(h, StartAllowListConnReq(added)) /\ Served(h, Restart(added))
  BY <1>2, StartCalm, RestartCalm, ServedCalm DEF Served
<1>4. Served(h, done)
  BY <1>3
<1> HIDE DEF done
<1>5. done \in Host
  BY <1>4 DEF Served, Sound
<1>6. forgotten \in Host /\ forgotten.links = done.links /\ forgotten.bad = done.bad
  BY <1>5, ForgetFields
<1> HIDE DEF forgotten
<1>7. ~done.ok => Served(h, forgotten)
  BY <1>4, <1>6, FailureServed
<1>8. \/ BgConnectAddInner(h, list) = h
      \/ BgConnectAddInner(h, list) = IF done.ok THEN done ELSE forgotten
  BY DEF BgConnectAddInner, Ok, added, done, forgotten
<1> QED BY <1>2, <1>4, <1>7, <1>8

-----------------------------------------------------------------------------
(* The events of the controller.                                           *)

EndOf(e, l) == e.ev = "DISCONNECT" /\ e.lcid = l

\* What the links are after event e: those it does not end, and the one it announces.
Matched(h, g, e) ==
    /\ \A p \in Pairs(Real(g.links)) : \/ p \in Pairs(Real(h.links)) /\ ~EndOf(e, p[2])
                                       \/ e.ev = "COMPLETE" /\ p = <<e.addr, e.lcid>>
    /\ \A p \in Pairs(Real(h.links)) : p \in Pairs(Real(g.links)) \/ EndOf(e, p[2])

\* Where no call fails: a connection has a link or is released, a link the modules do not
\* know, or that goes, is followed up, and the requests stay pending.
Followed(h, g, e) ==
    /\ e.ev = "COMPLETE" => \/ <<e.addr, e.lcid>> \in Pairs(Real(g.links))
                            \/ Leaves({}, Items(g.out), e.lcid)
    /\ \A k \in Real(g.links) :
         ~k.told => \/ k \in Real(h.links) /\ (e.lcid # k.lcid \/ e.ev = "COMPLETE")
                    \/ Read({}, Items(g.out), k.lcid) \/ Leaves({}, Items(g.out), k.lcid)
    /\ \A k \in Real(g.links) :
         k.status = "DISCONNECTING" =>
             \/ ~EndOf(e, k.lcid) /\ \E j \in Real(h.links) : j.lcid = k.lcid /\ j.status = "DISCONNECTING"
             \/ Leaves({}, Items(g.out), k.lcid)
    /\ Pending(Real(h.links), h.asks, h.devs) => Pending(Real(g.links), g.asks, g.devs)

Taken(h, g, e) ==
    /\ Sound(g) /\ g.bad = h.bad /\ Matched(h, g, e)
    /\ h.bad = NoFailure /\ h.ok => g.ok /\ Followed(h, g, e)

LEMMA PairsFacts ==
  ASSUME NEW K
  PROVE  /\ \A k \in K : <<k.addr, k.lcid>> \in Pairs(K)
         /\ \A p \in Pairs(K) : \E k \in K : p = <<k.addr, k.lcid>> /\ p[1] = k.addr /\ p[2] = k.lcid
BY DEF Pairs

\* SleAccessDisconnectCbk.
LEMMA DisconnectTaken ==
  ASSUME NEW h, Sound(h), NEW e, e.ev = "DISCONNECT"
  PROVE  Taken(h, DisconnectCbk(h, e), e)
<1>0. h \in Host /\ LinksOk(h.links) /\ h.links \in Seq(Link) /\ h.asks \in SUBSET (Module \X Addr)
  BY HostFields
<1> PICK i : i = ByLcid(h, e.lcid)
  OBVIOUS
<1>1. CASE i = 0
  <2>1. \A j \in 1 .. Len(h.links) : h.links[j].lcid # e.lcid
    <3>1. \/ i = 0 /\ \A j \in 1 .. Len(h.links) : h.links[j].lcid # e.lcid
          \/ i \in 1 .. Len(h.links)
      BY <1>0, Lookups
    <3>2. ~(0 \in 1 .. Len(h.links))
      OBVIOUS
    <3> QED BY <1>1, <3>1, <3>2
  <2>2. \A k \in Real(h.links) : k.lcid # e.lcid
    BY <2>1 DEF Real
  <2>3. \A p \in Pairs(Real(h.links)) : p[2] # e.lcid
    BY <2>2, PairsFacts
  <2>4. Taken(h, h, e)
    BY <2>2, <2>3 DEF Taken, Matched, Followed, EndOf
  <2> QED BY <1>1, <2>4 DEF DisconnectCbk
<1>2. CASE i # 0
  <2>1. i \in 1 .. Len(h.links) /\ h.links[i].lcid = e.lcid
    BY <1>0, <1>2, Lookups
  <2> PICK j : j = h.links[i]
    OBVIOUS
  <2> PICK r : r = RemoveAt(h.links, i)
    OBVIOUS
  <2>2. LinksOk(r) /\ Real(r) = Real(h.links) \ {j} /\ r \in Seq(Link)
    <3>1. LinksOk(r) /\ Real(r) = Real(h.links) \ {j}
      BY <1>0, <2>1, LinksRemove
    <3> QED BY <3>1 DEF LinksOk
  <2>g. PICK g : g = SleLogicLinkRemove(h, i)
    OBVIOUS
  <2>3. /\ g \in Host /\ g.links = r /\ g.devs = h.devs /\ g.asks = h.asks /\ g.out = h.out
        /\ g.ok = h.ok /\ g.bad = h.bad
    BY <1>0, <2>2, <2>g DEF SleLogicLinkRemove, Host
  <2> PICK t : t = Tell(g, j.addr, Module)
    OBVIOUS
  <2>4. /\ t \in Host /\ t.links = r /\ t.devs = h.devs /\ t.out = h.out /\ t.ok = h.ok
        /\ t.bad = h.bad /\ t.asks = AsksLeft(h.asks, Module, j.addr)
    BY <2>3, TellFields
  <2>5. \A k \in Real(r) : k \in Real(h.links) /\ k.lcid # e.lcid
    <3> SUFFICES ASSUME NEW k \in Real(r)
                 PROVE  k \in Real(h.links) /\ k.lcid # e.lcid
      OBVIOUS
    <3>1. k \in Real(h.links) /\ k # j
      BY <2>2
    <3>2. j \in Real(h.links) \/ j.lcid = NoLcid
      BY <1>0, <2>1, RealFacts
    <3>3. k.lcid # NoLcid
      BY <3>1 DEF Real
    <3>4. k.lcid # j.lcid
      BY <3>1, <3>2, <3>3, <1>0, RealFacts
    <3> QED BY <3>1, <3>4, <2>1
  <2>6. \A k \in Real(h.links) : k \in Real(r) \/ k.lcid = e.lcid
    BY <2>1, <2>2
  <2>7. Matched(h, t, e)
    <3>1. ASSUME NEW p \in Pairs(Real(r))
          PROVE  p \in Pairs(Real(h.links)) /\ ~EndOf(e, p[2])
      <4>1. PICK k \in Real(r) : p = <<k.addr, k.lcid>> /\ p[2] = k.lcid
        BY PairsFacts
      <4> QED BY <4>1, <2>5, PairsFacts DEF EndOf
    <3>2. ASSUME NEW p \in Pairs(Real(h.links))
          PROVE  p \in Pairs(Real(r)) \/ EndOf(e, p[2])
      <4>1. PICK k \in Real(h.links) : p = <<k.addr, k.lcid>> /\ p[2] = k.lcid
        BY PairsFacts
      <4> QED BY <4>1, <2>6, PairsFacts DEF EndOf
    <3> QED BY <3>1, <3>2, <2>4 DEF Matched
  <2>8. Pending(Real(h.links), h.asks, h.devs) => Pending(Real(t.links), t.asks, t.devs)
    <3> HAVE Pending(Real(h.links), h.asks, h.devs)
    <3> SUFFICES ASSUME NEW p \in t.asks, ~(p[1] \in h.devs[p[2]].direct)
                 PROVE  \E k \in Real(r) : k.addr = p[2] /\ (~k.told \/ k.status = "DISCONNECTING")
      BY <2>4 DEF Pending
    <3>1. p \in h.asks /\ p \notin Module \X {j.addr}
      BY <2>4 DEF AsksLeft
    <3>2. p \in Module \X Addr
      BY <3>1, <1>0
    <3>3. p[2] # j.addr
      BY <3>1, <3>2
    <3>4. PICK k \in Real(h.links) : k.addr = p[2] /\ (~k.told \/ k.status = "DISCONNECTING")
      BY <3>1 DEF Pending
    <3>5. k \in Real(r)
      BY <3>3, <3>4, <2>2
    <3> QED BY <3>4, <3>5
  <2>9. Followed(h, t, e)
    BY <2>4, <2>5, <2>8 DEF Followed, EndOf
  <2>10. Taken(h, t, e)
    BY <2>2, <2>4, <2>7, <2>9 DEF Taken, Sound
  <2>11. DisconnectCbk(h, e) = t
    BY <1>2, <2>g DEF DisconnectCbk, TellAll
  <2> QED BY <2>10, <2>11
<1> QED BY <1>1, <1>2

\* A link is interrupted in answer to a read.
LEMMA InterruptTaken ==
  ASSUME NEW h, Sound(h), NEW g, NEW e, e.ev \in Reads,
         NEW i \in 1 .. Len(h.links), h.links[i].lcid = e.lcid, h.links[i].status # "CONNECTING",
         Calm(h, g), g.links = h.links
  PROVE  Taken(h, Interrupt(g, i), e)
<1>0. /\ Sound(g) /\ g.bad = h.bad /\ g.devs = h.devs /\ g.asks = h.asks
      /\ (h.bad = NoFailure => g.ok = h.ok)
  BY DEF Calm
<1> DEFINE f == Interrupt(g, i)
<1>1. PICK k \in Link :
              /\ k.addr = g.links[i].addr /\ k.lcid = g.links[i].lcid /\ k.status = "DISCONNECTING"
              /\ f.links = SetLink(g.links, i, k)
              /\ f.links[i] = k
              /\ Real(f.links) = Swap(Real(g.links), g.links[i], k)
              /\ g.links[i] \in Real(g.links)
              /\ g.bad = NoFailure => Leaves({}, Items(f.out), k.lcid)
  BY <1>0, InterruptEffect
<1>2. /\ Sound(f) /\ f.bad = g.bad /\ f.devs = g.devs /\ f.asks = g.asks
      /\ g.bad = NoFailure => f.ok = g.ok
      /\ Pairs(Real(f.links)) = Pairs(Real(g.links))
  BY <1>0, InterruptEffect
<1> HIDE DEF f
<1>3. \A l : ~EndOf(e, l)
  BY DEF EndOf, Reads
<1>4. e.ev # "COMPLETE"
  BY DEF Reads
<1>5. Matched(h, f, e)
  BY <1>2, <1>3 DEF Matched
<1>6. Pending(Real(h.links), h.asks, h.devs) => Pending(Real(f.links), f.asks, f.devs)
  BY <1>0, <1>1, <1>2, PendingMark
<1>7. ASSUME NEW x \in Real(f.links)
      PROVE  x = k \/ (x \in Real(h.links) /\ x.lcid # e.lcid)
  <2>1. x = k \/ (x \in Real(h.links) /\ x # h.links[i])
    BY <1>1 DEF Swap
  <2>2. LinksOk(h.links)
    BY HostFields
  <2>3. x \in Real(h.links) /\ x # h.links[i] => x.lcid # h.links[i].lcid
    BY <2>2, <1>1, RealFacts
  <2> QED BY <2>1, <2>3
<1>8. h.bad = NoFailure => Followed(h, f, e)
  BY <1>0, <1>1, <1>3, <1>4, <1>6, <1>7 DEF Followed
<1>9. Taken(h, f, e)
  BY <1>0, <1>2, <1>5, <1>8 DEF Taken
<1> QED BY <1>9 DEF f

\* A second report about the same link.
LEMMA InterruptAgain ==
  ASSUME NEW h, Sound(h), NEW g, NEW e, e.ev \in Reads, Taken(h, g, e),
         NEW i \in 1 .. Len(g.links), g.links[i].lcid = e.lcid, g.links[i].status # "CONNECTING"
  PROVE  Taken(h, Interrupt(g, i), e)
<1>0. Sound(g) /\ g.bad = h.bad /\ Matched(h, g, e)
        /\ (h.bad = NoFailure /\ h.ok => g.ok /\ Followed(h, g, e))
  BY DEF Taken
<1> DEFINE f == Interrupt(g, i)
<1>1. PICK k \in Link :
              /\ k.addr = g.links[i].addr /\ k.lcid = g.links[i].lcid /\ k.status = "DISCONNECTING"
              /\ f.links = SetLink(g.links, i, k)
              /\ f.links[i] = k
              /\ Real(f.links) = Swap(Real(g.links), g.links[i], k)
              /\ g.links[i] \in Real(g.links)
              /\ g.bad = NoFailure => Leaves({}, Items(f.out), k.lcid)
  BY <1>0, InterruptEffect
<1>2. /\ Sound(f) /\ f.bad = g.bad /\ f.devs = g.devs /\ f.asks = g.asks
      /\ g.bad = NoFailure => f.ok = g.ok
      /\ Items(g.out) \subseteq Items(f.out)
      /\ Pairs(Real(f.links)) = Pairs(Real(g.links))
  BY <1>0, InterruptEffect
<1> HIDE DEF f
<1>3. e.ev # "COMPLETE"
  BY DEF Reads
<1>4. Matched(h, f, e)
  BY <1>0, <1>2 DEF Matched
<1>5. ASSUME h.bad = NoFailure, h.ok
      PROVE  f.ok /\ Followed(h, f, e)
  <2>1. Followed(h, g, e) /\ g.ok /\ f.ok = g.ok /\ Leaves({}, Items(f.out), k.lcid)
    BY <1>0, <1>1, <1>2, <1>5
  <2>2. Pending(Real(h.links), h.asks, h.devs) => Pending(Real(f.links), f.asks, f.devs)
    BY <2>1, <1>1, <1>2, PendingMark DEF Followed
  <2>3. \A x \in Real(f.links) : x = k \/ x \in Real(g.links)
    BY <1>1 DEF Swap
  <2>4. \A l : (Read({}, Items(g.out), l) => Read({}, Items(f.out), l))
            /\ (Leaves({}, Items(g.out), l) => Leaves({}, Items(f.out), l))
    BY <1>2 DEF Read, Leaves
  <2>5. \A x \in Real(f.links) :
         ~x.told => \/ x \in Real(h.links) /\ (e.lcid # x.lcid \/ e.ev = "COMPLETE")
                    \/ Read({}, Items(f.out), x.lcid) \/ Leaves({}, Items(f.out), x.lcid)
    BY <2>1, <2>3, <2>4 DEF Followed
  <2>6. \A x \in Real(f.links) :
         x.status = "DISCONNECTING" =>
             \/ ~EndOf(e, x.lcid) /\ \E j \in Real(h.links) : j.lcid = x.lcid /\ j.status = "DISCONNECTING"
             \/ Leaves({}, Items(f.out), x.lcid)
    BY <2>1, <2>3, <2>4 DEF Followed
  <2> QED BY <2>1, <2>2, <2>5, <2>6, <1>3 DEF Followed
<1>6. Taken(h, f, e)
  BY <1>0, <1>2, <1>4, <1>5 DEF Taken
<1> QED BY <1>6 DEF f

\* The next read is asked for.
LEMMA NextReadTaken ==
  ASSUME NEW h, Sound(h), NEW e, e.ev \in Reads, NEW c \in Command, c.op \in Reads, c.lcid = e.lcid
  PROVE  Taken(h, Send(h, c), e) /\ Calm(h, Send(h, c)) /\ Send(h, c).links = h.links
<1> PICK g : g = Send(h, c)
  OBVIOUS
<1>1. Calm(h, g) /\ g.links = h.links /\ (h.bad = NoFailure => c \in Items(g.out))
  BY SendCalm
<1>2. \A l : ~EndOf(e, l)
  BY DEF EndOf, Reads
<1>3. e.ev # "COMPLETE"
  BY DEF Reads
<1>4. h.bad = NoFailure => Read({}, Items(g.out), e.lcid)
  BY <1>1 DEF Read
<1>5. /\ Sound(g) /\ g.bad = h.bad /\ Real(g.links) = Real(h.links) /\ g.devs = h.devs
      /\ g.asks = h.asks /\ (h.bad = NoFailure => g.ok = h.ok)
  BY <1>1 DEF Calm
<1>6. Matched(h, g, e)
  BY <1>2, <1>5 DEF Matched
<1>7. h.bad = NoFailure => Followed(h, g, e)
  BY <1>2, <1>3, <1>4, <1>5 DEF Followed
<1> QED BY <1>1, <1>5, <1>6, <1>7 DEF Taken

\* The modules hear of the link.
LEMMA ToldTaken ==
  ASSUME NEW h, Sound(h), NEW e, e.ev \in Reads,
         NEW i \in 1 .. Len(h.links), h.links[i].lcid = e.lcid, h.links[i].status # "CONNECTING"
  PROVE  Taken(h, TellAll([h EXCEPT !.links[i].told = TRUE], h.links[i].addr), e)
<1>0. h \in Host /\ LinksOk(h.links) /\ h.links \in Seq(Link) /\ h.asks \in SUBSET (Module \X Addr)
  BY HostFields
<1>1. h.links[i] \in Link
  BY <1>0, ElementOfSeq
<1>k. PICK k \in Link : k = [h.links[i] EXCEPT !.told = TRUE]
  BY <1>1, MarkFields
<1>2. k.status = h.links[i].status /\ k.addr = h.links[i].addr /\ k.lcid = h.links[i].lcid /\ k.told = TRUE
  BY <1>1, <1>k, MarkFields
<1> PICK g : g = Put(h, i, k)
  OBVIOUS
<1>3. /\ Sound(g) /\ g.devs = h.devs /\ g.asks = h.asks /\ g.out = h.out /\ g.ok = h.ok
      /\ g.bad = h.bad
      /\ Real(g.links) = Swap(Real(h.links), h.links[i], k)
      /\ h.links[i] \in Real(h.links)
      /\ Pairs(Real(g.links)) = Pairs(Real(h.links))
  BY <1>2, PutFields
<1>4. g = [h EXCEPT !.links[i].told = TRUE]
  BY <1>k DEF Put, SetLink
<1> PICK a : a = h.links[i].addr
  OBVIOUS
<1> PICK t : t = Tell(g, a, Module)
  OBVIOUS
<1>5. g \in Host /\ LinksOk(g.links)
  BY <1>3, HostFields
<1>6. /\ t \in Host /\ t.links = g.links /\ t.devs = h.devs /\ t.out = h.out /\ t.ok = h.ok
      /\ t.bad = h.bad /\ t.asks = AsksLeft(h.asks, Module, a)
  BY <1>3, <1>5, TellFields
<1>7. \A l : ~EndOf(e, l)
  BY DEF EndOf, Reads
<1>8. e.ev # "COMPLETE"
  BY DEF Reads
<1>9. ASSUME NEW x \in Real(t.links)
      PROVE  x = k \/ (x \in Real(h.links) /\ x.lcid # e.lcid)
  <2>1. x = k \/ (x \in Real(h.links) /\ x # h.links[i])
    BY <1>3, <1>6 DEF Swap
  <2>2. x \in Real(h.links) /\ x # h.links[i] => x.lcid # h.links[i].lcid
    BY <1>0, <1>3, RealFacts
  <2> QED BY <2>1, <2>2
<1>10. Matched(h, t, e)
  BY <1>3, <1>6, <1>7 DEF Matched
<1>11. Pending(Real(h.links), h.asks, h.devs) => Pending(Real(t.links), t.asks, t.devs)
  <2> HAVE Pending(Real(h.links), h.asks, h.devs)
  <2> SUFFICES ASSUME NEW p \in t.asks, ~(p[1] \in h.devs[p[2]].direct)
               PROVE  \E x \in Real(t.links) : x.addr = p[2] /\ (~x.told \/ x.status = "DISCONNECTING")
    BY <1>6 DEF Pending
  <2>1. p \in h.asks /\ p \notin Module \X {a}
    BY <1>6 DEF AsksLeft
  <2>2. p \in Module \X Addr
    BY <2>1, <1>0
  <2>3. p[2] # a
    BY <2>1, <2>2
  <2>4. PICK x \in Real(h.links) : x.addr = p[2] /\ (~x.told \/ x.status = "DISCONNECTING")
    BY <2>1 DEF Pending
  <2>5. x \in Real(t.links)
    BY <2>3, <2>4, <1>3, <1>6 DEF Swap
  <2> QED BY <2>4, <2>5
<1>12. \A x \in Real(t.links) : x.status = "DISCONNECTING" =>
             \E j \in Real(h.links) : j.lcid = x.lcid /\ j.status = "DISCONNECTING"
  BY <1>2, <1>3, <1>9
<1>13. \A x \in Real(t.links) : ~x.told => x \in Real(h.links) /\ e.lcid # x.lcid
  BY <1>2, <1>9
<1>14. Followed(h, t, e)
  BY <1>7, <1>8, <1>11, <1>12, <1>13 DEF Followed
<1>15. Taken(h, t, e)
  BY <1>5, <1>6, <1>10, <1>14 DEF Taken, Sound
<1>16. t = TellAll([h EXCEPT !.links[i].told = TRUE], h.links[i].addr)
  BY <1>4 DEF TellAll
<1> QED BY <1>15, <1>16

\* The answers to the reads.
LEMMA ReadTaken ==
  ASSUME NEW h, Sound(h), NEW e \in Event, e.ev \in Reads
  PROVE  Taken(h, ReadCbk(h, e), e)
<1>0. h \in Host /\ LinksOk(h.links) /\ h.links \in Seq(Link)
  BY HostFields
<1>1. e.lcid \in Lcid /\ e.ok \in BOOLEAN /\ e.lcid # NoLcid
  BY CmConnectAssumption DEF Event, Reads, NoLcid
<1> DEFINE i == ByLcid(h, e.lcid)
           told == TellAll([h EXCEPT !.links[i].told = TRUE], h.links[i].addr)
           c == [op |-> IF e.ev = "VERSION" THEN "FEATURES" ELSE "DATALEN", lcid |-> e.lcid]
           next == Send(h, c)
<1>2. c \in Command /\ c.op \in Reads /\ c.lcid = e.lcid
  BY <1>1 DEF Command, Reads
<1>3. \/ i = 0 /\ \A j \in 1 .. Len(h.links) : h.links[j].lcid # e.lcid
      \/ i \in 1 .. Len(h.links) /\ h.links[i].lcid = e.lcid
  BY <1>0, Lookups
<1>4. ~(0 \in 1 .. Len(h.links))
  OBVIOUS
<1> HIDE DEF i, c
<1>5. CASE i = 0
  <2>1. \A k \in Real(h.links) : k.lcid # e.lcid
    BY <1>3, <1>4, <1>5 DEF Real
  <2>2. \A l : ~EndOf(e, l)
    BY DEF EndOf, Reads
  <2>3. e.ev # "COMPLETE"
    BY DEF Reads
  <2>4. Taken(h, h, e)
    BY <2>1, <2>2, <2>3 DEF Taken, Matched, Followed
  <2> QED BY <1>5, <2>4 DEF ReadCbk, i
<1>6. CASE i # 0
  <2>1. i \in 1 .. Len(h.links) /\ h.links[i].lcid = e.lcid
    BY <1>3, <1>6
  <2>2. h.links[i].status # "CONNECTING" /\ h.links[i] \in Link
    BY <2>1, <1>0, <1>1, RealFacts, ElementOfSeq
  <2>3. Taken(h, told, e)
    BY <2>1, <2>2, ToldTaken
  <2>4. Taken(h, next, e) /\ Calm(h, next) /\ next.links = h.links
    BY <1>2, NextReadTaken
  <2>5. Taken(h, Interrupt(next, i), e)
    BY <2>1, <2>2, <2>4, InterruptTaken
  <2>6. Taken(h, Interrupt(h, i), e)
    BY <2>1, <2>2, CalmSelf, InterruptTaken
  <2>7. Taken(h, Interrupt(Interrupt(h, i), i), e)
    <3> DEFINE f == Interrupt(h, i)
    <3>1. PICK k \in Link :
              /\ k.addr = h.links[i].addr /\ k.lcid = h.links[i].lcid /\ k.status = "DISCONNECTING"
              /\ f.links = SetLink(h.links, i, k)
              /\ f.links[i] = k
              /\ Real(f.links) = Swap(Real(h.links), h.links[i], k)
              /\ h.links[i] \in Real(h.links)
              /\ h.bad = NoFailure => Leaves({}, Items(f.out), k.lcid)
      BY <2>1, <2>2, InterruptEffect
    <3>2. Len(f.links) = Len(h.links)
      BY <2>1, <2>2, InterruptEffect
    <3>3. Taken(h, f, e)
      BY <2>6
    <3> HIDE DEF f
    <3>4. i \in 1 .. Len(f.links) /\ f.links[i].lcid = e.lcid /\ f.links[i].status # "CONNECTING"
      BY <3>1, <3>2, <2>1
    <3>5. Taken(h, Interrupt(f, i), e)
      BY <3>3, <3>4, InterruptAgain
    <3> QED BY <3>5 DEF f
  <2>8. h.links[i].role \in {"G", "T"}
    BY <2>2 DEF Link
  <2>9. ReadCbk(h, e) \in {told, next, Interrupt(next, i), Interrupt(h, i), Interrupt(Interrupt(h, i), i)}
    <3>1. CASE ~e.ok /\ e.ev = "DATALEN"
      BY <1>6, <3>1 DEF ReadCbk, i
    <3>2. CASE ~e.ok /\ e.ev # "DATALEN"
      BY <1>6, <3>2 DEF ReadCbk, i
    <3>3. CASE e.ok /\ e.ev = "VERSION" /\ h.links[i].role = "T"
      BY <1>6, <3>3 DEF ReadCbk, i
    <3>4. CASE e.ok /\ e.ev = "VERSION" /\ h.links[i].role = "G"
      BY <1>6, <3>4 DEF ReadCbk, i, c
    <3>5. CASE e.ok /\ e.ev = "FEATURES"
      BY <1>6, <3>5 DEF ReadCbk, i, c
    <3>6. CASE e.ok /\ e.ev = "DATALEN"
      BY <1>6, <3>6 DEF ReadCbk, i
    <3>7. e.ev \in {"VERSION", "FEATURES", "DATALEN"}
      BY DEF Reads
    <3> QED BY <3>1, <3>2, <3>3, <3>4, <3>5, <3>6, <3>7, <2>8, <1>1
  <2> HIDE DEF told, next
  <2> QED BY <2>3, <2>4, <2>5, <2>6, <2>7, <2>9
<1> QED BY <1>5, <1>6

\* SleAccessConnectCbkProc: a connection that is new has a link now, or is released.
LEMMA CompletedEffect ==
  ASSUME NEW h, Sound(h), NEW e \in Event, e.ev = "COMPLETE",
         \A k \in Real(h.links) : k.addr # e.addr /\ k.lcid # e.lcid
  PROVE  \/ /\ Completed(h, e) = Send(h, [op |-> "RELEASE", lcid |-> e.lcid])
            /\ Completed(h, e).links = h.links
         \/ /\ Sound(Completed(h, e)) /\ Completed(h, e).bad = h.bad /\ Completed(h, e).ok = h.ok
            /\ Completed(h, e).devs = h.devs /\ Completed(h, e).asks = h.asks
            /\ Completed(h, e).out = h.out
            /\ Real(Completed(h, e).links) = Real(h.links) \cup {LinkOf(e)}
<1>0. h \in Host /\ LinksOk(h.links) /\ h.links \in Seq(Link)
  BY HostFields
<1>1. e.addr \in Addr /\ e.lcid \in Lcid /\ e.type \in {"SCAN", "ADV"} /\ e.role \in {"G", "T"}
  BY DEF Event, Reads
<1>2. e.addr # Zero /\ e.lcid # NoLcid
  BY <1>1, CmConnectAssumption DEF NoLcid
<1>k. PICK k : k = LinkOf(e)
  OBVIOUS
<1>3. /\ k \in Link /\ k.addr = e.addr /\ k.lcid = e.lcid /\ k.status = "CONNECTED" /\ k.told = FALSE
      /\ k.addr # Zero /\ k.lcid # NoLcid
  BY <1>1, <1>2, <1>k DEF LinkOf, Link
<1>4. \A j \in 1 .. Len(h.links) : h.links[j].addr # k.addr /\ h.links[j].lcid # k.lcid
  BY <1>0, <1>2, <1>3, RealFacts
<1>5. ByAddr(h, e.addr) = 0
  <2>1. \/ ByAddr(h, e.addr) = 0
        \/ ByAddr(h, e.addr) \in 1 .. Len(h.links) /\ h.links[ByAddr(h, e.addr)].addr = e.addr
    BY <1>0, Lookups
  <2> QED BY <2>1, <1>3, <1>4
<1>6. CASE e.type = "ADV"
  <2>1. (k.addr = Zero <=> k.lcid = NoLcid) /\ (k.addr = Zero <=> k.status = "CONNECTING")
    BY <1>3
  <2> PICK ls : ls = Append(h.links, k)
    OBVIOUS
  <2>2. LinksOk(ls)
    BY <1>0, <1>3, <1>4, <2>1, LinksAdd
  <2>3. Real(ls) = Real(h.links) \cup {k}
    BY <1>0, <1>3, <1>4, <2>1, LinksAdd
  <2>4. ls \in Seq(Link)
    BY <2>2 DEF LinksOk
  <2>g. PICK g : g = [h EXCEPT !.links = ls]
    OBVIOUS
  <2>5. /\ g \in Host /\ g.links = ls /\ g.devs = h.devs /\ g.asks = h.asks /\ g.out = h.out
        /\ g.ok = h.ok /\ g.bad = h.bad
    BY <1>0, <2>4, <2>g DEF Host
  <2>6. Completed(h, e) = g
    BY <1>5, <1>6, <1>k, <2>g DEF Completed, SleLogicLinkAdd
  <2> QED BY <2>2, <2>3, <2>5, <2>6, <1>k DEF Sound
<1>7. CASE e.type = "SCAN"
  <2>0. ~HasStatus(h, e.addr, "CONNECTED")
    BY <1>5 DEF HasStatus
  <2> DEFINE p == ByStatus(h, "CONNECTING")
  <2>1. CASE p = 0
    <3>1. Completed(h, e) = Send(h, [op |-> "RELEASE", lcid |-> e.lcid])
      BY <1>7, <2>0, <2>1 DEF Completed, NobodyWaits
    <3>2. [op |-> "RELEASE", lcid |-> e.lcid] \in Command
      BY <1>1, CommandTypes
    <3>3. Send(h, [op |-> "RELEASE", lcid |-> e.lcid]).links = h.links
      BY <3>2, SendCalm
    <3> QED BY <3>1, <3>3
  <2>2. CASE p # 0
    <3>1. p \in 1 .. Len(h.links) /\ h.links[p].status = "CONNECTING"
      BY <1>0, <2>2, Lookups
    <3>2. h.links[p] \notin Real(h.links)
      BY <1>0, <3>1, RealFacts
    <3>i. PICK i \in 1 .. Len(h.links) : i = p
      BY <3>1
    <3> PICK ls : ls = SetLink(h.links, i, k)
      OBVIOUS
    <3>3. k.status # "CONNECTING"
      BY <1>3
    <3>4. LinksOk(ls)
      BY <1>0, <1>3, <1>4, <3>3, LinksSet
    <3>5. Real(ls) = (Real(h.links) \ {h.links[i]}) \cup {k}
      BY <1>0, <1>3, <1>4, <3>3, LinksSet
    <3>6. Real(ls) = Real(h.links) \cup {k}
      BY <3>2, <3>5, <3>i
    <3>7. ls \in Seq(Link)
      BY <3>4 DEF LinksOk
    <3>g. PICK g : g = [h EXCEPT !.links = ls]
      OBVIOUS
    <3>8. /\ g \in Host /\ g.links = ls /\ g.devs = h.devs /\ g.asks = h.asks /\ g.out = h.out
          /\ g.ok = h.ok /\ g.bad = h.bad
      BY <1>0, <3>7, <3>g DEF Host
    <3>9. g = [h EXCEPT !.links[p] = LinkOf(e)]
      BY <1>k, <3>g, <3>i DEF SetLink
    <3>10. Completed(h, e) = g
      BY <1>7, <2>0, <2>2, <3>9 DEF Completed
    <3> QED BY <3>4, <3>6, <3>8, <3>10, <1>k DEF Sound
  <2> QED BY <2>1, <2>2
<1> QED BY <1>1, <1>6, <1>7

\* CM_SleCreateConnectionProc, with a link that has just come up.
LEMMA CreatedTaken ==
  ASSUME NEW h, Sound(h), NEW e \in Event, e.ev = "COMPLETE",
         \A k \in Real(h.links) : k.addr # e.addr /\ k.lcid # e.lcid,
         NEW c, Sound(c), c.bad = h.bad, c.ok = h.ok, c.devs = h.devs, c.asks = h.asks, c.out = h.out,
         Real(c.links) = Real(h.links) \cup {LinkOf(e)}
  PROVE  Taken(h, CreateConnectionProc(c, e), e)
<1>0. c \in Host /\ LinksOk(c.links) /\ c.links \in Seq(Link) /\ c.asks \in SUBSET (Module \X Addr)
  BY HostFields
<1>1. e.addr \in Addr /\ e.lcid \in Lcid
  BY DEF Event, Reads
<1>k. PICK k : k = LinkOf(e)
  OBVIOUS
<1>2. k \in Real(c.links) /\ k.addr = e.addr /\ k.lcid = e.lcid /\ k.status = "CONNECTED" /\ ~k.told
  BY <1>k DEF LinkOf
<1> PICK i : i = ByAddr(c, e.addr)
  OBVIOUS
<1>3. i \in 1 .. Len(c.links) /\ c.links[i] = k
  <2>1. PICK j \in 1 .. Len(c.links) : c.links[j] = k
    BY <1>2 DEF Real
  <2>2. i \in 1 .. Len(c.links) /\ c.links[i].addr = e.addr
    BY <1>0, <1>2, <2>1, Lookups
  <2>3. i = j
    BY <1>0, <1>2, <2>1, <2>2 DEF LinksOk
  <2> QED BY <2>1, <2>2, <2>3
<1>v. PICK v : v = [op |-> "VERSION", lcid |-> e.lcid]
  OBVIOUS
<1>4. v \in Command /\ v.op \in Reads /\ v.lcid = e.lcid
  BY <1>1, <1>v DEF Command, Reads
<1> DEFINE reading == Send(c, v)
           active == Try(reading, "FIXED")
           p == ByStatus(active, "CONNECTING")
           settled == IF e.type = "ADV" /\ p # 0 THEN SleLogicLinkRemove(active, p) ELSE active
<1>5. Calm(c, reading) /\ reading.links = c.links /\ (c.bad = NoFailure => v \in Items(reading.out))
  BY <1>4, SendCalm
<1>6. Calm(reading, active) /\ active.links = c.links
  BY <1>5, TryCalm DEF Calm
<1>7. Calm(c, active)
  BY <1>5, <1>6, CalmTrans
<1>8. Calm(active, settled)
  BY <1>7, RemoveCalm, CalmSelf DEF Calm
<1>9. Matched(h, c, e)
  <2>1. ASSUME NEW x \in Pairs(Real(c.links))
        PROVE  x \in Pairs(Real(h.links)) \/ x = <<e.addr, e.lcid>>
    <3>1. PICK y \in Real(c.links) : x = <<y.addr, y.lcid>>
      BY PairsFacts
    <3>2. CASE y = k
      BY <3>1, <3>2, <1>2
    <3>3. CASE y # k
      BY <3>1, <3>3, <1>k, PairsFacts
    <3> QED BY <3>2, <3>3
  <2>2. ASSUME NEW x \in Pairs(Real(h.links))
        PROVE  x \in Pairs(Real(c.links))
    BY DEF Pairs
  <2>3. \A l : ~EndOf(e, l)
    BY DEF EndOf
  <2> QED BY <2>1, <2>2, <2>3 DEF Matched
<1> HIDE DEF reading, active, settled
<1>10. ~active.ok => Taken(h, Interrupt(active, i), e)
  <2>1. /\ Sound(Interrupt(active, i)) /\ Interrupt(active, i).bad = active.bad
        /\ Pairs(Real(Interrupt(active, i).links)) = Pairs(Real(active.links))
    BY <1>2, <1>3, <1>6, <1>7, InterruptEffect DEF Calm
  <2>2. active.bad = h.bad /\ Pairs(Real(active.links)) = Pairs(Real(c.links))
          /\ (h.bad = NoFailure => active.ok = h.ok)
    BY <1>7 DEF Calm
  <2>3. Matched(h, Interrupt(active, i), e)
    BY <1>9, <2>1, <2>2 DEF Matched
  <2> QED BY <2>1, <2>2, <2>3 DEF Taken
<1> DEFINE f == Forget(settled, {e.addr})
           g == StartAllowListConnReq(f)
<1>11. Calm(c, settled)
  BY <1>7, <1>8, CalmTrans
<1>12. /\ f \in Host /\ f.links = settled.links /\ f.out = settled.out /\ f.ok = settled.ok
       /\ f.bad = settled.bad /\ f.asks = settled.asks
       /\ \A a \in Addr : a # e.addr => f.devs[a] = settled.devs[a]
  BY <1>11, ForgetFields DEF Calm, Sound
<1>13. Sound(f)
  BY <1>11, <1>12 DEF Calm, Sound
<1>14. Calm(f, g)
  BY <1>13, StartCalm
<1> HIDE DEF f, g
<1>15. /\ Sound(g) /\ g.bad = h.bad /\ Real(g.links) = Real(c.links) /\ g.asks = h.asks
       /\ (h.bad = NoFailure => g.ok = h.ok)
       /\ \A a \in Addr : a # e.addr => g.devs[a] = h.devs[a]
       /\ (h.bad = NoFailure => v \in Items(g.out))
  <2>1. Items(reading.out) \subseteq Items(g.out)
    BY <1>6, <1>8, <1>12, <1>14 DEF Calm
  <2> QED BY <1>5, <1>11, <1>12, <1>14, <2>1 DEF Calm
<1>16. Matched(h, g, e)
  BY <1>9, <1>15 DEF Matched
<1>17. h.bad = NoFailure => Read({}, Items(g.out), e.lcid)
  BY <1>4, <1>15 DEF Read
<1>18. Pending(Real(h.links), h.asks, h.devs) => Pending(Real(g.links), g.asks, g.devs)
  <2> HAVE Pending(Real(h.links), h.asks, h.devs)
  <2> SUFFICES ASSUME NEW x \in h.asks, ~(x[1] \in g.devs[x[2]].direct)
               PROVE  \E y \in Real(c.links) : y.addr = x[2] /\ (~y.told \/ y.status = "DISCONNECTING")
    BY <1>15 DEF Pending
  <2>1. x[2] \in Addr
    BY <1>0
  <2>2. CASE x[2] = e.addr
    BY <2>2, <1>2
  <2>3. CASE x[2] # e.addr
    <3>1. ~(x[1] \in h.devs[x[2]].direct)
      BY <2>1, <2>3, <1>15
    <3>2. PICK y \in Real(h.links) : y.addr = x[2] /\ (~y.told \/ y.status = "DISCONNECTING")
      BY <3>1 DEF Pending
    <3> QED BY <3>2
  <2> QED BY <2>2, <2>3
<1>19. \A x \in Real(g.links) : x = k \/ x \in Real(h.links)
  BY <1>15, <1>k
<1>20. <<e.addr, e.lcid>> \in Pairs(Real(g.links))
  BY <1>2, <1>15, PairsFacts
<1>21. h.bad = NoFailure => Followed(h, g, e)
  BY <1>2, <1>17, <1>18, <1>19, <1>20 DEF Followed, EndOf
<1>22. Taken(h, g, e)
  BY <1>15, <1>16, <1>21 DEF Taken
<1>23. CreateConnectionProc(c, e) = IF active.ok THEN g ELSE Interrupt(active, i)
  <2>1. c.links[i].status = "CONNECTED"
    BY <1>2, <1>3
  <2> QED BY <2>1, <1>v DEF CreateConnectionProc, ConcurrentConnDoingComplete, Ok, reading, active, settled, f, g
<1> QED BY <1>10, <1>22, <1>23

\* SleAccessConnectCbk.
LEMMA CompleteTaken ==
  ASSUME NEW h, Sound(h), NEW e \in Event, e.ev = "COMPLETE",
         \A k \in Real(h.links) : k.addr # e.addr /\ k.lcid # e.lcid
  PROVE  Taken(h, ConnectCbk(h, e), e)
<1> PICK c : c = Completed(h, e)
  OBVIOUS
<1>0. e.lcid \in Lcid
  BY DEF Event, Reads
<1>r. PICK r : r = [op |-> "RELEASE", lcid |-> e.lcid]
  OBVIOUS
<1>1. r \in Command /\ r.op = "RELEASE" /\ r.lcid = e.lcid
  BY <1>0, <1>r, CommandTypes
<1>2. CASE c = Send(h, r) /\ c.links = h.links
  <2>1. Calm(h, c) /\ (h.bad = NoFailure => r \in Items(c.out))
    BY <1>1, <1>2, SendCalm
  <2>2. /\ Sound(c) /\ c.bad = h.bad /\ Real(c.links) = Real(h.links) /\ c.asks = h.asks
        /\ c.devs = h.devs /\ (h.bad = NoFailure => c.ok = h.ok)
    BY <2>1 DEF Calm
  <2>3. h.bad = NoFailure => Leaves({}, Items(c.out), e.lcid)
    BY <1>1, <2>1 DEF Leaves
  <2>4. Matched(h, c, e)
    BY <2>2 DEF Matched, EndOf
  <2>5. h.bad = NoFailure => Followed(h, c, e)
    BY <2>2, <2>3 DEF Followed, EndOf
  <2>6. Taken(h, c, e)
    BY <2>2, <2>4, <2>5 DEF Taken
  <2> QED BY <1>2, <2>6 DEF ConnectCbk
<1>3. CASE /\ Sound(c) /\ c.bad = h.bad /\ c.ok = h.ok /\ c.devs = h.devs /\ c.asks = h.asks
           /\ c.out = h.out /\ Real(c.links) = Real(h.links) \cup {LinkOf(e)}
  <2>1. Taken(h, CreateConnectionProc(c, e), e)
    BY <1>3, CreatedTaken
  <2>2. LinkOf(e) \notin Real(h.links)
    BY DEF LinkOf
  <2>3. c.links # h.links
    BY <1>3, <2>2
  <2> QED BY <2>1, <2>3 DEF ConnectCbk
<1> QED BY <1>2, <1>3, <1>r, CompletedEffect

-----------------------------------------------------------------------------
(* The actions.                                                            *)

\* A handler starts with the host as it is, and ends with g.
Start(bad) == [links |-> host.links, devs |-> host.devs, asks |-> host.asks,
               out |-> <<>>, ok |-> TRUE, bad |-> bad]

RunTo(bad, g) ==
    /\ bad = NoFailure \/ (faults < MaxFault /\ ~g.ok)
    /\ host' = [links |-> g.links, devs |-> g.devs, asks |-> g.asks]
    /\ cmds' = cmds \o g.out
    /\ faults' = faults + (IF g.ok THEN 0 ELSE 1)
    /\ stale' \in BOOLEAN

LEMMA StartSound ==
  ASSUME IInv, NEW bad \in Failures \cup {NoFailure}
  PROVE  /\ Sound(Start(bad)) /\ Start(bad).bad = bad /\ Start(bad).ok = TRUE
         /\ Start(bad).links = host.links /\ Start(bad).devs = host.devs
         /\ Start(bad).asks = host.asks
<1>1. /\ host.links \in Seq(Link) /\ host.devs \in [Addr -> Dev]
      /\ host.asks \in SUBSET (Module \X Addr) /\ LinksOk(host.links)
  BY DEF IInv, TypeOK
<1>2. <<>> \in Seq(Command)
  BY EmptySeq
<1>3. Start(bad) \in Host
  BY <1>1, <1>2 DEF Start, Host
<1> QED BY <1>1, <1>3 DEF Start, Sound

\* What every handler leaves: the types, and no call failed if none has failed so far.
LEMMA RunTypes ==
  ASSUME IInv, NEW bad \in Failures \cup {NoFailure}, NEW g, Sound(g), bad = NoFailure => g.ok,
         RunTo(bad, g)
  PROVE  /\ host'.links = g.links /\ host'.devs = g.devs /\ host'.asks = g.asks
         /\ host'.links \in Seq(Link) /\ host'.devs \in [Addr -> Dev]
         /\ host'.asks \subseteq Module \X Addr /\ LinksOk(host'.links)
         /\ cmds' \in Seq(Command) /\ Items(cmds') = Items(cmds) \cup Items(g.out)
         /\ faults' \in 0 .. MaxFault /\ stale' \in BOOLEAN
         /\ faults' = 0 => faults = 0 /\ bad = NoFailure
<1>1. /\ g.links \in Seq(Link) /\ g.devs \in [Addr -> Dev] /\ g.asks \in SUBSET (Module \X Addr)
      /\ LinksOk(g.links) /\ g.out \in Seq(Command)
  BY HostFields
<1>2. cmds \in Seq(Command) /\ faults \in 0 .. MaxFault /\ MaxFault \in Nat
  BY CmConnectAssumption DEF IInv, TypeOK
<1>3. host'.links = g.links /\ host'.devs = g.devs /\ host'.asks = g.asks
  BY DEF RunTo
<1>4. cmds' \in Seq(Command) /\ Items(cmds') = Items(cmds) \cup Items(g.out)
  <2>1. cmds' = cmds \o g.out
    BY DEF RunTo
  <2>2. cmds \o g.out \in Seq(Command)
    BY <1>1, <1>2, ConcatProperties
  <2>3. Items(cmds \o g.out) = Items(cmds) \cup Items(g.out)
    BY <1>1, <1>2, ItemsConcat
  <2> QED BY <2>1, <2>2, <2>3
<1>5. CASE g.ok
  <2>1. faults' = faults /\ bad = NoFailure
    BY <1>2, <1>5 DEF RunTo
  <2> QED BY <1>1, <1>2, <1>3, <1>4, <2>1 DEF RunTo
<1>6. CASE ~g.ok
  <2>1. faults' = faults + 1 /\ faults < MaxFault
    BY <1>2, <1>6 DEF RunTo
  <2> QED BY <1>1, <1>2, <1>3, <1>4, <2>1 DEF RunTo
<1> QED BY <1>5, <1>6

\* A request or a timer.
LEMMA RunServed ==
  ASSUME IInv, NEW bad \in Failures \cup {NoFailure}, NEW g, Served(Start(bad), g), RunTo(bad, g),
         reqs' \in 0 .. MaxReq, UNCHANGED <<evts, ctl, air>>
  PROVE  IInv'
<1>0. /\ Sound(Start(bad)) /\ Start(bad).bad = bad /\ Start(bad).ok = TRUE
      /\ Start(bad).links = host.links /\ Start(bad).devs = host.devs
      /\ Start(bad).asks = host.asks
  BY StartSound
<1>1. /\ Sound(g) /\ Pairs(Real(g.links)) = Pairs(Real(host.links))
      /\ bad = NoFailure => g.ok /\ Kept(Start(bad), g)
  BY <1>0 DEF Served
<1>2. /\ host'.links = g.links /\ host'.devs = g.devs /\ host'.asks = g.asks
      /\ host'.links \in Seq(Link) /\ host'.devs \in [Addr -> Dev]
      /\ host'.asks \subseteq Module \X Addr /\ LinksOk(host'.links)
      /\ cmds' \in Seq(Command) /\ Items(cmds') = Items(cmds) \cup Items(g.out)
      /\ faults' \in 0 .. MaxFault /\ stale' \in BOOLEAN
      /\ faults' = 0 => faults = 0 /\ bad = NoFailure
  BY <1>1, RunTypes
<1>3. TypeOK'
  BY <1>2 DEF IInv, TypeOK
<1>4. Agree(Pairs(Real(host'.links)), evts', ctl'.conn)
  BY <1>1, <1>2 DEF IInv
<1>5. ASSUME faults' = 0
      PROVE  /\ Known(Real(host'.links), Items(evts'), Items(cmds'), ctl'.conn)
             /\ Heard(Real(host'.links), Items(evts'), Items(cmds'))
             /\ Pending(Real(host'.links), host'.asks, host'.devs)
  <2>1. Kept(Start(bad), g) /\ faults = 0
    BY <1>1, <1>2, <1>5
  <2>2. /\ Known(Real(host.links), Items(evts), Items(cmds), ctl.conn)
        /\ Heard(Real(host.links), Items(evts), Items(cmds))
        /\ Pending(Real(host.links), host.asks, host.devs)
    BY <2>1 DEF IInv
  <2>3. /\ \A k \in Real(g.links) : k \in Real(host.links) \/ Leaves({}, Items(g.out), k.lcid)
        /\ Pending(Real(g.links), g.asks, g.devs)
    BY <2>1, <2>2, <1>0 DEF Kept
  <2>4. Items(cmds) \subseteq Items(cmds') /\ Items(g.out) \subseteq Items(cmds') /\ evts' = evts
          /\ ctl' = ctl
    BY <1>2
  <2>5. Known(Real(g.links), Items(evts), Items(cmds'), ctl.conn)
    BY <2>2, <2>4, <1>1 DEF Known
  <2>6. Heard(Real(g.links), Items(evts), Items(cmds'))
    <3>1. \A l : Leaves({}, Items(g.out), l) => Leaves(Items(evts), Items(cmds'), l)
      BY <2>4 DEF Leaves
    <3>2. \A l : /\ Leaves(Items(evts), Items(cmds), l) => Leaves(Items(evts), Items(cmds'), l)
                 /\ Read(Items(evts), Items(cmds), l) => Read(Items(evts), Items(cmds'), l)
      BY <2>4 DEF Leaves, Read
    <3> QED BY <2>2, <2>3, <3>1, <3>2 DEF Heard
  <2> QED BY <2>3, <2>4, <2>5, <2>6, <1>2
<1> QED BY <1>2, <1>3, <1>4, <1>5 DEF IInv

\* The oldest event.
LEMMA RunTaken ==
  ASSUME IInv, evts # <<>>, NEW bad \in Failures \cup {NoFailure}, NEW g,
         Taken(Start(bad), g, Head(evts)), RunTo(bad, g),
         evts' = Tail(evts), UNCHANGED <<ctl, reqs, air>>
  PROVE  IInv'
<1>0. /\ Sound(Start(bad)) /\ Start(bad).bad = bad /\ Start(bad).ok = TRUE
      /\ Start(bad).links = host.links /\ Start(bad).devs = host.devs
      /\ Start(bad).asks = host.asks
  BY StartSound
<1> PICK e : e = Head(evts)
  OBVIOUS
<1>1. /\ Sound(g) /\ Matched(Start(bad), g, e)
      /\ bad = NoFailure => g.ok /\ Followed(Start(bad), g, e)
  BY <1>0 DEF Taken
<1>2. /\ host'.links = g.links /\ host'.devs = g.devs /\ host'.asks = g.asks
      /\ host'.links \in Seq(Link) /\ host'.devs \in [Addr -> Dev]
      /\ host'.asks \subseteq Module \X Addr /\ LinksOk(host'.links)
      /\ cmds' \in Seq(Command) /\ Items(cmds') = Items(cmds) \cup Items(g.out)
      /\ faults' \in 0 .. MaxFault /\ stale' \in BOOLEAN
      /\ faults' = 0 => faults = 0 /\ bad = NoFailure
  BY <1>1, RunTypes
<1>3. evts \in Seq(Event) /\ ctl.conn \in [Lcid -> Addr \cup {Zero}] /\ LinksOk(host.links)
        /\ Agree(Pairs(Real(host.links)), evts, ctl.conn)
  BY DEF IInv, TypeOK
<1>4. Tail(evts) \in Seq(Event) /\ e = evts[1] /\ Items(evts) = {e} \cup Items(Tail(evts))
  BY <1>3, Shorter, ItemsTail
<1>5. TypeOK'
  BY <1>2, <1>4 DEF IInv, TypeOK
<1> PICK K : K = Real(host.links)
  OBVIOUS
<1> PICK J : J = Real(g.links)
  OBVIOUS
<1>6. /\ \A p \in Pairs(J) : \/ p \in Pairs(K) /\ ~EndOf(e, p[2])
                             \/ e.ev = "COMPLETE" /\ p = <<e.addr, e.lcid>>
      /\ \A p \in Pairs(K) : p \in Pairs(J) \/ EndOf(e, p[2])
  BY <1>0, <1>1 DEF Matched
<1>7. Agree(Pairs(J), Tail(evts), ctl.conn)
  <2>1. Pairs(K) \in SUBSET (Addr \X Lcid) /\ Pairs(J) \in SUBSET (Addr \X Lcid)
    BY <1>3, <1>1, HostFields, RealFacts
  <2>2. \A p \in Pairs(J) : \/ p \in Pairs(K) /\ ~Gone(evts, p[2], 1)
                            \/ Complete(evts, 1) /\ p = <<evts[1].addr, evts[1].lcid>>
    BY <1>4, <1>6 DEF EndOf, Gone, Complete
  <2> QED BY <2>1, <2>2, <1>3, AgreeTail
<1>8. ASSUME faults' = 0
      PROVE  /\ Known(J, Items(Tail(evts)), Items(cmds'), ctl.conn)
             /\ Heard(J, Items(Tail(evts)), Items(cmds'))
             /\ Pending(J, g.asks, g.devs)
  <2>1. Followed(Start(bad), g, e) /\ faults = 0
    BY <1>1, <1>2, <1>8
  <2>2. Known(K, Items(evts), Items(cmds), ctl.conn) /\ Heard(K, Items(evts), Items(cmds))
        /\ Pending(K, host.asks, host.devs)
    BY <2>1 DEF IInv
  <2>3. Items(cmds) \subseteq Items(cmds') /\ Items(g.out) \subseteq Items(cmds')
    BY <1>2
  <2>4. \A l : /\ Leaves({}, Items(g.out), l) => Leaves(Items(Tail(evts)), Items(cmds'), l)
               /\ Read({}, Items(g.out), l) => Read(Items(Tail(evts)), Items(cmds'), l)
    BY <2>3 DEF Leaves, Read
  <2>5. \A l : Leaves(Items(evts), Items(cmds), l) /\ ~EndOf(e, l) =>
                 Leaves(Items(Tail(evts)), Items(cmds'), l)
    BY <1>4, <2>3 DEF Leaves, EndOf
  <2>6. \A l : Read(Items(evts), Items(cmds), l) /\ (e.lcid # l \/ e.ev = "COMPLETE") =>
                 Read(Items(Tail(evts)), Items(cmds'), l)
    BY <1>4, <2>3 DEF Read, Reads
  <2>7. Pending(J, g.asks, g.devs)
    BY <2>1, <2>2, <1>0 DEF Followed
  <2>8. Heard(J, Items(Tail(evts)), Items(cmds'))
    <3>1. ASSUME NEW k \in J, ~k.told
          PROVE  \/ Read(Items(Tail(evts)), Items(cmds'), k.lcid)
                 \/ Leaves(Items(Tail(evts)), Items(cmds'), k.lcid)
      <4>1. \/ k \in K /\ (e.lcid # k.lcid \/ e.ev = "COMPLETE")
            \/ Read({}, Items(g.out), k.lcid) \/ Leaves({}, Items(g.out), k.lcid)
        BY <2>1, <3>1, <1>0 DEF Followed
      <4>2. CASE k \in K /\ (e.lcid # k.lcid \/ e.ev = "COMPLETE")
        <5>1. Read(Items(evts), Items(cmds), k.lcid) \/ Leaves(Items(evts), Items(cmds), k.lcid)
          BY <4>2, <3>1, <2>2 DEF Heard
        <5>2. ~EndOf(e, k.lcid)
          BY <4>2 DEF EndOf
        <5> QED BY <4>2, <5>1, <5>2, <2>5, <2>6
      <4> QED BY <4>1, <4>2, <2>4
    <3>2. ASSUME NEW k \in J, k.status = "DISCONNECTING"
          PROVE  Leaves(Items(Tail(evts)), Items(cmds'), k.lcid)
      <4>1. \/ ~EndOf(e, k.lcid) /\ \E j \in K : j.lcid = k.lcid /\ j.status = "DISCONNECTING"
            \/ Leaves({}, Items(g.out), k.lcid)
        BY <2>1, <3>2, <1>0 DEF Followed
      <4>2. CASE ~EndOf(e, k.lcid) /\ \E j \in K : j.lcid = k.lcid /\ j.status = "DISCONNECTING"
        <5>1. Leaves(Items(evts), Items(cmds), k.lcid)
          BY <4>2, <2>2 DEF Heard
        <5> QED BY <4>2, <5>1, <2>5
      <4> QED BY <4>1, <4>2, <2>4
    <3> QED BY <3>1, <3>2 DEF Heard
  <2>9. Known(J, Items(Tail(evts)), Items(cmds'), ctl.conn)
    <3> SUFFICES ASSUME NEW l \in Lcid, ctl.conn[l] # Zero,
                        ~(\E x \in Items(cmds') : x.op = "RELEASE" /\ x.lcid = l),
                        ~Announced(Items(Tail(evts)), l)
                 PROVE  <<ctl.conn[l], l>> \in Pairs(J)
      BY DEF Known
    <3>1. e.lcid = l => ~EndOf(e, l) /\ (e.ev = "COMPLETE" => e.addr = ctl.conn[l])
      BY <1>3, StillAnnounced DEF EndOf
    <3>2. ~EndOf(e, l)
      BY <3>1 DEF EndOf
    <3>3. CASE <<ctl.conn[l], l>> \in Pairs(K)
      <4>1. <<ctl.conn[l], l>>[2] = l
        OBVIOUS
      <4> QED BY <3>2, <3>3, <4>1, <1>6
    <3>4. CASE Announced(Items(evts), l)
      <4>1. e.ev = "COMPLETE" /\ e.lcid = l
        BY <3>4, <1>4 DEF Announced
      <4>2. <<e.addr, e.lcid>> \in Pairs(J) \/ Leaves({}, Items(g.out), l)
        BY <4>1, <2>1, <1>0 DEF Followed
      <4>3. ~Leaves({}, Items(g.out), l)
        BY <2>3 DEF Leaves
      <4> QED BY <4>1, <4>2, <4>3, <3>1
    <3>5. ~(\E x \in Items(cmds) : x.op = "RELEASE" /\ x.lcid = l)
      BY <2>3
    <3> QED BY <3>3, <3>4, <3>5, <2>2 DEF Known
  <2> QED BY <2>7, <2>8, <2>9
<1> QED BY <1>2, <1>5, <1>7, <1>8 DEF IInv

-----------------------------------------------------------------------------
(* The controller's steps.                                                 *)

Released(C, l) == \E c \in C : c.op = "RELEASE" /\ c.lcid = l

\* What a step of the controller keeps: every connection is one that was known, or is
\* announced, and what was to be heard still is.
LEMMA CtlKeeps ==
  ASSUME IInv, UNCHANGED <<host, reqs>>,
         cmds' \in Seq(Command), evts' \in Seq(Event),
         ctl' \in [initiating : BOOLEAN, list : SUBSET Addr, conn : [Lcid -> Addr \cup {Zero}]],
         air' \in 0 .. MaxAir, faults' \in 0 .. MaxFault, stale' \in BOOLEAN,
         faults' = 0 => faults = 0,
         Agree(Pairs(Real(host.links)), evts', ctl'.conn),
         \A l \in Lcid :
            /\ Leaves(Items(evts), Items(cmds), l) => Leaves(Items(evts'), Items(cmds'), l)
            /\ Read(Items(evts), Items(cmds), l) => Read(Items(evts'), Items(cmds'), l)
            /\ ctl'.conn[l] # Zero =>
                  \/ Announced(Items(evts'), l)
                  \/ /\ ctl'.conn[l] = ctl.conn[l]
                     /\ Announced(Items(evts), l) => Announced(Items(evts'), l)
                     /\ Released(Items(cmds), l) => Released(Items(cmds'), l)
  PROVE  IInv'
<1>1. TypeOK'
  BY DEF IInv, TypeOK
<1>2. LinksOk(host.links)
  BY DEF IInv
<1>3. \A k \in Real(host.links) : k.lcid \in Lcid
  BY <1>2, RealFacts
<1>4. ASSUME faults' = 0
      PROVE  /\ Known(Real(host.links), Items(evts'), Items(cmds'), ctl'.conn)
             /\ Heard(Real(host.links), Items(evts'), Items(cmds'))
             /\ Pending(Real(host.links), host.asks, host.devs)
  <2>1. /\ Known(Real(host.links), Items(evts), Items(cmds), ctl.conn)
        /\ Heard(Real(host.links), Items(evts), Items(cmds))
        /\ Pending(Real(host.links), host.asks, host.devs)
    BY <1>4 DEF IInv
  <2>2. Known(Real(host.links), Items(evts'), Items(cmds'), ctl'.conn)
    BY <2>1 DEF Known, Released
  <2>3. Heard(Real(host.links), Items(evts'), Items(cmds'))
    BY <2>1, <1>3 DEF Heard
  <2> QED BY <2>1, <2>2, <2>3
<1> QED BY <1>1, <1>2, <1>4 DEF IInv

\* The types of the controller's state and of the queues.
LEMMA CtlTypes ==
  ASSUME IInv
  PROVE  /\ cmds \in Seq(Command) /\ evts \in Seq(Event) /\ ctl.conn \in [Lcid -> Addr \cup {Zero}]
         /\ ctl \in [initiating : BOOLEAN, list : SUBSET Addr, conn : [Lcid -> Addr \cup {Zero}]]
         /\ ctl.initiating \in BOOLEAN /\ ctl.list \in SUBSET Addr
         /\ air \in 0 .. MaxAir /\ faults \in 0 .. MaxFault /\ MaxFault \in Nat /\ MaxAir \in Nat
         /\ stale \in BOOLEAN /\ Pairs(Real(host.links)) \in SUBSET (Addr \X Lcid)
         /\ Agree(Pairs(Real(host.links)), evts, ctl.conn)
<1>1. Pairs(Real(host.links)) \in SUBSET (Addr \X Lcid)
  BY RealFacts DEF IInv
<1> QED BY <1>1, CmConnectAssumption DEF IInv, TypeOK

LEMMA EventTypes ==
  /\ \A l \in Lcid : [ev |-> "DISCONNECT", lcid |-> l] \in Event
  /\ \A l \in Lcid, r \in Reads, ok \in BOOLEAN : [ev |-> r, lcid |-> l, ok |-> ok] \in Event
  /\ \A l \in Lcid, a \in Addr, t \in {"SCAN", "ADV"}, r \in {"G", "T"} :
        [ev |-> "COMPLETE", addr |-> a, lcid |-> l, type |-> t, role |-> r] \in Event
BY DEF Event

\* A connection comes up.
LEMMA ConnectKeeps ==
  ASSUME IInv, NEW a \in Addr, NEW l \in Lcid, NEW type \in {"SCAN", "ADV"}, NEW role \in {"G", "T"},
         CtlConnect(a, l, type, role)
  PROVE  IInv'
<1>1. /\ cmds \in Seq(Command) /\ evts \in Seq(Event) /\ ctl.conn \in [Lcid -> Addr \cup {Zero}]
      /\ ctl \in [initiating : BOOLEAN, list : SUBSET Addr, conn : [Lcid -> Addr \cup {Zero}]]
      /\ air \in 0 .. MaxAir /\ faults \in 0 .. MaxFault /\ MaxFault \in Nat /\ MaxAir \in Nat
      /\ stale \in BOOLEAN /\ Pairs(Real(host.links)) \in SUBSET (Addr \X Lcid)
      /\ Agree(Pairs(Real(host.links)), evts, ctl.conn)
  BY CtlTypes
<1>2. PICK e \in Event : e = [ev |-> "COMPLETE", addr |-> a, lcid |-> l, type |-> type, role |-> role]
  BY EventTypes
<1>3. e.ev = "COMPLETE" /\ e.addr = a /\ e.lcid = l
  BY <1>2
<1>4. evts' = Append(evts, e) /\ UNCHANGED <<host, cmds, reqs, faults, stale>>
        /\ air < MaxAir /\ air' = air + 1 /\ ctl.conn[l] = Zero /\ a \notin Connected
  BY <1>2 DEF CtlConnect
<1>5. ctl' = [ctl EXCEPT !.conn[l] = a, !.initiating = @ /\ type = "ADV"]
  BY DEF CtlConnect
<1>6. ctl'.conn = [ctl.conn EXCEPT ![l] = a]
  BY <1>1, <1>5
<1>7. ctl' \in [initiating : BOOLEAN, list : SUBSET Addr, conn : [Lcid -> Addr \cup {Zero}]]
  BY <1>1, <1>5
<1>8. \A k \in Lcid : ctl.conn[k] # a
  BY <1>4, CmConnectAssumption DEF Connected
<1>9. Agree(Pairs(Real(host.links)), Append(evts, e), [ctl.conn EXCEPT ![l] = a])
  BY <1>1, <1>3, <1>4, <1>8, AgreeConnect
<1>10. evts' \in Seq(Event) /\ Items(evts') = Items(evts) \cup {e}
  BY <1>1, <1>4, Longer, ItemsAppend
<1>11. ASSUME NEW k \in Lcid
       PROVE  /\ Leaves(Items(evts), Items(cmds), k) => Leaves(Items(evts'), Items(cmds'), k)
              /\ Read(Items(evts), Items(cmds), k) => Read(Items(evts'), Items(cmds'), k)
              /\ ctl'.conn[k] # Zero =>
                    \/ Announced(Items(evts'), k)
                    \/ /\ ctl'.conn[k] = ctl.conn[k]
                       /\ Announced(Items(evts), k) => Announced(Items(evts'), k)
                       /\ Released(Items(cmds), k) => Released(Items(cmds'), k)
  <2>1. /\ Leaves(Items(evts), Items(cmds), k) => Leaves(Items(evts'), Items(cmds'), k)
        /\ Read(Items(evts), Items(cmds), k) => Read(Items(evts'), Items(cmds'), k)
        /\ Announced(Items(evts), k) => Announced(Items(evts'), k)
    BY <1>4, <1>10 DEF Leaves, Read, Announced
  <2>2. k = l => Announced(Items(evts'), k)
    BY <1>3, <1>10 DEF Announced
  <2>3. k # l => ctl'.conn[k] = ctl.conn[k]
    BY <1>1, <1>6
  <2> QED BY <2>1, <2>2, <2>3, <1>4
<1>12. air' \in 0 .. MaxAir
  BY <1>1, <1>4
<1>13. Agree(Pairs(Real(host.links)), evts', ctl'.conn)
  BY <1>4, <1>6, <1>9
<1>14. cmds' = cmds /\ faults' = faults /\ stale' = stale /\ host' = host /\ reqs' = reqs
  BY <1>4
<1> HIDE DEF CtlConnect
<1> QED BY <1>1, <1>7, <1>10, <1>11, <1>12, <1>13, <1>14, CtlKeeps

\* The end of a connection is queued: the peer has left, or it has been released, and then
\* the command is one of cmds no more.
LEMMA GoneKeeps ==
  ASSUME IInv, NEW l \in Lcid,
         ctl' = [ctl EXCEPT !.conn[l] = Zero],
         evts' = Append(evts, [ev |-> "DISCONNECT", lcid |-> l]),
         UNCHANGED <<host, reqs, faults, stale>>, air' \in 0 .. MaxAir,
         cmds' \in Seq(Command), Items(cmds') \subseteq Items(cmds),
         \A c \in Items(cmds) : c \in Items(cmds') \/ (c.op = "RELEASE" /\ c.lcid = l)
  PROVE  IInv'
<1>1. /\ cmds \in Seq(Command) /\ evts \in Seq(Event) /\ ctl.conn \in [Lcid -> Addr \cup {Zero}]
      /\ ctl \in [initiating : BOOLEAN, list : SUBSET Addr, conn : [Lcid -> Addr \cup {Zero}]]
      /\ faults \in 0 .. MaxFault
      /\ stale \in BOOLEAN /\ Pairs(Real(host.links)) \in SUBSET (Addr \X Lcid)
      /\ Agree(Pairs(Real(host.links)), evts, ctl.conn)
  BY CtlTypes
<1>2. PICK e \in Event : e = [ev |-> "DISCONNECT", lcid |-> l]
  BY EventTypes
<1>3. e.ev = "DISCONNECT" /\ e.lcid = l /\ evts' = Append(evts, e)
  BY <1>2
<1>6. ctl'.conn = [ctl.conn EXCEPT ![l] = Zero]
  BY <1>1
<1>7. ctl' \in [initiating : BOOLEAN, list : SUBSET Addr, conn : [Lcid -> Addr \cup {Zero}]]
  BY <1>1
<1>9. Agree(Pairs(Real(host.links)), Append(evts, e), [ctl.conn EXCEPT ![l] = Zero])
  BY <1>1, <1>3, AgreeGone
<1>10. evts' \in Seq(Event) /\ Items(evts') = Items(evts) \cup {e}
  BY <1>1, <1>3, Longer, ItemsAppend
<1>11. ASSUME NEW k \in Lcid
       PROVE  /\ Leaves(Items(evts), Items(cmds), k) => Leaves(Items(evts'), Items(cmds'), k)
              /\ Read(Items(evts), Items(cmds), k) => Read(Items(evts'), Items(cmds'), k)
              /\ ctl'.conn[k] # Zero =>
                    \/ Announced(Items(evts'), k)
                    \/ /\ ctl'.conn[k] = ctl.conn[k]
                       /\ Announced(Items(evts), k) => Announced(Items(evts'), k)
                       /\ Released(Items(cmds), k) => Released(Items(cmds'), k)
  <2>1. Leaves(Items(evts), Items(cmds), k) => Leaves(Items(evts'), Items(cmds'), k)
    BY <1>3, <1>10 DEF Leaves
  <2>2. Read(Items(evts), Items(cmds), k) => Read(Items(evts'), Items(cmds'), k)
    BY <1>10 DEF Read, Reads
  <2>3. Announced(Items(evts), k) => Announced(Items(evts'), k)
    BY <1>10 DEF Announced
  <2>4. k # l /\ Released(Items(cmds), k) => Released(Items(cmds'), k)
    BY DEF Released
  <2>5. k # l => ctl'.conn[k] = ctl.conn[k]
    BY <1>1, <1>6
  <2>6. k = l => ctl'.conn[k] = Zero
    BY <1>1, <1>6
  <2> QED BY <2>1, <2>2, <2>3, <2>4, <2>5, <2>6
<1>13. Agree(Pairs(Real(host.links)), evts', ctl'.conn)
  BY <1>3, <1>6, <1>9
<1>14. faults' \in 0 .. MaxFault /\ stale' \in BOOLEAN /\ (faults' = 0 => faults = 0)
  BY <1>1
<1> QED BY <1>7, <1>10, <1>11, <1>13, <1>14, CtlKeeps

\* A command that asks for nothing: the connections and the events stay.
LEMMA QuietKeeps ==
  ASSUME IInv, UNCHANGED <<host, reqs, air, evts>>, ctl'.conn = ctl.conn,
         ctl' \in [initiating : BOOLEAN, list : SUBSET Addr, conn : [Lcid -> Addr \cup {Zero}]],
         faults' \in 0 .. MaxFault, stale' \in BOOLEAN, faults' = 0 => faults = 0,
         cmds' \in Seq(Command),
         \A c \in Items(cmds) : c \in Items(cmds') \/ c.op \in {"LIST", "CREATE", "CANCEL"}
  PROVE  IInv'
<1>1. /\ evts \in Seq(Event) /\ air \in 0 .. MaxAir
      /\ Agree(Pairs(Real(host.links)), evts, ctl.conn)
  BY CtlTypes
<1>2. ASSUME NEW k \in Lcid
      PROVE  /\ Leaves(Items(evts), Items(cmds), k) => Leaves(Items(evts'), Items(cmds'), k)
             /\ Read(Items(evts), Items(cmds), k) => Read(Items(evts'), Items(cmds'), k)
             /\ Released(Items(cmds), k) => Released(Items(cmds'), k)
  BY DEF Leaves, Read, Released, Reads
<1>3. Agree(Pairs(Real(host.links)), evts', ctl'.conn)
  BY <1>1
<1>4. \A l \in Lcid :
            /\ Leaves(Items(evts), Items(cmds), l) => Leaves(Items(evts'), Items(cmds'), l)
            /\ Read(Items(evts), Items(cmds), l) => Read(Items(evts'), Items(cmds'), l)
            /\ ctl'.conn[l] # Zero =>
                  \/ Announced(Items(evts'), l)
                  \/ /\ ctl'.conn[l] = ctl.conn[l]
                     /\ Announced(Items(evts), l) => Announced(Items(evts'), l)
                     /\ Released(Items(cmds), l) => Released(Items(cmds'), l)
  BY <1>2
<1> QED BY <1>1, <1>3, <1>4, CtlKeeps

\* A read is answered.
LEMMA ReadKeeps ==
  ASSUME IInv, NEW op \in Reads, NEW l \in Lcid, CtlRead(op, l), UNCHANGED <<host, reqs, air>>,
         cmds' \in Seq(Command),
         \A c \in Items(cmds) : c \in Items(cmds') \/ (c.op = op /\ c.lcid = l)
  PROVE  IInv'
<1>1. /\ cmds \in Seq(Command) /\ evts \in Seq(Event) /\ ctl.conn \in [Lcid -> Addr \cup {Zero}]
      /\ ctl \in [initiating : BOOLEAN, list : SUBSET Addr, conn : [Lcid -> Addr \cup {Zero}]]
      /\ air \in 0 .. MaxAir /\ faults \in 0 .. MaxFault /\ MaxFault \in Nat
      /\ stale \in BOOLEAN /\ Pairs(Real(host.links)) \in SUBSET (Addr \X Lcid)
      /\ Agree(Pairs(Real(host.links)), evts, ctl.conn)
  BY CtlTypes
<1>2. PICK ok \in BOOLEAN : /\ evts' = Append(evts, [ev |-> op, lcid |-> l, ok |-> ok])
                            /\ faults' = faults + (IF ctl.conn[l] # Zero /\ ~ok THEN 1 ELSE 0)
                            /\ UNCHANGED <<ctl, stale>>
                            /\ ctl.conn[l] # Zero /\ ~ok => faults < MaxFault
  BY DEF CtlRead
<1>3. PICK e \in Event : e = [ev |-> op, lcid |-> l, ok |-> ok]
  BY EventTypes
<1>4. e.ev = op /\ e.lcid = l /\ evts' = Append(evts, e)
  BY <1>2, <1>3
<1>5. faults' \in 0 .. MaxFault /\ (faults' = 0 => faults = 0)
  <2>1. CASE ctl.conn[l] # Zero /\ ~ok
    BY <2>1, <1>1, <1>2
  <2>2. CASE ~(ctl.conn[l] # Zero /\ ~ok)
    BY <2>2, <1>1, <1>2
  <2> QED BY <2>1, <2>2
<1>6. Agree(Pairs(Real(host.links)), Append(evts, e), ctl.conn)
  BY <1>1, <1>4, AgreeRead
<1>7. evts' \in Seq(Event) /\ Items(evts') = Items(evts) \cup {e}
  BY <1>1, <1>4, Longer, ItemsAppend
<1>8. \A k \in Lcid :
            /\ Leaves(Items(evts), Items(cmds), k) => Leaves(Items(evts'), Items(cmds'), k)
            /\ Read(Items(evts), Items(cmds), k) => Read(Items(evts'), Items(cmds'), k)
            /\ ctl'.conn[k] # Zero =>
                  \/ Announced(Items(evts'), k)
                  \/ /\ ctl'.conn[k] = ctl.conn[k]
                     /\ Announced(Items(evts), k) => Announced(Items(evts'), k)
                     /\ Released(Items(cmds), k) => Released(Items(cmds'), k)
  <2> SUFFICES ASSUME NEW k \in Lcid
               PROVE  /\ Leaves(Items(evts), Items(cmds), k) => Leaves(Items(evts'), Items(cmds'), k)
                      /\ Read(Items(evts), Items(cmds), k) => Read(Items(evts'), Items(cmds'), k)
                      /\ Announced(Items(evts), k) => Announced(Items(evts'), k)
                      /\ Released(Items(cmds), k) => Released(Items(cmds'), k)
    BY <1>2
  <2>1. op # "RELEASE"
    BY DEF Reads
  <2>2. Leaves(Items(evts), Items(cmds), k) => Leaves(Items(evts'), Items(cmds'), k)
    BY <1>7, <2>1 DEF Leaves
  <2>3. Read(Items(evts), Items(cmds), k) => Read(Items(evts'), Items(cmds'), k)
    BY <1>4, <1>7 DEF Read
  <2>4. Announced(Items(evts), k) => Announced(Items(evts'), k)
    BY <1>7 DEF Announced
  <2>5. Released(Items(cmds), k) => Released(Items(cmds'), k)
    BY <2>1 DEF Released
  <2> QED BY <2>2, <2>3, <2>4, <2>5
<1>9. ctl' = ctl /\ stale' = stale /\ air' = air
  BY <1>2
<1>10. Agree(Pairs(Real(host.links)), evts', ctl'.conn)
  BY <1>4, <1>6, <1>9
<1> HIDE DEF CtlRead
<1> QED BY <1>1, <1>5, <1>7, <1>8, <1>9, <1>10, CtlKeeps

\* The controller takes a command.
LEMMA CommandKeeps ==
  ASSUME IInv, CtlCommand
  PROVE  IInv'
<1>1. /\ cmds \in Seq(Command) /\ evts \in Seq(Event) /\ ctl.conn \in [Lcid -> Addr \cup {Zero}]
      /\ ctl \in [initiating : BOOLEAN, list : SUBSET Addr, conn : [Lcid -> Addr \cup {Zero}]]
      /\ air \in 0 .. MaxAir /\ faults \in 0 .. MaxFault /\ MaxFault \in Nat /\ stale \in BOOLEAN
  BY CtlTypes
<1>2. PICK c : c = Head(cmds)
  OBVIOUS
<1>3. cmds # <<>> /\ cmds' = Tail(cmds) /\ UNCHANGED <<host, reqs, air>>
  BY DEF CtlCommand
<1>4. cmds' \in Seq(Command) /\ c \in Command /\ Items(cmds) = {c} \cup Items(cmds')
  BY <1>1, <1>2, <1>3, HeadTailProperties, ItemsTail
<1>5. Items(cmds') \subseteq Items(cmds) /\ \A d \in Items(cmds) : d \in Items(cmds') \/ d = c
  BY <1>4
<1>6. \/ c.op = "LIST" /\ ctl' = [ctl EXCEPT !.list = c.addrs] /\ UNCHANGED <<evts, faults, stale>>
      \/ c.op = "CANCEL" /\ ctl' = [ctl EXCEPT !.initiating = FALSE] /\ UNCHANGED <<evts, faults, stale>>
      \/ c.op = "CREATE" /\ CtlCreate
      \/ c.op = "RELEASE" /\ CtlRelease(c.lcid)
      \/ c.op \in Reads /\ CtlRead(c.op, c.lcid)
  BY <1>2 DEF CtlCommand
<1>7. /\ c.op = "LIST" => c.addrs \in SUBSET Addr
      /\ c.op \in Reads \cup {"RELEASE"} => c.lcid \in Lcid
  BY <1>4 DEF Command, Reads
<1>11. CASE c.op = "LIST" /\ ctl' = [ctl EXCEPT !.list = c.addrs] /\ UNCHANGED <<evts, faults, stale>>
  <2>1. ctl' \in [initiating : BOOLEAN, list : SUBSET Addr, conn : [Lcid -> Addr \cup {Zero}]]
          /\ ctl'.conn = ctl.conn
    BY <1>11, <1>1, <1>7
  <2> QED BY <2>1, <1>1, <1>3, <1>4, <1>5, <1>11, QuietKeeps
<1>12. CASE c.op = "CANCEL" /\ ctl' = [ctl EXCEPT !.initiating = FALSE] /\ UNCHANGED <<evts, faults, stale>>
  <2>1. ctl' \in [initiating : BOOLEAN, list : SUBSET Addr, conn : [Lcid -> Addr \cup {Zero}]]
          /\ ctl'.conn = ctl.conn
    BY <1>12, <1>1
  <2> QED BY <2>1, <1>1, <1>3, <1>4, <1>5, <1>12, QuietKeeps
<1>13. CASE c.op = "CREATE" /\ CtlCreate
  <2>1. PICK refused \in BOOLEAN : /\ ctl' = [ctl EXCEPT !.initiating = @ \/ ~refused]
                                   /\ faults' = faults + (IF refused THEN 1 ELSE 0)
                                   /\ stale' = (stale \/ refused)
                                   /\ evts' = evts /\ (refused => faults < MaxFault)
    BY <1>13 DEF CtlCreate
  <2>2. ctl' \in [initiating : BOOLEAN, list : SUBSET Addr, conn : [Lcid -> Addr \cup {Zero}]]
          /\ ctl'.conn = ctl.conn
    BY <2>1, <1>1
  <2>3. faults' \in 0 .. MaxFault /\ (faults' = 0 => faults = 0)
    <3>1. CASE refused
      BY <3>1, <2>1, <1>1
    <3>2. CASE ~refused
      BY <3>2, <2>1, <1>1
    <3> QED BY <3>1, <3>2
  <2>4. stale' \in BOOLEAN /\ evts' = evts
    BY <2>1
  <2> HIDE DEF CtlCreate
  <2> QED BY <2>2, <2>3, <2>4, <1>3, <1>4, <1>5, <1>13, QuietKeeps
<1>14. CASE c.op = "RELEASE" /\ CtlRelease(c.lcid)
  <2> PICK l \in Lcid : l = c.lcid
    BY <1>14, <1>7
  <2>1. /\ ctl' = [ctl EXCEPT !.conn[l] = Zero]
        /\ evts' = Append(evts, [ev |-> "DISCONNECT", lcid |-> l])
        /\ faults' = faults /\ stale' = stale
    BY <1>14 DEF CtlRelease
  <2>2. \A d \in Items(cmds) : d \in Items(cmds') \/ (d.op = "RELEASE" /\ d.lcid = l)
    BY <1>14, <1>5
  <2>3. air' \in 0 .. MaxAir
    BY <1>1, <1>3
  <2> QED BY <2>1, <2>2, <2>3, <1>3, <1>4, <1>5, GoneKeeps
<1>15. CASE c.op \in Reads /\ CtlRead(c.op, c.lcid)
  <2> PICK l \in Lcid : l = c.lcid
    BY <1>15, <1>7
  <2> PICK op \in Reads : op = c.op
    BY <1>15
  <2>1. CtlRead(op, l)
    BY <1>15
  <2>2. \A d \in Items(cmds) : d \in Items(cmds') \/ (d.op = op /\ d.lcid = l)
    BY <1>5
  <2> QED BY <2>1, <2>2, <1>3, <1>4, ReadKeeps
<1> QED BY <1>6, <1>11, <1>12, <1>13, <1>14, <1>15

-----------------------------------------------------------------------------
(* The invariant.                                                          *)

\* A request of a module: its handler runs once.
LEMMA RequestKeeps ==
  ASSUME IInv, NEW bad \in Failures \cup {NoFailure}, NEW g, Served(Start(bad), g), RunTo(bad, g),
         reqs < MaxReq, reqs' = reqs + 1, UNCHANGED <<evts, ctl, air>>
  PROVE  IInv'
<1>1. reqs \in 0 .. MaxReq /\ MaxReq \in Nat
  BY CmConnectAssumption DEF IInv, TypeOK
<1>2. reqs' \in 0 .. MaxReq
  BY <1>1
<1> QED BY <1>2, RunServed

LEMMA StepKeeps ==
  ASSUME IInv, [Next]_vars
  PROVE  IInv'
<1>1. ASSUME NEW m \in Module, NEW a \in Addr, DirectConnectAdd(m, a)
      PROVE  IInv'
  <2>1. PICK bad \in Failures \cup {NoFailure} : RunTo(bad, DirectConnectAddInner(Start(bad), m, a))
    BY <1>1 DEF DirectConnectAdd, Request, Run, RunTo, Start
  <2>2. reqs < MaxReq /\ reqs' = reqs + 1 /\ UNCHANGED <<evts, ctl, air>>
    BY <1>1 DEF DirectConnectAdd, Request
  <2> QED BY <2>1, <2>2, StartSound, DirectAddServed, RequestKeeps
<1>2. ASSUME NEW m \in Module, NEW a \in Addr, DirectConnectRemove(m, a)
      PROVE  IInv'
  <2>1. PICK bad \in Failures \cup {NoFailure} : RunTo(bad, DirectConnectRmvInner(Start(bad), m, a))
    BY <1>2 DEF DirectConnectRemove, Request, Run, RunTo, Start
  <2>2. reqs < MaxReq /\ reqs' = reqs + 1 /\ UNCHANGED <<evts, ctl, air>>
    BY <1>2 DEF DirectConnectRemove, Request
  <2> QED BY <2>1, <2>2, StartSound, DirectRemoveServed, RequestKeeps
<1>3. ASSUME NEW m \in Module, NEW a \in Addr, DirectConnTimeout(m, a)
      PROVE  IInv'
  <2>1. PICK bad \in Failures \cup {NoFailure} : RunTo(bad, DirectConnTimeoutCbkInner(Start(bad), m, a))
    BY <1>3 DEF DirectConnTimeout, Run, RunTo, Start
  <2>2. reqs' \in 0 .. MaxReq /\ UNCHANGED <<evts, ctl, air>>
    BY <1>3 DEF DirectConnTimeout, IInv, TypeOK
  <2> QED BY <2>1, <2>2, StartSound, TimeoutServed, RunServed
<1>4. ASSUME NEW list \in BgLists, BackgroundConnectAdd(list)
      PROVE  IInv'
  <2>0. list \in Seq(Addr)
    BY CmConnectAssumption
  <2>1. PICK bad \in Failures \cup {NoFailure} : RunTo(bad, BgConnectAddInner(Start(bad), list))
    BY <1>4 DEF BackgroundConnectAdd, Request, Run, RunTo, Start
  <2>2. reqs < MaxReq /\ reqs' = reqs + 1 /\ UNCHANGED <<evts, ctl, air>>
    BY <1>4 DEF BackgroundConnectAdd, Request
  <2> QED BY <2>0, <2>1, <2>2, StartSound, BgAddServed, RequestKeeps
<1>5. ASSUME NEW a \in Addr, BackgroundConnectRemove(a)
      PROVE  IInv'
  <2>1. PICK bad \in Failures \cup {NoFailure} : RunTo(bad, BgConnectRmvInner(Start(bad), a))
    BY <1>5 DEF BackgroundConnectRemove, Request, Run, RunTo, Start
  <2>2. reqs < MaxReq /\ reqs' = reqs + 1 /\ UNCHANGED <<evts, ctl, air>>
    BY <1>5 DEF BackgroundConnectRemove, Request
  <2> QED BY <2>1, <2>2, StartSound, BgRemoveServed, RequestKeeps
<1>6. CASE BackgroundConnectClear
  <2>1. PICK bad \in Failures \cup {NoFailure} : RunTo(bad, BgConnectClearInner(Start(bad)))
    BY <1>6 DEF BackgroundConnectClear, Request, Run, RunTo, Start
  <2>2. reqs < MaxReq /\ reqs' = reqs + 1 /\ UNCHANGED <<evts, ctl, air>>
    BY <1>6 DEF BackgroundConnectClear, Request
  <2> QED BY <2>1, <2>2, StartSound, BgClearServed, RequestKeeps
<1>7. CASE Recv
  <2>1. PICK bad \in Failures \cup {NoFailure} : RunTo(bad, Handle(Start(bad), Head(evts)))
    BY <1>7 DEF Recv, Run, RunTo, Start
  <2>2. evts # <<>> /\ evts' = Tail(evts) /\ UNCHANGED <<ctl, reqs, air>>
    BY <1>7 DEF Recv
  <2> PICK e : e = Head(evts)
    OBVIOUS
  <2> PICK h : h = Start(bad)
    OBVIOUS
  <2>3. Sound(h) /\ h.links = host.links
    BY StartSound
  <2>4. evts \in Seq(Event) /\ LinkFirst(Pairs(Real(host.links)), evts)
    BY DEF IInv, TypeOK, Agree
  <2>5. e \in Event
    BY <2>2, <2>4, Shorter
  <2>6. e.ev \in {"COMPLETE", "DISCONNECT"} \cup Reads
    BY <2>5 DEF Event
  <2>7. CASE e.ev = "COMPLETE"
    <3>1. \A p \in Pairs(Real(h.links)) : p[1] # e.addr /\ p[2] # e.lcid
      BY <2>2, <2>3, <2>4, <2>7, AnnouncedIsNew
    <3>2. \A k \in Real(h.links) : k.addr # e.addr /\ k.lcid # e.lcid
      <4> SUFFICES ASSUME NEW k \in Real(h.links)
                   PROVE  k.addr # e.addr /\ k.lcid # e.lcid
        OBVIOUS
      <4>1. <<k.addr, k.lcid>> \in Pairs(Real(h.links))
        BY PairsFacts
      <4> QED BY <3>1, <4>1
    <3>3. Handle(h, e) = ConnectCbk(h, e)
      BY <2>7 DEF Handle
    <3> QED BY <2>1, <2>2, <2>3, <2>5, <2>7, <3>2, <3>3, CompleteTaken, RunTaken
  <2>8. CASE e.ev = "DISCONNECT"
    <3>1. Handle(h, e) = DisconnectCbk(h, e)
      BY <2>8 DEF Handle
    <3> QED BY <2>1, <2>2, <2>3, <2>8, <3>1, DisconnectTaken, RunTaken
  <2>9. CASE e.ev \in Reads
    <3>1. Handle(h, e) = ReadCbk(h, e)
      BY <2>9 DEF Handle, Reads
    <3> QED BY <2>1, <2>2, <2>3, <2>5, <2>9, <3>1, ReadTaken, RunTaken
  <2> QED BY <2>6, <2>7, <2>8, <2>9
<1>8. CASE CtlCommand
  BY <1>8, CommandKeeps
<1>9. ASSUME NEW a \in Addr, NEW l \in Lcid, NEW end \in Ends, CtlConnect(a, l, end[1], end[2])
      PROVE  IInv'
  <2>1. end[1] \in {"SCAN", "ADV"} /\ end[2] \in {"G", "T"}
    BY CmConnectAssumption
  <2> QED BY <1>9, <2>1, ConnectKeeps
<1>10. ASSUME NEW l \in Lcid, CtlLose(l)
       PROVE  IInv'
  <2>1. cmds \in Seq(Command) /\ air \in 0 .. MaxAir /\ MaxAir \in Nat
    BY CtlTypes
  <2>2. /\ ctl' = [ctl EXCEPT !.conn[l] = Zero]
        /\ evts' = Append(evts, [ev |-> "DISCONNECT", lcid |-> l])
        /\ host' = host /\ cmds' = cmds /\ reqs' = reqs /\ faults' = faults /\ stale' = stale
        /\ air < MaxAir /\ air' = air + 1
    BY <1>10 DEF CtlLose
  <2>3. air' \in 0 .. MaxAir
    BY <2>1, <2>2
  <2>4. cmds' \in Seq(Command) /\ Items(cmds') = Items(cmds)
    BY <2>1, <2>2
  <2> QED BY <2>2, <2>3, <2>4, GoneKeeps
<1>11. CASE UNCHANGED vars
  <2>1. /\ host' = host /\ cmds' = cmds /\ evts' = evts /\ ctl' = ctl /\ reqs' = reqs /\ air' = air
        /\ faults' = faults /\ stale' = stale
    BY <1>11 DEF vars
  <2>2. TypeOK'
    BY <2>1 DEF IInv, TypeOK
  <2> QED BY <2>1, <2>2 DEF IInv
<1> QED BY <1>1, <1>2, <1>3, <1>4, <1>5, <1>6, <1>7, <1>8, <1>9, <1>10, <1>11 DEF Next

LEMMA InitHolds ==
  ASSUME Init
  PROVE  IInv
<1>1. <<>> \in Seq(Link) /\ <<>> \in Seq(Command) /\ <<>> \in Seq(Event) /\ Len(<<>>) = 0
  BY EmptySeq
<1>2. TypeOK
  <2>1. host.links = <<>> /\ host.devs = [a \in Addr |-> NoDev] /\ host.asks = {}
    BY DEF Init
  <2>2. NoDev \in Dev
    BY DEF NoDev, Dev
  <2>3. ctl \in [initiating : BOOLEAN, list : SUBSET Addr, conn : [Lcid -> Addr \cup {Zero}]]
    BY DEF Init
  <2>4. host.links \in Seq(Link) /\ host.devs \in [Addr -> Dev] /\ host.asks \subseteq Module \X Addr
    BY <1>1, <2>1, <2>2
  <2>5. cmds \in Seq(Command) /\ evts \in Seq(Event) /\ stale \in BOOLEAN
    BY <1>1 DEF Init
  <2>6. reqs \in 0 .. MaxReq /\ air \in 0 .. MaxAir /\ faults \in 0 .. MaxFault
    BY CmConnectAssumption DEF Init
  <2> QED BY <2>3, <2>4, <2>5, <2>6 DEF TypeOK
<1>3. host.links = <<>> /\ evts = <<>> /\ host.asks = {} /\ \A l \in Lcid : ctl.conn[l] = Zero
  BY DEF Init
<1>4. LinksOk(host.links) /\ Real(host.links) = {}
  BY <1>1, <1>3 DEF LinksOk, Real
<1>5. Pairs(Real(host.links)) = {}
  BY <1>4 DEF Pairs
<1>6. Agree({}, evts, ctl.conn)
  BY <1>1, <1>3 DEF Agree, LinkFirst, EndFirst, UpOrEnds, LinkedOrEnds, UsedAgain, OneEach
<1>7. /\ Known({}, Items(evts), Items(cmds), ctl.conn)
      /\ Heard({}, Items(evts), Items(cmds)) /\ Pending({}, host.asks, host.devs)
  BY <1>3 DEF Known, Heard, Pending
<1> QED BY <1>2, <1>4, <1>5, <1>6, <1>7 DEF IInv

\* The members of the queues, by their place.
LEMMA QueueMembers ==
  ASSUME IInv
  PROVE  /\ \A e \in Items(evts) : \E i \in DOMAIN evts : evts[i] = e
         /\ \A c \in Items(cmds) : \E i \in DOMAIN cmds : cmds[i] = c
         /\ DOMAIN evts = 1 .. Len(evts) /\ DOMAIN host.links = 1 .. Len(host.links)
<1>1. cmds \in Seq(Command) /\ evts \in Seq(Event) /\ host.links \in Seq(Link)
  BY DEF IInv, TypeOK
<1>2. DOMAIN cmds = 1 .. Len(cmds) /\ DOMAIN evts = 1 .. Len(evts)
        /\ DOMAIN host.links = 1 .. Len(host.links)
  BY <1>1, LenProperties
<1> QED BY <1>2 DEF Items

\* A link with a connection is the one its handle and its address find.
LEMMA RealIsFound ==
  ASSUME LinksOk(host.links), NEW k \in Real(host.links)
  PROVE  /\ ByAddr(host, k.addr) # 0 /\ host.links[ByAddr(host, k.addr)] = k
         /\ ByLcid(host, k.lcid) # 0 /\ host.links[ByLcid(host, k.lcid)] = k
<1>1. host.links \in Seq(Link)
        /\ \A i, j \in 1 .. Len(host.links) : i # j => /\ host.links[i].addr # host.links[j].addr
                                                       /\ host.links[i].lcid # host.links[j].lcid
  BY DEF LinksOk
<1>2. PICK i \in 1 .. Len(host.links) : host.links[i] = k
  BY DEF Real
<1>3. ~(0 \in 1 .. Len(host.links))
  BY <1>1, LenProperties
<1>4. ByAddr(host, k.addr) \in 1 .. Len(host.links) /\ host.links[ByAddr(host, k.addr)].addr = k.addr
  BY <1>1, <1>2, Lookups
<1>5. ByLcid(host, k.lcid) \in 1 .. Len(host.links) /\ host.links[ByLcid(host, k.lcid)].lcid = k.lcid
  BY <1>1, <1>2, Lookups
<1>6. ByAddr(host, k.addr) = i /\ ByLcid(host, k.lcid) = i
  BY <1>1, <1>2, <1>4, <1>5
<1> QED BY <1>2, <1>3, <1>4, <1>6

LEMMA LinksFollow ==
  ASSUME IInv
  PROVE  LinksMatchController
<1>1. /\ LinksOk(host.links) /\ Agree(Pairs(Real(host.links)), evts, ctl.conn)
      /\ faults = 0 => Known(Real(host.links), Items(evts), Items(cmds), ctl.conn)
  BY DEF IInv
<1>2. /\ \A e \in Items(evts) : \E i \in DOMAIN evts : evts[i] = e
      /\ \A c \in Items(cmds) : \E i \in DOMAIN cmds : cmds[i] = c
      /\ DOMAIN evts = 1 .. Len(evts) /\ DOMAIN host.links = 1 .. Len(host.links)
  BY QueueMembers
<1>3. ASSUME NEW l \in Lcid, ctl.conn[l] # Zero, faults = 0
      PROVE  \/ Coming(l) \/ Releasing(l)
             \/ ByLcid(host, l) # 0 /\ host.links[ByLcid(host, l)].addr = ctl.conn[l]
  <2>1. \/ <<ctl.conn[l], l>> \in Pairs(Real(host.links))
        \/ Announced(Items(evts), l)
        \/ \E c \in Items(cmds) : c.op = "RELEASE" /\ c.lcid = l
    BY <1>1, <1>3 DEF Known
  <2>2. CASE <<ctl.conn[l], l>> \in Pairs(Real(host.links))
    <3>1. PICK k \in Real(host.links) : <<ctl.conn[l], l>> = <<k.addr, k.lcid>>
      BY <2>2, PairsFacts
    <3>2. ctl.conn[l] = k.addr /\ l = k.lcid
      BY <3>1
    <3>3. ByLcid(host, k.lcid) # 0 /\ host.links[ByLcid(host, k.lcid)] = k
      BY <1>1, RealIsFound
    <3> QED BY <3>2, <3>3
  <2>3. CASE Announced(Items(evts), l)
    BY <2>3, <1>2 DEF Announced, Coming
  <2>4. CASE \E c \in Items(cmds) : c.op = "RELEASE" /\ c.lcid = l
    BY <2>4, <1>2 DEF Releasing
  <2> QED BY <2>1, <2>2, <2>3, <2>4
<1>4. ASSUME NEW i \in 1 .. Len(host.links)
      PROVE  /\ host.links[i].lcid # NoLcid => \/ ctl.conn[host.links[i].lcid] = host.links[i].addr
                                               \/ Going(host.links[i].lcid)
             /\ \A j \in 1 .. Len(host.links) : i # j => host.links[j].addr # host.links[i].addr
  <2> PICK k : k = host.links[i]
    OBVIOUS
  <2>1. ASSUME k.lcid # NoLcid
        PROVE  ctl.conn[k.lcid] = k.addr \/ Going(k.lcid)
    <3>1. k \in Real(host.links)
      BY <2>1 DEF Real
    <3>2. <<k.addr, k.lcid>> \in Pairs(Real(host.links))
      BY <3>1, PairsFacts
    <3>3. \/ ctl.conn[k.lcid] = k.addr
          \/ \E n \in 1 .. Len(evts) : Gone(evts, k.lcid, n)
      <4>1. LinkedOrEnds(Pairs(Real(host.links)), evts, ctl.conn)
        BY <1>1 DEF Agree
      <4>2. \A p \in Pairs(Real(host.links)) :
               ctl.conn[p[2]] = p[1] \/ \E n \in 1 .. Len(evts) : Gone(evts, p[2], n)
        BY <4>1 DEF LinkedOrEnds
      <4> QED BY <3>2, <4>2
    <3> QED BY <3>3, <1>2 DEF Gone, Going
  <2> QED BY <2>1, <1>1 DEF LinksOk
<1> QED BY <1>2, <1>3, <1>4 DEF LinksMatchController

LEMMA AsksFollow ==
  ASSUME IInv
  PROVE  AskIsPending
<1> SUFFICES ASSUME NEW m \in Module, NEW a \in Addr, <<m, a>> \in host.asks, faults = 0,
                    m \notin host.devs[a].direct
             PROVE  ByAddr(host, a) # 0 /\ Asked(host.links[ByAddr(host, a)])
  BY DEF AskIsPending
<1>1. LinksOk(host.links) /\ Heard(Real(host.links), Items(evts), Items(cmds))
        /\ Pending(Real(host.links), host.asks, host.devs)
  BY DEF IInv
<1>2. /\ \A e \in Items(evts) : \E i \in DOMAIN evts : evts[i] = e
      /\ \A c \in Items(cmds) : \E i \in DOMAIN cmds : cmds[i] = c
  BY QueueMembers
<1>3. PICK k \in Real(host.links) : k.addr = a /\ (~k.told \/ k.status = "DISCONNECTING")
  BY <1>1 DEF Pending
<1>4. ByAddr(host, a) # 0 /\ host.links[ByAddr(host, a)] = k
  BY <1>1, <1>3, RealIsFound
<1>5. Read(Items(evts), Items(cmds), k.lcid) \/ Leaves(Items(evts), Items(cmds), k.lcid)
  BY <1>1, <1>3 DEF Heard
<1>6. Asked(k)
  <2>1. CASE Read(Items(evts), Items(cmds), k.lcid)
    BY <2>1, <1>2 DEF Read, Asked
  <2>2. CASE Leaves(Items(evts), Items(cmds), k.lcid)
    BY <2>2, <1>2 DEF Leaves, Asked, Going
  <2> QED BY <1>5, <2>1, <2>2
<1> QED BY <1>4, <1>6

-----------------------------------------------------------------------------
(* The theorems.                                                           *)

\* The invariant holds however requests, timers, events of the controller and failing calls
\* interleave (the handlers of cm_concurrent_conn.c, cm_event_core.c and sle_access_dli.c).
THEOREM Inductive == Spec => []IInv
<1>1. Init => IInv
  BY InitHolds
<1>2. IInv /\ [Next]_vars => IInv'
  BY StepKeeps
<1> QED BY <1>1, <1>2, PTL DEF Spec

\* The links, the devices waited for, the commands and the events keep the shape the code
\* gives them, in whatever order requests, timers and events run and whichever calls fail: no
\* handler of cm_concurrent_conn.c, cm_event_core.c and sle_access_dli.c changes a link that
\* its lookup did not find.
THEOREM TypeCorrect == Spec => []TypeOK
<1>1. IInv => TypeOK
  BY DEF IInv
<1> QED BY <1>1, Inductive, PTL

\* No connection of the controller is forgotten unless a call fails, no link outlives its
\* connection once the events under way are handled, and no device has two links
\* (SleAccessConnectCbkProc, CM_SleDisconnectProc).
THEOREM LinksAlwaysMatch == Spec => []LinksMatchController
<1>1. IInv => LinksMatchController
  BY LinksFollow
<1> QED BY <1>1, Inductive, PTL

\* No direct request is lost where no call fails: its timer runs, or its device has a link
\* whose reads or whose end the module will still hear of (CM_DirectConnTimeoutCbkInner,
\* CM_DoingConnDirectRemove, CM_SleSetDataLenProc, CM_SleDisconnectProc).
THEOREM AsksStayPending == Spec => []AskIsPending
<1>1. IInv => AskIsPending
  BY AsksFollow
<1> QED BY <1>1, Inductive, PTL

=============================================================================
