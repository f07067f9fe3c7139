------------------------- MODULE QosmChannelProofs -------------------------
(***************************************************************************)
(* The transport channels of the two ends, for every set of ports and      *)
(* tcids, every number of identifiers and every bound.                     *)
(*                                                                         *)
(* The tcid pool and the channel list agree because every operator of CM   *)
(* changes both or neither.  That QOSM lists no channel twice and none     *)
(* that CM has freed, but for those whose release was refused, needs more: *)
(* an entry is made for a channel that is ACTIVATING or new, so no channel *)
(* that is ACTIVATING may have one yet, and CM calls QOSM whenever it      *)
(* frees any other.  What a refused release leaves stands behind every     *)
(* later entry with its tcid, so that QOSM_TransChannelDel, which takes    *)
(* the first, takes the right one.  QInv says so, and the lemmas follow an *)
(* event of CM into the callbacks it makes.                                *)
(***************************************************************************)
EXTENDS QosmChannel, NaturalsInduction, WellFoundedInduction, SequenceTheorems,
        FiniteSetTheorems, TLAPS

\* The tcids of a list of channels, and of those that are not ACTIVATING.
LocalsOf(ns) == {ns[i].local : i \in 1 .. Len(ns)}
SettledOf(ns) == {ns[i].local : i \in {j \in 1 .. Len(ns) : ns[j].state # "ACTIVATING"}}

Distinct(ns) == \A i, j \in 1 .. Len(ns) : ns[i].local = ns[j].local => i = j

\* A typed CM record whose pool and list agree.
CmGood(c) == c \in CmRecord /\ Distinct(c.nodes) /\ c.used = LocalsOf(c.nodes)

\* A list of QOSM whose entries are in T, or left by a refused release; of several
\* with one tcid all but the first are.
ListGood(list, T) ==
    /\ \A i \in 1 .. Len(list) : list[i].refused \/ list[i].tcid \in T
    /\ \A i, j \in 1 .. Len(list) :
          i < j /\ list[i].tcid = list[j].tcid => list[j].refused

QosGood(q, T) == q \in QosmRecord /\ ListGood(q.list, T)

\* One end: CM and QOSM.
EndGood(c, q) == CmGood(c) /\ QosGood(q, SettledOf(c.nodes))

QInv == TypeOK /\ \A n \in End : EndGood(cm[n], qos[n])

-----------------------------------------------------------------------------
(* Sequences.                                                              *)

\* A set of natural numbers that is not empty has a least element.
LEMMA LeastNumber ==
  ASSUME NEW T \in SUBSET Nat, T # {}
  PROVE  \E m \in T : \A k \in T : m <= k
<1> DEFINE R == {ss \in Nat \X Nat : ss[1] < ss[2]}
<1>1. \E x \in T : \A y \in T : ~(<<y, x>> \in OpToRel(<, Nat))
  BY NatLessThanWellFounded, WFMin
<1>2. \E x \in T : \A y \in T : ~(<<y, x>> \in R)
  BY <1>1, Zenon DEF OpToRel
<1>3. ASSUME NEW x \in Nat, NEW y \in Nat, y < x
      PROVE  <<y, x>> \in R
  BY <1>3
<1>4. PICK x \in T : \A y \in T : ~(<<y, x>> \in R)
  BY <1>2
<1>5. \A y \in T : ~(y < x)
  BY <1>3, <1>4
<1> QED BY <1>5

\* What RemoveAt leaves.
LEMMA RemoveAtIs ==
  ASSUME NEW S, NEW ls \in Seq(S), NEW i \in 1 .. Len(ls), NEW r, r = RemoveAt(ls, i)
  PROVE  /\ r \in Seq(S) /\ Len(r) = Len(ls) - 1
         /\ \A j \in 1 .. Len(r) : r[j] = IF j < i THEN ls[j] ELSE ls[j + 1]
<1> PICK n \in Nat : n = Len(ls)
  BY LenProperties
<1> DEFINE f == SubSeq(ls, 1, i - 1)
           g == SubSeq(ls, i + 1, n)
<1>1. \A j \in 1 .. n : ls[j] \in S
  BY ElementOfSeq
<1>2. f \in Seq(S) /\ Len(f) = i - 1 /\ \A j \in 1 .. i - 1 : f[j] = ls[j]
  <2>1. \A j \in 1 .. i - 1 : ls[j] \in S
    BY <1>1
  <2>2. f \in Seq(S) /\ Len(f) = (IF 1 <= i - 1 THEN i - 1 - 1 + 1 ELSE 0)
          /\ \A j \in 1 .. i - 1 - 1 + 1 : f[j] = ls[1 + j - 1]
    BY <2>1, SubSeqProperties
  <2>3. \A j \in 1 .. i - 1 : j \in 1 .. i - 1 - 1 + 1 /\ 1 + j - 1 = j
    OBVIOUS
  <2> QED BY <2>2, <2>3
<1>3. g \in Seq(S) /\ Len(g) = n - i /\ \A j \in 1 .. n - i : g[j] = ls[i + j]
  <2>1. \A j \in i + 1 .. n : ls[j] \in S
    BY <1>1
  <2>2. g \in Seq(S) /\ Len(g) = (IF i + 1 <= n THEN n - (i + 1) + 1 ELSE 0)
          /\ \A j \in 1 .. n - (i + 1) + 1 : g[j] = ls[(i + 1) + j - 1]
    BY <2>1, SubSeqProperties
  <2>3. \A j \in 1 .. n - i : j \in 1 .. n - (i + 1) + 1 /\ (i + 1) + j - 1 = i + j
    OBVIOUS
  <2> QED BY <2>2, <2>3
<1>4. r = f \o g
  BY DEF RemoveAt
<1> HIDE DEF f, g
<1>5. r \in Seq(S) /\ Len(r) = Len(f) + Len(g)
        /\ \A j \in 1 .. Len(f) + Len(g) : r[j] = IF j <= Len(f) THEN f[j] ELSE g[j - Len(f)]
  <2>1. f \in Seq(S) /\ g \in Seq(S)
    BY <1>2, <1>3
  <2>2. f \o g \in Seq(S) /\ Len(f \o g) = Len(f) + Len(g)
        /\ \A j \in 1 .. Len(f) + Len(g) : (f \o g)[j] = IF j <= Len(f) THEN f[j] ELSE g[j - Len(f)]
    BY <2>1, ConcatProperties, Zenon
  <2> QED BY <2>2, <1>4, Zenon
<1>6. Len(f) + Len(g) = n - 1
  BY <1>2, <1>3
<1>7. ASSUME NEW j \in 1 .. n - 1
      PROVE  r[j] = IF j < i THEN ls[j] ELSE ls[j + 1]
  <2>1. CASE j < i
    BY <2>1, <1>5, <1>6, <1>2
  <2>2. CASE ~(j < i)
    <3>1. j - (i - 1) \in 1 .. n - i /\ i + (j - (i - 1)) = j + 1 /\ ~(j <= i - 1)
      BY <2>2
    <3>2. r[j] = g[j - (i - 1)]
      BY <3>1, <1>5, <1>6, <1>2
    <3> QED BY <3>1, <3>2, <1>3, <2>2
  <2> QED BY <2>1, <2>2
<1> QED BY <1>5, <1>6, <1>7

\* Every element but the removed one stays, at one place.
LEMMA RemoveAtPlaces ==
  ASSUME NEW S, NEW ls \in Seq(S), NEW i \in 1 .. Len(ls), NEW r, r = RemoveAt(ls, i)
  PROVE  /\ \A j \in 1 .. Len(r) : \E k \in 1 .. Len(ls) :
              k # i /\ r[j] = ls[k] /\ k = IF j < i THEN j ELSE j + 1
         /\ \A k \in 1 .. Len(ls) : k # i => \E j \in 1 .. Len(r) : r[j] = ls[k]
<1> PICK n \in Nat : n = Len(ls)
  BY LenProperties
<1>1. /\ Len(r) = n - 1
      /\ \A j \in 1 .. n - 1 : r[j] = IF j < i THEN ls[j] ELSE ls[j + 1]
  <2>1. /\ Len(r) = Len(ls) - 1
        /\ \A j \in 1 .. Len(r) : r[j] = IF j < i THEN ls[j] ELSE ls[j + 1]
    BY RemoveAtIs, SMTT(30)
  <2> QED BY <2>1
<1>2. ASSUME NEW j \in 1 .. n - 1
      PROVE  \E k \in 1 .. n : k # i /\ r[j] = ls[k] /\ k = IF j < i THEN j ELSE j + 1
  <2>1. CASE j < i
    BY <2>1, <1>1
  <2>2. CASE ~(j < i)
    <3>1. j + 1 \in 1 .. n /\ j + 1 # i
      BY <2>2
    <3> QED BY <3>1, <2>2, <1>1
  <2> QED BY <2>1, <2>2
<1>3. ASSUME NEW k \in 1 .. n, k # i
      PROVE  \E j \in 1 .. n - 1 : r[j] = ls[k]
  <2>1. CASE k < i
    <3>1. k \in 1 .. n - 1
      BY <2>1
    <3> QED BY <3>1, <2>1, <1>1
  <2>2. CASE ~(k < i)
    <3>1. k - 1 \in 1 .. n - 1 /\ ~(k - 1 < i) /\ (k - 1) + 1 = k
      BY <2>2, <1>3
    <3> QED BY <3>1, <1>1
  <2> QED BY <2>1, <2>2
<1> QED BY <1>1, <1>2, <1>3

\* What Append adds.
LEMMA AppendIs ==
  ASSUME NEW S, NEW s \in Seq(S), NEW x \in S
  PROVE  /\ Append(s, x) \in Seq(S) /\ Len(Append(s, x)) = Len(s) + 1
         /\ \A i \in 1 .. Len(s) : Append(s, x)[i] = s[i]
         /\ Append(s, x)[Len(s) + 1] = x
         /\ Len(s) \in Nat
BY AppendProperties, LenProperties

\* What replacing one element does.
LEMMA ReplaceIs ==
  ASSUME NEW S, NEW s \in Seq(S), NEW i \in 1 .. Len(s), NEW x \in S
  PROVE  /\ [s EXCEPT ![i] = x] \in Seq(S) /\ Len([s EXCEPT ![i] = x]) = Len(s)
         /\ \A j \in 1 .. Len(s) : [s EXCEPT ![i] = x][j] = IF j = i THEN x ELSE s[j]
BY ExceptSeq

-----------------------------------------------------------------------------
(* The list of channels.                                                   *)

NodesGood(ns) == ns \in Seq(Node) /\ Distinct(ns)

\* A channel of the list is a node, and its tcid is one of the list's.
LEMMA NodeOfList ==
  ASSUME NEW ns, NodesGood(ns), NEW i \in 1 .. Len(ns)
  PROVE  /\ ns[i] \in Node /\ ns[i].local \in LocalsOf(ns) /\ ns[i].local \in Tcid
         /\ ns[i].state # "ACTIVATING" => ns[i].local \in SettledOf(ns)
         /\ ns[i].state = "ACTIVATING" => ns[i].local \notin SettledOf(ns)
<1>1. ns[i] \in Node
  BY ElementOfSeq DEF NodesGood
<1>2. ns[i].local \in LocalsOf(ns) /\ ns[i].local \in Tcid
  BY <1>1 DEF LocalsOf, Node
<1>3. ns[i].state # "ACTIVATING" => ns[i].local \in SettledOf(ns)
  BY DEF SettledOf
<1>4. ASSUME ns[i].local \in SettledOf(ns)
      PROVE  ns[i].state # "ACTIVATING"
  <2>1. PICK j \in 1 .. Len(ns) : ns[j].state # "ACTIVATING" /\ ns[j].local = ns[i].local
    BY <1>4 DEF SettledOf
  <2>2. j = i
    BY <2>1 DEF NodesGood, Distinct
  <2> QED BY <2>1, <2>2
<1> QED BY <1>1, <1>2, <1>3, <1>4

LEMMA SettledIsLocal ==
  ASSUME NEW ns
  PROVE  SettledOf(ns) \subseteq LocalsOf(ns)
BY DEF SettledOf, LocalsOf

\* A new channel has a tcid of its own.
LEMMA NodesAppend ==
  ASSUME NEW ns, NodesGood(ns), NEW x \in Node, x.local \notin LocalsOf(ns)
  PROVE  /\ NodesGood(Append(ns, x))
         /\ LocalsOf(Append(ns, x)) = LocalsOf(ns) \cup {x.local}
         /\ SettledOf(ns) \subseteq SettledOf(Append(ns, x))
         /\ x.state # "ACTIVATING" => x.local \in SettledOf(Append(ns, x))
<1> DEFINE r == Append(ns, x)
<1>0. PICK n \in Nat : n = Len(ns)
  BY LenProperties DEF NodesGood
<1>1. /\ r \in Seq(Node) /\ Len(r) = n + 1
      /\ \A i \in 1 .. n : r[i] = ns[i]
      /\ r[n + 1] = x
  BY <1>0, AppendIs DEF NodesGood
<1> HIDE DEF r
<1>2. \A i \in 1 .. n : ns[i].local # x.local
  BY <1>0 DEF LocalsOf
<1>3. Distinct(r)
  <2> SUFFICES ASSUME NEW i \in 1 .. n + 1, NEW j \in 1 .. n + 1, r[i].local = r[j].local
               PROVE  i = j
    BY <1>1 DEF Distinct
  <2>1. CASE i \in 1 .. n /\ j \in 1 .. n
    <3>1. ns[i].local = ns[j].local
      BY <1>1, <2>1
    <3> QED BY <1>0, <2>1, <3>1 DEF NodesGood, Distinct
  <2>2. CASE i = n + 1 /\ j \in 1 .. n
    BY <1>1, <1>2, <2>2
  <2>3. CASE i \in 1 .. n /\ j = n + 1
    BY <1>1, <1>2, <2>3
  <2>4. CASE i = n + 1 /\ j = n + 1
    BY <2>4
  <2> QED BY <2>1, <2>2, <2>3, <2>4
<1>4. LocalsOf(r) = LocalsOf(ns) \cup {x.local}
  <2>1. ASSUME NEW t \in LocalsOf(r)
        PROVE  t \in LocalsOf(ns) \cup {x.local}
    <3>1. PICK i \in 1 .. n + 1 : r[i].local = t
      BY <1>1, <2>1 DEF LocalsOf
    <3>2. CASE i = n + 1
      BY <1>1, <3>1, <3>2
    <3>3. CASE i # n + 1
      <4>1. i \in 1 .. n
        BY <3>3
      <4> QED BY <1>0, <1>1, <3>1, <4>1 DEF LocalsOf
    <3> QED BY <3>2, <3>3
  <2>2. ASSUME NEW t \in LocalsOf(ns)
        PROVE  t \in LocalsOf(r)
    <3>1. PICK i \in 1 .. n : ns[i].local = t
      BY <1>0, <2>2 DEF LocalsOf
    <3>2. i \in 1 .. n + 1 /\ r[i].local = t
      BY <1>1, <3>1
    <3> QED BY <1>1, <3>2 DEF LocalsOf
  <2>3. x.local \in LocalsOf(r)
    <3>1. n + 1 \in 1 .. n + 1
      OBVIOUS
    <3> QED BY <1>1, <3>1 DEF LocalsOf
  <2> QED BY <2>1, <2>2, <2>3
<1>5. ASSUME NEW t \in SettledOf(ns)
      PROVE  t \in SettledOf(r)
  <2>1. PICK i \in 1 .. n : ns[i].local = t /\ ns[i].state # "ACTIVATING"
    BY <1>0, <1>5 DEF SettledOf
  <2>2. i \in 1 .. n + 1 /\ r[i].local = t /\ r[i].state # "ACTIVATING"
    BY <1>1, <2>1
  <2> QED BY <1>1, <2>2 DEF SettledOf
<1>6. ASSUME x.state # "ACTIVATING"
      PROVE  x.local \in SettledOf(r)
  <2>1. n + 1 \in 1 .. n + 1 /\ r[n + 1].state # "ACTIVATING" /\ r[n + 1].local = x.local
    BY <1>1, <1>6
  <2> QED BY <1>1, <2>1 DEF SettledOf
<1> QED BY <1>1, <1>3, <1>4, <1>5, <1>6 DEF NodesGood, r

\* A channel that is freed takes its tcid along, and no other.
LEMMA NodesRemove ==
  ASSUME NEW ns, NodesGood(ns), NEW i \in 1 .. Len(ns)
  PROVE  /\ NodesGood(RemoveAt(ns, i))
         /\ LocalsOf(RemoveAt(ns, i)) = LocalsOf(ns) \ {ns[i].local}
         /\ SettledOf(ns) \ {ns[i].local} \subseteq SettledOf(RemoveAt(ns, i))
<1>r. PICK r : r = RemoveAt(ns, i)
  OBVIOUS
<1>0. ns \in Seq(Node)
  BY DEF NodesGood
<1>1. r \in Seq(Node)
  BY <1>r, <1>0, RemoveAtIs
<1>2. /\ \A j \in 1 .. Len(r) : \E k \in 1 .. Len(ns) :
           k # i /\ r[j] = ns[k] /\ k = IF j < i THEN j ELSE j + 1
      /\ \A k \in 1 .. Len(ns) : k # i => \E j \in 1 .. Len(r) : r[j] = ns[k]
  <2>1. ASSUME NEW j \in 1 .. Len(r)
        PROVE  \E k \in 1 .. Len(ns) : k # i /\ r[j] = ns[k] /\ k = IF j < i THEN j ELSE j + 1
    BY <1>r, <1>0, RemoveAtPlaces, SMTT(30)
  <2>2. ASSUME NEW k \in 1 .. Len(ns), k # i
        PROVE  \E j \in 1 .. Len(r) : r[j] = ns[k]
    BY <1>r, <1>0, <2>2, RemoveAtPlaces, SMTT(30)
  <2> QED BY <2>1, <2>2
<1>3. Distinct(r)
  <2> SUFFICES ASSUME NEW j \in 1 .. Len(r), NEW k \in 1 .. Len(r), r[j].local = r[k].local
               PROVE  j = k
    BY DEF Distinct
  <2>1. PICK u \in 1 .. Len(ns) : r[j] = ns[u] /\ u = IF j < i THEN j ELSE j + 1
    BY <1>2
  <2>2. PICK v \in 1 .. Len(ns) : r[k] = ns[v] /\ v = IF k < i THEN k ELSE k + 1
    BY <1>2
  <2>3. u = v
    BY <2>1, <2>2 DEF NodesGood, Distinct
  <2>4. j \in Nat /\ k \in Nat /\ i \in Nat
    OBVIOUS
  <2> QED BY <2>1, <2>2, <2>3, <2>4
<1>4. LocalsOf(r) = LocalsOf(ns) \ {ns[i].local}
  <2>1. ASSUME NEW t \in LocalsOf(r)
        PROVE  t \in LocalsOf(ns) \ {ns[i].local}
    <3>1. PICK j \in 1 .. Len(r) : r[j].local = t
      BY <2>1 DEF LocalsOf
    <3>2. PICK k \in 1 .. Len(ns) : k # i /\ r[j] = ns[k]
      BY <1>2
    <3>3. ns[k].local # ns[i].local
      BY <3>2 DEF NodesGood, Distinct
    <3> QED BY <3>1, <3>2, <3>3 DEF LocalsOf
  <2>2. ASSUME NEW t \in LocalsOf(ns), t # ns[i].local
        PROVE  t \in LocalsOf(r)
    <3>1. PICK k \in 1 .. Len(ns) : ns[k].local = t
      BY <2>2 DEF LocalsOf
    <3>2. k # i
      BY <2>2, <3>1
    <3>3. PICK j \in 1 .. Len(r) : r[j] = ns[k]
      BY <1>2, <3>2
    <3> QED BY <3>1, <3>3 DEF LocalsOf
  <2> QED BY <2>1, <2>2
<1>5. ASSUME NEW t \in SettledOf(ns), t # ns[i].local
      PROVE  t \in SettledOf(r)
  <2>1. PICK k \in 1 .. Len(ns) : ns[k].local = t /\ ns[k].state # "ACTIVATING"
    BY <1>5 DEF SettledOf
  <2>2. k # i
    BY <1>5, <2>1
  <2>3. PICK j \in 1 .. Len(r) : r[j] = ns[k]
    BY <1>2, <2>2
  <2> QED BY <2>1, <2>3 DEF SettledOf
<1> QED BY <1>r, <1>1, <1>3, <1>4, <1>5 DEF NodesGood

\* A channel that changes its state or its peer keeps its tcid.
LEMMA NodesReplace ==
  ASSUME NEW ns, NodesGood(ns), NEW i \in 1 .. Len(ns), NEW x \in Node,
         x.local = ns[i].local, x.state # "ACTIVATING"
  PROVE  /\ NodesGood([ns EXCEPT ![i] = x])
         /\ LocalsOf([ns EXCEPT ![i] = x]) = LocalsOf(ns)
         /\ SettledOf(ns) \subseteq SettledOf([ns EXCEPT ![i] = x])
         /\ x.local \in SettledOf([ns EXCEPT ![i] = x])
<1> PICK r : r = [ns EXCEPT ![i] = x]
  OBVIOUS
<1>1. /\ r \in Seq(Node) /\ Len(r) = Len(ns)
      /\ \A j \in 1 .. Len(ns) : r[j] = IF j = i THEN x ELSE ns[j]
  BY ReplaceIs DEF NodesGood
<1>2. \A j \in 1 .. Len(ns) : r[j].local = ns[j].local
  BY <1>1
<1>3. Distinct(r)
  BY <1>1, <1>2 DEF NodesGood, Distinct
<1>4. LocalsOf(r) = LocalsOf(ns)
  BY <1>1, <1>2 DEF LocalsOf
<1>5. ASSUME NEW t \in SettledOf(ns)
      PROVE  t \in SettledOf(r)
  <2>1. PICK k \in 1 .. Len(ns) : ns[k].local = t /\ ns[k].state # "ACTIVATING"
    BY <1>5 DEF SettledOf
  <2>2. r[k].local = t /\ r[k].state # "ACTIVATING"
    BY <1>1, <1>2, <2>1
  <2> QED BY <1>1, <2>2 DEF SettledOf
<1>6. x.local \in SettledOf(r)
  <2>1. r[i] = x
    BY <1>1
  <2> QED BY <1>1, <2>1 DEF SettledOf
<1> QED BY <1>1, <1>3, <1>4, <1>5, <1>6 DEF NodesGood


-----------------------------------------------------------------------------
(* The operators of CM.                                                    *)

\* The search for a channel ends at one that fits, or there is none.
LEMMA FirstOne ==
  ASSUME NEW n \in Nat, NEW T \in SUBSET (1 .. n), T # {}
  PROVE  Min(T) \in T /\ \A k \in T : Min(T) <= k
<1>1. T \in SUBSET Nat
  OBVIOUS
<1>2. \E m \in T : \A k \in T : m <= k
  BY <1>1, LeastNumber
<1> QED BY <1>2 DEF Min

LEMMA FindLocalIs ==
  ASSUME NEW c \in CmRecord, NEW t
  PROVE  \/ FindLocal(c, t) = 0 /\ \A j \in 1 .. Len(c.nodes) : c.nodes[j].local # t
         \/ FindLocal(c, t) \in 1 .. Len(c.nodes) /\ c.nodes[FindLocal(c, t)].local = t
<1> DEFINE n == Len(c.nodes)
           T == {i \in 1 .. n : c.nodes[i].local = t}
<1>0. n \in Nat
  BY LenProperties DEF CmRecord
<1>1. FindLocal(c, t) = IF T # {} THEN Min(T) ELSE 0
  BY DEF FindLocal, SelectInSeq
<1>2. T # {} => Min(T) \in T
  BY <1>0, FirstOne
<1> QED BY <1>1, <1>2

LEMMA FindRemoteIs ==
  ASSUME NEW c \in CmRecord, NEW t
  PROVE  FindRemote(c, t) = 0 \/ FindRemote(c, t) \in 1 .. Len(c.nodes)
<1> DEFINE n == Len(c.nodes)
           T == {i \in 1 .. n : c.nodes[i].remote = t}
<1>0. n \in Nat
  BY LenProperties DEF CmRecord
<1>1. FindRemote(c, t) = IF T # {} THEN Min(T) ELSE 0
  BY DEF FindRemote, SelectInSeq
<1>2. T # {} => Min(T) \in T
  BY <1>0, FirstOne
<1> QED BY <1>1, <1>2

LEMMA CachedIs ==
  ASSUME NEW c \in CmRecord, NEW id, NEW code
  PROVE  Cached(c, id, code) = 0 \/ Cached(c, id, code) \in 1 .. Len(c.pend)
<1> DEFINE n == Len(c.pend)
           T == {i \in 1 .. n : c.pend[i].id = id /\ c.pend[i].code = code}
<1>0. n \in Nat
  BY LenProperties DEF CmRecord
<1>1. Cached(c, id, code) = IF T # {} THEN Min(T) ELSE 0
  BY DEF Cached, SelectInSeq
<1>2. T # {} => Min(T) \in T
  BY <1>0, FirstOne
<1> QED BY <1>1, <1>2

\* CM_DynAllocateUnicastTcid returns a tcid that is not used.
LEMMA AllocatedIsFree ==
  ASSUME NEW c \in CmRecord
  PROVE  DynTcidAllocate(c) = NoTcid \/ DynTcidAllocate(c) \in Tcid \ c.used
<1> DEFINE free == Tcid \ c.used
<1>1. free \in SUBSET Nat
  BY TcidAssumption
<1>2. free # {} => \E m \in free : \A k \in free : m <= k
  <2> HIDE DEF free
  <2> QED BY <1>1, LeastNumber
<1> QED BY <1>2 DEF DynTcidAllocate

\* CM_GetIdentifier returns an identifier or -1.
LEMMA FreeIdIs ==
  ASSUME NEW c \in CmRecord
  PROVE  FreeId(c) = -1 \/ FreeId(c) \in Ids
<1> DEFINE taken == {c.pend[i].id : i \in DOMAIN c.pend}
           from(k) == (c.nextId + k) % IdMod
           free == {k \in Ids : from(k) \notin taken}
           least == CHOOSE k \in free : \A j \in free : k <= j
<1>0. IdMod \in Nat \ {0} /\ c.nextId \in Nat
  BY IdAssumption DEF CmRecord, Ids
<1>1. FreeId(c) = IF free = {} THEN -1 ELSE from(least)
  BY DEF FreeId
<1>2. free \in SUBSET Nat
  BY <1>0 DEF Ids
<1>3. free # {} => least \in Nat
  <2> HIDE DEF free
  <2>1. free # {} => \E m \in free : \A k \in free : m <= k
    BY <1>2, LeastNumber
  <2> QED BY <1>2, <2>1
<1> HIDE DEF free, least
<1>4. ASSUME NEW k \in Nat
      PROVE  from(k) \in Ids
  BY <1>0 DEF Ids
<1> QED BY <1>1, <1>3, <1>4

\* r is c with other requests, messages or identifiers.
SameNodes(c, r) == r \in CmRecord /\ r.nodes = c.nodes /\ r.used = c.used

LEMMA SameNodesGood ==
  ASSUME NEW c, CmGood(c), NEW r, SameNodes(c, r)
  PROVE  CmGood(r)
BY DEF CmGood, SameNodes

\* CM_SignalingTransChan...ReqSend changes no channel.
LEMMA SendReqSame ==
  ASSUME NEW c \in CmRecord, NEW code \in Codes, NEW src \in Tcid,
         NEW dst \in Tcid \cup {NoTcid}, NEW port \in Port, NEW ok \in BOOLEAN
  PROVE  /\ SendReq(c, code, src, dst, port, ok).ok \in BOOLEAN
         /\ SameNodes(c, SendReq(c, code, src, dst, port, ok).c)
<1> DEFINE id == FreeId(c)
           next == [c EXCEPT !.nextId = (id + 1) % IdMod]
           p == [id |-> id, code |-> code, src |-> src, dst |-> dst]
           m == [code |-> code, id |-> id, src |-> src, dst |-> dst, port |-> port, ok |-> TRUE]
           sent == [next EXCEPT !.pend = Append(@, p), !.out = Append(@, m)]
           r == SendReq(c, code, src, dst, port, ok)
<1>1. \/ id = -1 /\ r = [ok |-> FALSE, c |-> c]
      \/ id # -1 /\ r = [ok |-> FALSE, c |-> next]
      \/ id # -1 /\ r = [ok |-> TRUE, c |-> sent]
  BY DEF SendReq
<1>2. id = -1 \/ id \in Ids
  BY FreeIdIs
<1>3. ASSUME id \in Ids
      PROVE  (id + 1) % IdMod \in Ids
  <2>1. IdMod \in Nat \ {0} /\ id \in Nat
    BY <1>3, IdAssumption DEF Ids
  <2> HIDE DEF id
  <2> QED BY <2>1 DEF Ids
<1> HIDE DEF id
<1>4. ASSUME id \in Ids
      PROVE  SameNodes(c, next)
  <2>1. PICK x \in Ids : x = (id + 1) % IdMod
    BY <1>3, <1>4
  <2> QED BY <2>1 DEF SameNodes, CmRecord
<1>5. ASSUME id \in Ids
      PROVE  SameNodes(c, sent)
  <2>1. PICK x \in Ids : x = (id + 1) % IdMod
    BY <1>3, <1>5
  <2>2. p \in Pending
    BY <1>5 DEF Pending
  <2>3. m \in Message
    BY <1>5 DEF Message
  <2> HIDE DEF p, m
  <2>4. PICK pend \in Seq(Pending) : pend = Append(c.pend, p)
    BY <2>2, AppendIs DEF CmRecord
  <2>5. PICK out \in Seq(Message) : out = Append(c.out, m)
    BY <2>3, AppendIs DEF CmRecord
  <2>6. sent = [c EXCEPT !.nextId = x, !.pend = pend, !.out = out]
    BY <2>1, <2>4, <2>5 DEF CmRecord
  <2> HIDE DEF sent
  <2> QED BY <2>6 DEF SameNodes, CmRecord
<1>6. SameNodes(c, c)
  BY DEF SameNodes
<1> HIDE DEF next, sent, r
<1>7. r.ok \in BOOLEAN /\ SameNodes(c, r.c)
  <2>1. CASE id = -1 /\ r = [ok |-> FALSE, c |-> c]
    BY <1>6, <2>1
  <2>2. CASE id # -1 /\ r = [ok |-> FALSE, c |-> next]
    BY <1>2, <1>4, <2>2
  <2>3. CASE id # -1 /\ r = [ok |-> TRUE, c |-> sent]
    BY <1>2, <1>5, <2>3
  <2> QED BY <1>1, <2>1, <2>2, <2>3
<1> QED BY <1>7 DEF r

\* CM_SignalingTransChan...RspSend changes no channel either.
LEMMA SendRspSame ==
  ASSUME NEW c \in CmRecord, NEW code \in {"TC_CONNECT_RSP", "TC_DISCONNECT_RSP"},
         NEW m \in Message, NEW dst \in Tcid \cup {NoTcid}, NEW ok \in BOOLEAN
  PROVE  SameNodes(c, SendRsp(c, code, m, dst, ok))
<1> DEFINE a == [code |-> code, id |-> m.id, src |-> m.src, dst |-> dst, port |-> m.port,
                 ok |-> ok]
<1>1. a \in Message
  BY DEF Message
<1>2. SendRsp(c, code, m, dst, ok) = [c EXCEPT !.out = Append(c.out, a)]
  BY DEF SendRsp
<1> HIDE DEF a
<1>3. PICK out \in Seq(Message) : out = Append(c.out, a)
  BY <1>1, AppendIs DEF CmRecord
<1> QED BY <1>2, <1>3 DEF SameNodes, CmRecord

\* CM_ActivateDynamicTransChannel with a tcid that is not used.
LEMMA AddNodeGood ==
  ASSUME NEW c, CmGood(c), NEW x \in Node, x.local \notin c.used
  PROVE  /\ CmGood(AddNode(c, x))
         /\ AddNode(c, x).nodes = Append(c.nodes, x)
         /\ SettledOf(c.nodes) \subseteq SettledOf(AddNode(c, x).nodes)
         /\ x.state # "ACTIVATING" => x.local \in SettledOf(AddNode(c, x).nodes)
<1>1. NodesGood(c.nodes) /\ c \in CmRecord /\ c.used = LocalsOf(c.nodes) /\ x.local \in Tcid
  BY DEF CmGood, NodesGood, CmRecord, Node
<1>2. PICK ns : ns = Append(c.nodes, x)
  OBVIOUS
<1>3. /\ NodesGood(ns) /\ LocalsOf(ns) = LocalsOf(c.nodes) \cup {x.local}
      /\ SettledOf(c.nodes) \subseteq SettledOf(ns)
      /\ x.state # "ACTIVATING" => x.local \in SettledOf(ns)
  BY <1>1, <1>2, NodesAppend
<1>4. PICK u : u = c.used \cup {x.local}
  OBVIOUS
<1>5. u \in SUBSET Tcid
  BY <1>1, <1>4 DEF CmRecord
<1>6. AddNode(c, x) = [c EXCEPT !.nodes = ns, !.used = u]
  BY <1>2, <1>4 DEF AddNode
<1>7. /\ AddNode(c, x) \in CmRecord /\ AddNode(c, x).nodes = ns /\ AddNode(c, x).used = u
  BY <1>1, <1>3, <1>5, <1>6 DEF CmRecord, NodesGood
<1> QED BY <1>1, <1>2, <1>3, <1>4, <1>7 DEF CmGood, NodesGood

\* CM_ReleaseDynamicTransChannelBy... with CM_DynTcidRelease.
LEMMA FreeNodeGood ==
  ASSUME NEW c, CmGood(c), NEW i \in 1 .. Len(c.nodes)
  PROVE  /\ CmGood(FreeNode(c, i))
         /\ SettledOf(c.nodes) \ {c.nodes[i].local} \subseteq SettledOf(FreeNode(c, i).nodes)
         /\ c.nodes[i].state = "ACTIVATING" =>
              SettledOf(c.nodes) \subseteq SettledOf(FreeNode(c, i).nodes)
<1>1. NodesGood(c.nodes) /\ c \in CmRecord /\ c.used = LocalsOf(c.nodes)
  BY DEF CmGood, NodesGood, CmRecord
<1>2. PICK ns : ns = RemoveAt(c.nodes, i)
  OBVIOUS
<1>3. /\ NodesGood(ns) /\ LocalsOf(ns) = LocalsOf(c.nodes) \ {c.nodes[i].local}
      /\ SettledOf(c.nodes) \ {c.nodes[i].local} \subseteq SettledOf(ns)
  BY <1>1, <1>2, NodesRemove
<1>4. PICK u : u = c.used \ {c.nodes[i].local}
  OBVIOUS
<1>5. u \in SUBSET Tcid
  BY <1>1, <1>4 DEF CmRecord
<1>6. FreeNode(c, i) = [c EXCEPT !.nodes = ns, !.used = u]
  BY <1>2, <1>4 DEF FreeNode
<1>7. /\ FreeNode(c, i) \in CmRecord /\ FreeNode(c, i).nodes = ns /\ FreeNode(c, i).used = u
  BY <1>1, <1>3, <1>5, <1>6 DEF CmRecord, NodesGood
<1>8. c.nodes[i].state = "ACTIVATING" => c.nodes[i].local \notin SettledOf(c.nodes)
  BY <1>1, NodeOfList
<1> QED BY <1>1, <1>3, <1>4, <1>7, <1>8 DEF CmGood, NodesGood

\* A channel that is not ACTIVATING any more.
LEMMA SetNodeGood ==
  ASSUME NEW c, CmGood(c), NEW i \in 1 .. Len(c.nodes), NEW x \in Node,
         x.local = c.nodes[i].local, x.state # "ACTIVATING"
  PROVE  /\ CmGood([c EXCEPT !.nodes[i] = x])
         /\ SettledOf(c.nodes) \subseteq SettledOf([c EXCEPT !.nodes[i] = x].nodes)
         /\ x.local \in SettledOf([c EXCEPT !.nodes[i] = x].nodes)
         /\ [c EXCEPT !.nodes[i] = x].nodes = [c.nodes EXCEPT ![i] = x]
<1>1. NodesGood(c.nodes) /\ c \in CmRecord /\ c.used = LocalsOf(c.nodes)
  BY DEF CmGood, NodesGood, CmRecord
<1>2. PICK ns : ns = [c.nodes EXCEPT ![i] = x]
  OBVIOUS
<1>3. /\ NodesGood(ns) /\ LocalsOf(ns) = LocalsOf(c.nodes)
      /\ SettledOf(c.nodes) \subseteq SettledOf(ns) /\ x.local \in SettledOf(ns)
  BY <1>1, <1>2, NodesReplace
<1>4. PICK r : r = [c EXCEPT !.nodes[i] = x]
  OBVIOUS
<1>5. r = [c EXCEPT !.nodes = ns]
  BY <1>1, <1>2, <1>4 DEF CmRecord
<1>6. r \in CmRecord /\ r.nodes = ns /\ r.used = c.used
  BY <1>1, <1>3, <1>5 DEF CmRecord, NodesGood
<1> QED BY <1>1, <1>2, <1>3, <1>4, <1>6 DEF CmGood, NodesGood


\* r has the channels of c that are not ACTIVATING.
Keeps(c, r) == CmGood(r) /\ SettledOf(c.nodes) \subseteq SettledOf(r.nodes)

LEMMA SameNodesKeeps ==
  ASSUME NEW c, CmGood(c), NEW r, SameNodes(c, r)
  PROVE  Keeps(c, r)
BY SameNodesGood DEF Keeps, SameNodes

LEMMA KeepsKeeps ==
  ASSUME NEW c, NEW d, NEW e, Keeps(c, d), Keeps(d, e)
  PROVE  Keeps(c, e)
BY DEF Keeps

\* CM_DynTransChanActiveEstablishingReqHandler, whatever its outcome.
LEMMA EstablishReqKeeps ==
  ASSUME NEW c, CmGood(c), NEW p \in Port, NEW ok \in BOOLEAN
  PROVE  EstablishReq(c, p, ok).ok \in BOOLEAN /\ Keeps(c, EstablishReq(c, p, ok).c)
<1>1. PICK t : t = DynTcidAllocate(c)
  OBVIOUS
<1>2. PICK x : x = [local |-> t, remote |-> NoTcid, state |-> "ACTIVATING",
                    port |-> p, frame4 |-> p \in Frame4]
  OBVIOUS
<1>3. PICK added : added = AddNode(c, x)
  OBVIOUS
<1>4. PICK sent : sent = SendReq(added, "TC_CONNECT_REQ", t, NoTcid, p, ok)
  OBVIOUS
<1>5. PICK r : r = EstablishReq(c, p, ok)
  OBVIOUS
<1>6. r = CASE t = NoTcid -> [ok |-> FALSE, c |-> c]
            [] t # NoTcid /\ sent.ok -> sent
            [] OTHER -> [ok |-> FALSE, c |-> FreeNode(sent.c, Len(sent.c.nodes))]
  BY <1>1, <1>2, <1>3, <1>4, <1>5 DEF EstablishReq
<1>7. CASE t = NoTcid
  <2>1. r.ok = FALSE /\ r.c = c
    BY <1>6, <1>7
  <2> QED BY <1>5, <2>1 DEF Keeps
<1>8. CASE t # NoTcid
  <2>1. t \in Tcid /\ t \notin c.used
    BY <1>1, <1>8, AllocatedIsFree DEF CmGood
  <2>2. x \in Node /\ x.local = t /\ x.state = "ACTIVATING"
    BY <1>2, <2>1 DEF Node, States
  <2>3. Keeps(c, added) /\ added.nodes = Append(c.nodes, x)
    BY <1>3, <2>1, <2>2, AddNodeGood DEF Keeps
  <2>4. added \in CmRecord /\ CmGood(added)
    BY <2>3 DEF Keeps, CmGood
  <2>5. sent.ok \in BOOLEAN /\ SameNodes(added, sent.c)
    BY <1>4, <2>1, <2>4, SendReqSame DEF Codes
  <2>6. Keeps(added, sent.c)
    BY <2>4, <2>5, SameNodesKeeps
  <2>7. CASE sent.ok
    <3>1. r = sent
      BY <1>6, <1>8, <2>7
    <3> QED BY <1>5, <2>3, <2>5, <2>6, <3>1, KeepsKeeps
  <2>8. CASE ~sent.ok
    <3>1. PICK i : i = Len(sent.c.nodes)
      OBVIOUS
    <3>2. r.ok = FALSE /\ r.c = FreeNode(sent.c, i)
      BY <1>6, <1>8, <2>8, <3>1
    <3>3. sent.c.nodes = Append(c.nodes, x)
      BY <2>3, <2>5 DEF SameNodes
    <3>4. c.nodes \in Seq(Node)
      BY DEF CmGood, CmRecord
    <3>5. i \in 1 .. Len(sent.c.nodes) /\ sent.c.nodes[i] = x
      BY <3>1, <3>3, <3>4, <2>2, AppendIs
    <3>6. Keeps(sent.c, FreeNode(sent.c, i))
      BY <2>2, <2>6, <3>5, FreeNodeGood DEF Keeps
    <3>7. Keeps(c, sent.c)
      BY <2>3, <2>6, KeepsKeeps
    <3> QED BY <1>5, <3>2, <3>6, <3>7, KeepsKeeps
  <2> QED BY <2>7, <2>8
<1> QED BY <1>7, <1>8

\* CM_DynTransChanActiveReleasingHandler, whatever its outcome.
LEMMA ReleaseReqKeeps ==
  ASSUME NEW c, CmGood(c), NEW t \in Tcid, NEW ok \in BOOLEAN
  PROVE  ReleaseReq(c, t, ok).ok \in BOOLEAN /\ Keeps(c, ReleaseReq(c, t, ok).c)
<1>0. c \in CmRecord /\ c.nodes \in Seq(Node) /\ NodesGood(c.nodes)
  BY DEF CmGood, CmRecord, NodesGood
<1>1. PICK i : i = FindLocal(c, t)
  OBVIOUS
<1>2. PICK node : node = c.nodes[i]
  OBVIOUS
<1>3. PICK c1 : c1 = [c EXCEPT !.nodes[i].state = "RELEASING"]
  OBVIOUS
<1>4. PICK sent : sent = SendReq(c1, "TC_DISCONNECT_REQ", t, node.remote, node.port, ok)
  OBVIOUS
<1>5. PICK r : r = ReleaseReq(c, t, ok)
  OBVIOUS
<1>6. r = IF i = 0 THEN [ok |-> FALSE, c |-> c]
          ELSE [ok |-> sent.ok,
                c |-> IF sent.ok THEN sent.c
                      ELSE [sent.c EXCEPT !.nodes[i].state = "ACTIVATED"]]
  BY <1>1, <1>2, <1>3, <1>4, <1>5 DEF ReleaseReq
<1>7. CASE i = 0
  <2>1. r.ok = FALSE /\ r.c = c
    BY <1>6, <1>7
  <2> QED BY <1>5, <2>1 DEF Keeps
<1>8. CASE i # 0
  <2>1. i \in 1 .. Len(c.nodes) /\ node.local = t
    BY <1>0, <1>1, <1>2, <1>8, FindLocalIs
  <2>2. node \in Node
    BY <1>0, <1>2, <2>1, NodeOfList
  <2>3. PICK x : x = [node EXCEPT !.state = "RELEASING"]
    OBVIOUS
  <2>4. x \in Node /\ x.local = t /\ x.state = "RELEASING"
    BY <2>1, <2>2, <2>3 DEF Node, States
  <2>5. c1 = [c EXCEPT !.nodes[i] = x]
    BY <1>2, <1>3, <2>3
  <2>6. Keeps(c, c1) /\ c1.nodes = [c.nodes EXCEPT ![i] = x]
    <3>1. i \in 1 .. Len(c.nodes) /\ x.local = c.nodes[i].local /\ x.state # "ACTIVATING"
      BY <1>2, <2>1, <2>4
    <3>2. /\ Keeps(c, [c EXCEPT !.nodes[i] = x])
          /\ [c EXCEPT !.nodes[i] = x].nodes = [c.nodes EXCEPT ![i] = x]
      BY <2>4, <3>1, SetNodeGood DEF Keeps
    <3> QED BY <2>5, <3>2
  <2>7. c1 \in CmRecord /\ CmGood(c1)
    BY <2>6 DEF Keeps, CmGood
  <2>8. node.remote \in Tcid \cup {NoTcid} /\ node.port \in Port
    BY <2>2 DEF Node
  <2>9. sent.ok \in BOOLEAN /\ SameNodes(c1, sent.c)
    BY <1>4, <2>7, <2>8, SendReqSame DEF Codes
  <2>10. Keeps(c, sent.c)
    BY <2>6, <2>7, <2>9, SameNodesKeeps, KeepsKeeps
  <2>11. CASE sent.ok
    <3>1. r.ok = sent.ok /\ r.c = sent.c
      BY <1>6, <1>8, <2>11
    <3> QED BY <1>5, <2>9, <2>10, <3>1
  <2>12. CASE ~sent.ok
    <3>1. sent.c.nodes = [c.nodes EXCEPT ![i] = x]
      BY <2>6, <2>9 DEF SameNodes
    <3>2. i \in 1 .. Len(sent.c.nodes) /\ sent.c.nodes[i] = x
      BY <1>0, <2>1, <2>4, <3>1, ReplaceIs
    <3>3. PICK y : y = [x EXCEPT !.state = "ACTIVATED"]
      OBVIOUS
    <3>4. y \in Node /\ y.local = x.local /\ y.state = "ACTIVATED"
      BY <2>4, <3>3 DEF Node, States
    <3>5. PICK d : d = sent.c
      OBVIOUS
    <3>6. r.ok = sent.ok /\ r.c = [d EXCEPT !.nodes[i].state = "ACTIVATED"]
      BY <1>6, <1>8, <2>12, <3>5
    <3>7. r.c = [d EXCEPT !.nodes[i] = y]
      BY <3>2, <3>3, <3>5, <3>6
    <3>8. CmGood(d) /\ Keeps(c, d)
      BY <2>10, <3>5 DEF Keeps
    <3>9. Keeps(d, r.c)
      <4>1. i \in 1 .. Len(d.nodes) /\ y.local = d.nodes[i].local /\ y.state # "ACTIVATING"
        BY <3>2, <3>4, <3>5
      <4>2. Keeps(d, [d EXCEPT !.nodes[i] = y])
        BY <3>4, <3>8, <4>1, SetNodeGood DEF Keeps
      <4> QED BY <3>7, <4>2
    <3> QED BY <1>5, <2>9, <3>6, <3>8, <3>9, KeepsKeeps
  <2> QED BY <2>11, <2>12
<1> QED BY <1>7, <1>8


-----------------------------------------------------------------------------
(* An event of CM makes no callback or one, which QOSM needs if a tcid is  *)
(* to leave the settled ones.                                              *)

Whats == {"ESTABLISH_SUCCESS", "ESTABLISH_FAIL", "RELEASE_RSP", "RELEASE_FAIL",
          "CONNECTED", "DISCONNECTED"}

\* The callback "what" for a node, when the settled tcids go from S to T.
Told(what, node, S, T) ==
    \/ /\ what \in {"ESTABLISH_SUCCESS", "CONNECTED"}
       /\ S \subseteq T /\ node.local \in T /\ node.local \notin S
    \/ what = "ESTABLISH_FAIL" /\ S \subseteq T
    \/ what \in {"RELEASE_RSP", "RELEASE_FAIL", "DISCONNECTED"} /\ S \ {node.local} \subseteq T

Event(c, r) ==
    /\ CmGood(r.c)
    /\ \/ r.cbs = <<>> /\ Keeps(c, r.c)
       \/ \E node \in Node : \E what \in Whats :
            /\ r.cbs = <<Cbk(what, node)>>
            /\ Told(what, node, SettledOf(c.nodes), SettledOf(r.c.nodes))

LEMMA QuietIsEvent ==
  ASSUME NEW c, NEW d, Keeps(c, d)
  PROVE  Event(c, Quiet(d))
BY DEF Event, Quiet, Keeps

\* A callback is an event if the settled tcids change as it tells.
LEMMA CallIsEvent ==
  ASSUME NEW c, NEW d, NEW node \in Node, NEW what \in Whats,
         CmGood(d), Told(what, node, SettledOf(c.nodes), SettledOf(d.nodes))
  PROVE  Event(c, [c |-> d, cbs |-> <<Cbk(what, node)>>])
<1>1. PICK r : r = [c |-> d, cbs |-> <<Cbk(what, node)>>]
  OBVIOUS
<1>2. r.c = d /\ r.cbs = <<Cbk(what, node)>>
  BY <1>1
<1> QED BY <1>1, <1>2 DEF Event

\* The same event with other requests, messages or identifiers.
LEMMA EventSame ==
  ASSUME NEW c, NEW d, NEW r, SameNodes(c, d), Event(d, r)
  PROVE  Event(c, r)
BY DEF Event, SameNodes, Keeps

\* CM_DynTransChannelEstablishRspCbk.
LEMMA EstablishRspEvent ==
  ASSUME NEW c, CmGood(c), NEW t \in Tcid, NEW ok \in BOOLEAN, NEW dst \in Tcid \cup {NoTcid}
  PROVE  Event(c, EstablishRsp(c, t, ok, dst))
<1>0. c \in CmRecord /\ NodesGood(c.nodes)
  BY DEF CmGood, CmRecord, NodesGood
<1>1. PICK i : i = FindLocal(c, t)
  OBVIOUS
<1>2. PICK node : node = c.nodes[i]
  OBVIOUS
<1>3. PICK x : x = [node EXCEPT !.state = "ACTIVATED", !.remote = dst]
  OBVIOUS
<1>4. PICK r : r = EstablishRsp(c, t, ok, dst)
  OBVIOUS
<1>5. r = CASE i = 0 \/ (i # 0 /\ node.state # "ACTIVATING") -> Quiet(c)
            [] i # 0 /\ node.state = "ACTIVATING" /\ ok ->
                 [c |-> [c EXCEPT !.nodes[i] = x],
                  cbs |-> <<Cbk("ESTABLISH_SUCCESS", x)>>]
            [] OTHER -> [c |-> FreeNode(c, i), cbs |-> <<Cbk("ESTABLISH_FAIL", node)>>]
  BY <1>1, <1>2, <1>3, <1>4 DEF EstablishRsp
<1>6. CASE i = 0 \/ (i # 0 /\ node.state # "ACTIVATING")
  <2>1. r = Quiet(c)
    BY <1>5, <1>6
  <2> QED BY <1>4, <2>1, QuietIsEvent DEF Keeps
<1>7. ASSUME i # 0, node.state = "ACTIVATING"
      PROVE  /\ i \in 1 .. Len(c.nodes) /\ node \in Node /\ node.local \notin SettledOf(c.nodes)
             /\ x \in Node /\ x.local = node.local /\ x.state = "ACTIVATED"
  <2>1. i \in 1 .. Len(c.nodes)
    BY <1>0, <1>1, <1>7, FindLocalIs
  <2>2. node \in Node /\ node.local \notin SettledOf(c.nodes)
    BY <1>0, <1>2, <1>7, <2>1, NodeOfList
  <2>3. x \in Node /\ x.local = node.local /\ x.state = "ACTIVATED"
    BY <1>3, <2>2 DEF Node, States
  <2> QED BY <2>1, <2>2, <2>3
<1>8. CASE i # 0 /\ node.state = "ACTIVATING" /\ ok
  <2>1. PICK d : d = [c EXCEPT !.nodes[i] = x]
    OBVIOUS
  <2>2. r = [c |-> d, cbs |-> <<Cbk("ESTABLISH_SUCCESS", x)>>]
    BY <1>5, <1>8, <2>1
  <2>3. CmGood(d) /\ SettledOf(c.nodes) \subseteq SettledOf(d.nodes) /\ x.local \in SettledOf(d.nodes)
    <3>1. x.local = c.nodes[i].local /\ x.state # "ACTIVATING"
      BY <1>2, <1>7, <1>8
    <3> QED BY <1>7, <1>8, <2>1, <3>1, SetNodeGood
  <2>4. Told("ESTABLISH_SUCCESS", x, SettledOf(c.nodes), SettledOf(d.nodes))
    BY <1>7, <1>8, <2>3 DEF Told
  <2>7. Event(c, [c |-> d, cbs |-> <<Cbk("ESTABLISH_SUCCESS", x)>>])
    <3>1. x \in Node /\ "ESTABLISH_SUCCESS" \in Whats
      BY <1>7, <1>8 DEF Whats
    <3> QED BY <3>1, <2>3, <2>4, CallIsEvent, Zenon
  <2> QED BY <1>4, <2>2, <2>7
<1>9. CASE i # 0 /\ node.state = "ACTIVATING" /\ ~ok
  <2>1. PICK d : d = FreeNode(c, i)
    OBVIOUS
  <2>2. r = [c |-> d, cbs |-> <<Cbk("ESTABLISH_FAIL", node)>>]
    BY <1>5, <1>9, <2>1
  <2>3. CmGood(d) /\ SettledOf(c.nodes) \subseteq SettledOf(d.nodes)
    BY <1>2, <1>7, <1>9, <2>1, FreeNodeGood
  <2>4. Told("ESTABLISH_FAIL", node, SettledOf(c.nodes), SettledOf(d.nodes))
    BY <2>3 DEF Told
  <2>7. Event(c, [c |-> d, cbs |-> <<Cbk("ESTABLISH_FAIL", node)>>])
    <3>1. node \in Node /\ "ESTABLISH_FAIL" \in Whats
      BY <1>7, <1>9 DEF Whats
    <3> QED BY <3>1, <2>3, <2>4, CallIsEvent, Zenon
  <2> QED BY <1>4, <2>2, <2>7
<1> QED BY <1>6, <1>8, <1>9

\* CM_DynTransChannelReleaseRspCbk.
LEMMA ReleaseRspEvent ==
  ASSUME NEW c, CmGood(c), NEW t \in Tcid, NEW ok \in BOOLEAN
  PROVE  Event(c, ReleaseRsp(c, t, ok))
<1>0. c \in CmRecord /\ NodesGood(c.nodes)
  BY DEF CmGood, CmRecord, NodesGood
<1>1. PICK i : i = FindLocal(c, t)
  OBVIOUS
<1>2. PICK r : r = ReleaseRsp(c, t, ok)
  OBVIOUS
<1>3. PICK what : what = IF ok THEN "RELEASE_RSP" ELSE "RELEASE_FAIL"
  OBVIOUS
<1>4. what \in {"RELEASE_RSP", "RELEASE_FAIL"} /\ what \in Whats
  BY <1>3 DEF Whats
<1>5. r = IF i = 0 THEN Quiet(c)
          ELSE [c |-> FreeNode(c, i), cbs |-> <<Cbk(what, c.nodes[i])>>]
  BY <1>1, <1>2, <1>3 DEF ReleaseRsp
<1>6. CASE i = 0
  <2>1. r = Quiet(c)
    BY <1>5, <1>6
  <2> QED BY <1>2, <2>1, QuietIsEvent DEF Keeps
<1>7. CASE i # 0
  <2>1. i \in 1 .. Len(c.nodes)
    BY <1>0, <1>1, <1>7, FindLocalIs
  <2>2. PICK node \in Node : node = c.nodes[i]
    BY <1>0, <2>1, NodeOfList
  <2>3. PICK d : d = FreeNode(c, i)
    OBVIOUS
  <2>4. r = [c |-> d, cbs |-> <<Cbk(what, node)>>]
    BY <1>5, <1>7, <2>2, <2>3
  <2>5. CmGood(d) /\ SettledOf(c.nodes) \ {node.local} \subseteq SettledOf(d.nodes)
    BY <2>1, <2>2, <2>3, FreeNodeGood
  <2>6. Told(what, node, SettledOf(c.nodes), SettledOf(d.nodes))
    BY <1>4, <2>5 DEF Told
  <2>7. Event(c, [c |-> d, cbs |-> <<Cbk(what, node)>>])
    BY <1>4, <2>5, <2>6, CallIsEvent, Zenon
  <2> QED BY <1>2, <2>4, <2>7
<1> QED BY <1>6, <1>7


\* CM_DynTransChanPassiveEstablishedReqHandler.
LEMMA PassiveEstablishEvent ==
  ASSUME NEW c, CmGood(c), NEW m \in Message, NEW valid \in BOOLEAN, NEW ok \in BOOLEAN
  PROVE  Event(c, PassiveEstablish(c, m, valid, ok))
<1>0. c \in CmRecord /\ NodesGood(c.nodes)
  BY DEF CmGood, CmRecord, NodesGood
<1>1. PICK t : t = DynTcidAllocate(c)
  OBVIOUS
<1>2. PICK node : node = [local |-> t, remote |-> m.src, state |-> "ACTIVATED",
                          port |-> m.port, frame4 |-> FALSE]
  OBVIOUS
<1>3. PICK r : r = PassiveEstablish(c, m, valid, ok)
  OBVIOUS
<1>4. r = CASE FindRemote(c, m.src) # 0 -> Quiet(c)
            [] FindRemote(c, m.src) = 0 /\ ~valid ->
                 Quiet(IF ok THEN SendRsp(c, "TC_CONNECT_RSP", m, NoTcid, FALSE) ELSE c)
            [] FindRemote(c, m.src) = 0 /\ valid /\ (t = NoTcid \/ ~ok) -> Quiet(c)
            [] OTHER ->
                 [c |-> SendRsp(AddNode(c, node), "TC_CONNECT_RSP", m, t, TRUE),
                  cbs |-> <<Cbk("CONNECTED", node)>>]
  BY <1>1, <1>2, <1>3 DEF PassiveEstablish
<1>5. CASE r = Quiet(c)
  BY <1>3, <1>5, QuietIsEvent DEF Keeps
<1>6. CASE r = Quiet(SendRsp(c, "TC_CONNECT_RSP", m, NoTcid, FALSE))
  <2>1. PICK d : d = SendRsp(c, "TC_CONNECT_RSP", m, NoTcid, FALSE)
    OBVIOUS
  <2>2. SameNodes(c, d)
    BY <1>0, <2>1, SendRspSame
  <2>3. Keeps(c, d)
    BY <2>2, SameNodesKeeps
  <2> QED BY <1>3, <1>6, <2>1, <2>3, QuietIsEvent
<1>7. CASE t # NoTcid /\ r = [c |-> SendRsp(AddNode(c, node), "TC_CONNECT_RSP", m, t, TRUE),
                             cbs |-> <<Cbk("CONNECTED", node)>>]
  <2>1. t \in Tcid /\ t \notin c.used
    BY <1>0, <1>1, <1>7, AllocatedIsFree
  <2>2. node \in Node /\ node.local = t /\ node.state = "ACTIVATED"
    BY <1>2, <2>1 DEF Node, Message, States
  <2>3. PICK e : e = AddNode(c, node)
    OBVIOUS
  <2>4. CmGood(e) /\ SettledOf(c.nodes) \subseteq SettledOf(e.nodes) /\ t \in SettledOf(e.nodes)
    BY <2>1, <2>2, <2>3, AddNodeGood
  <2>5. PICK d : d = SendRsp(e, "TC_CONNECT_RSP", m, t, TRUE)
    OBVIOUS
  <2>6. SameNodes(e, d)
    <3>1. e \in CmRecord
      BY <2>4 DEF CmGood
    <3> QED BY <2>1, <2>5, <3>1, SendRspSame
  <2>7. CmGood(d) /\ d.nodes = e.nodes
    BY <2>4, <2>6, SameNodesGood DEF SameNodes
  <2>8. t \notin SettledOf(c.nodes)
    BY <2>1, SettledIsLocal DEF CmGood
  <2>9. Told("CONNECTED", node, SettledOf(c.nodes), SettledOf(d.nodes))
    BY <2>2, <2>4, <2>7, <2>8 DEF Told
  <2>10. Event(c, [c |-> d, cbs |-> <<Cbk("CONNECTED", node)>>])
    <3>1. node \in Node /\ "CONNECTED" \in Whats
      BY <2>2 DEF Whats
    <3> QED BY <3>1, <2>7, <2>9, CallIsEvent, Zenon
  <2> QED BY <1>3, <1>7, <2>3, <2>5, <2>10
<1> QED BY <1>4, <1>5, <1>6, <1>7

\* CM_DynTransChanPassiveReleasedReqHandler.
LEMMA PassiveReleaseEvent ==
  ASSUME NEW c, CmGood(c), NEW m \in Message, NEW ok \in BOOLEAN, NEW retry \in BOOLEAN
  PROVE  Event(c, PassiveRelease(c, m, ok, retry))
<1>0. c \in CmRecord /\ NodesGood(c.nodes)
  BY DEF CmGood, CmRecord, NodesGood
<1>1. PICK i : i = FindRemote(c, m.src)
  OBVIOUS
<1>2. PICK node : node = c.nodes[i]
  OBVIOUS
<1>3. PICK e : e = FreeNode(c, i)
  OBVIOUS
<1>4. PICK d : d = IF ok THEN SendRsp(e, "TC_DISCONNECT_RSP", m, node.local, TRUE)
                   ELSE SendReq(e, "TC_DISCONNECT_REQ", node.local, node.remote, m.port, retry).c
  OBVIOUS
<1>5. PICK r : r = PassiveRelease(c, m, ok, retry)
  OBVIOUS
<1>6. r = IF i = 0 THEN Quiet(c) ELSE [c |-> d, cbs |-> <<Cbk("DISCONNECTED", node)>>]
  BY <1>1, <1>2, <1>3, <1>4, <1>5 DEF PassiveRelease
<1>7. CASE i = 0
  BY <1>5, <1>6, <1>7, QuietIsEvent DEF Keeps
<1>8. CASE i # 0
  <2>1. i \in 1 .. Len(c.nodes)
    BY <1>0, <1>1, <1>8, FindRemoteIs
  <2>2. node \in Node
    BY <1>0, <1>2, <2>1, NodeOfList
  <2>3. CmGood(e) /\ SettledOf(c.nodes) \ {node.local} \subseteq SettledOf(e.nodes)
    BY <1>2, <1>3, <2>1, FreeNodeGood
  <2>4. SameNodes(e, d)
    <3>1. e \in CmRecord
      BY <2>3 DEF CmGood
    <3>2. node.local \in Tcid /\ node.remote \in Tcid \cup {NoTcid} /\ m.port \in Port
      BY <2>2 DEF Node, Message
    <3>3. CASE ok
      <4>1. d = SendRsp(e, "TC_DISCONNECT_RSP", m, node.local, TRUE)
        BY <1>4, <3>3
      <4> QED BY <3>1, <3>2, <4>1, SendRspSame
    <3>4. CASE ~ok
      <4>1. d = SendReq(e, "TC_DISCONNECT_REQ", node.local, node.remote, m.port, retry).c
        BY <1>4, <3>4
      <4> QED BY <3>1, <3>2, <4>1, SendReqSame DEF Codes
    <3> QED BY <3>3, <3>4
  <2>5. CmGood(d) /\ d.nodes = e.nodes
    BY <2>3, <2>4, SameNodesGood DEF SameNodes
  <2>6. Told("DISCONNECTED", node, SettledOf(c.nodes), SettledOf(d.nodes))
    BY <2>3, <2>5 DEF Told
  <2>7. Event(c, [c |-> d, cbs |-> <<Cbk("DISCONNECTED", node)>>])
    <3>1. node \in Node /\ "DISCONNECTED" \in Whats
      BY <2>2 DEF Whats
    <3> QED BY <3>1, <2>5, <2>6, CallIsEvent, Zenon
  <2> QED BY <1>5, <1>6, <1>8, <2>7
<1> QED BY <1>7, <1>8

\* Taking a request out of the cache changes no channel.
LEMMA PendSame ==
  ASSUME NEW c \in CmRecord, NEW ps \in Seq(Pending)
  PROVE  SameNodes(c, [c EXCEPT !.pend = ps])
BY DEF SameNodes, CmRecord

LEMMA TakenSame ==
  ASSUME NEW c \in CmRecord, NEW id, NEW code, Cached(c, id, code) # 0
  PROVE  SameNodes(c, [c EXCEPT !.pend = RemoveAt(@, Cached(c, id, code))])
<1>1. PICK i : i = Cached(c, id, code)
  OBVIOUS
<1>2. i \in 1 .. Len(c.pend) /\ c.pend \in Seq(Pending)
  BY <1>1, CachedIs DEF CmRecord
<1>3. PICK ps : ps = RemoveAt(c.pend, i)
  OBVIOUS
<1>4. ps \in Seq(Pending)
  BY <1>2, <1>3, RemoveAtIs
<1>5. SameNodes(c, [c EXCEPT !.pend = ps])
  BY <1>4, PendSame
<1> QED BY <1>1, <1>3, <1>5

\* CM_RecvSignalingData.
LEMMA RecvSignalingEvent ==
  ASSUME NEW c, CmGood(c), NEW m \in Message, NEW valid \in BOOLEAN, NEW o \in Outcomes
  PROVE  Event(c, RecvSignaling(c, m, valid, o))
<1>0. c \in CmRecord /\ o.send \in BOOLEAN /\ o.retry \in BOOLEAN
  BY DEF CmGood, Outcomes
<1>1. m.src \in Tcid /\ m.dst \in Tcid \cup {NoTcid} /\ m.ok \in BOOLEAN
        /\ m.code \in Codes \cup {"TC_CONNECT_RSP", "TC_DISCONNECT_RSP"}
  BY DEF Message
<1>2. PICK r : r = RecvSignaling(c, m, valid, o)
  OBVIOUS
<1>3. CASE m.code = "TC_CONNECT_REQ"
  <2>1. r = PassiveEstablish(c, m, valid, o.send)
    BY <1>2, <1>3 DEF RecvSignaling
  <2> QED BY <1>0, <1>2, <2>1, PassiveEstablishEvent
<1>4. CASE m.code = "TC_DISCONNECT_REQ"
  <2>1. r = PassiveRelease(c, m, o.send, o.retry)
    BY <1>2, <1>4 DEF RecvSignaling
  <2> QED BY <1>0, <1>2, <2>1, PassiveReleaseEvent
<1>5. CASE m.code = "TC_CONNECT_RSP"
  <2>1. PICK i : i = Cached(c, m.id, "TC_CONNECT_REQ")
    OBVIOUS
  <2>2. PICK d : d = [c EXCEPT !.pend = RemoveAt(@, i)]
    OBVIOUS
  <2>3. r = IF i = 0 THEN Quiet(c) ELSE EstablishRsp(d, m.src, m.ok, m.dst)
    BY <1>2, <1>5, <2>1, <2>2 DEF RecvSignaling
  <2>4. CASE i = 0
    BY <1>2, <2>3, <2>4, QuietIsEvent DEF Keeps
  <2>5. CASE i # 0
    <3>1. SameNodes(c, d)
      BY <1>0, <2>1, <2>2, <2>5, TakenSame
    <3>2. CmGood(d)
      BY <3>1, SameNodesGood
    <3>3. Event(d, EstablishRsp(d, m.src, m.ok, m.dst))
      BY <1>1, <3>2, EstablishRspEvent
    <3>4. Event(d, r)
      BY <2>3, <2>5, <3>3
    <3> QED BY <1>2, <3>1, <3>4, EventSame
  <2> QED BY <2>4, <2>5
<1>6. CASE m.code = "TC_DISCONNECT_RSP"
  <2>1. PICK i : i = Cached(c, m.id, "TC_DISCONNECT_REQ")
    OBVIOUS
  <2>2. PICK d : d = [c EXCEPT !.pend = RemoveAt(@, i)]
    OBVIOUS
  <2>3. r = IF i = 0 THEN Quiet(c) ELSE ReleaseRsp(d, m.src, m.ok)
    BY <1>2, <1>6, <2>1, <2>2 DEF RecvSignaling
  <2>4. CASE i = 0
    BY <1>2, <2>3, <2>4, QuietIsEvent DEF Keeps
  <2>5. CASE i # 0
    <3>1. SameNodes(c, d)
      BY <1>0, <2>1, <2>2, <2>5, TakenSame
    <3>2. CmGood(d)
      BY <3>1, SameNodesGood
    <3>3. Event(d, ReleaseRsp(d, m.src, m.ok))
      BY <1>1, <3>2, ReleaseRspEvent
    <3>4. Event(d, r)
      BY <2>3, <2>5, <3>3
    <3> QED BY <1>2, <3>1, <3>4, EventSame
  <2> QED BY <2>4, <2>5
<1> QED BY <1>1, <1>3, <1>4, <1>5, <1>6 DEF Codes

\* CM_SignalingTimeoutCbkInner.
LEMMA SignalingTimeoutEvent ==
  ASSUME NEW c, CmGood(c), c.pend # <<>>
  PROVE  Event(c, SignalingTimeout(c))
<1>0. c \in CmRecord /\ c.pend \in Seq(Pending)
  BY DEF CmGood, CmRecord
<1>1. PICK req : req = Head(c.pend)
  OBVIOUS
<1>2. req.src \in Tcid
  <2>1. req \in Pending
    BY <1>0, <1>1, HeadTailProperties
  <2> QED BY <2>1 DEF Pending
<1>3. PICK ps \in Seq(Pending) : ps = Tail(c.pend)
  BY <1>0, HeadTailProperties
<1>4. PICK d : d = [c EXCEPT !.pend = ps]
  OBVIOUS
<1>5. SameNodes(c, d)
  BY <1>0, <1>4, PendSame
<1>6. CmGood(d)
  BY <1>5, SameNodesGood
<1>7. PICK r : r = SignalingTimeout(c)
  OBVIOUS
<1>8. r = IF req.code = "TC_CONNECT_REQ" THEN EstablishRsp(d, req.src, FALSE, NoTcid)
          ELSE ReleaseRsp(d, req.src, TRUE)
  BY <1>1, <1>3, <1>4, <1>7 DEF SignalingTimeout
<1>9. Event(d, EstablishRsp(d, req.src, FALSE, NoTcid))
  BY <1>2, <1>6, EstablishRspEvent
<1>10. Event(d, ReleaseRsp(d, req.src, TRUE))
  BY <1>2, <1>6, ReleaseRspEvent
<1>11. Event(d, r)
  BY <1>8, <1>9, <1>10
<1> QED BY <1>5, <1>7, <1>11, EventSame


-----------------------------------------------------------------------------
(* The operators of QOSM.                                                  *)

App == [state : AppStates, tcid : Tcid \cup {NoTcid}]

\* More settled tcids do no harm.
LEMMA QosMore ==
  ASSUME NEW q, NEW S, NEW T, QosGood(q, S), S \subseteq T
  PROVE  QosGood(q, T)
BY DEF QosGood, ListGood

\* Changes of a field other than the list.
LEMMA NumGood ==
  ASSUME NEW q, NEW T, QosGood(q, T), NEW k \in Nat
  PROVE  QosGood([q EXCEPT !.num = k], T) /\ [q EXCEPT !.num = k].list = q.list
BY DEF QosGood, QosmRecord

LEMMA SlqiGood ==
  ASSUME NEW q, NEW T, QosGood(q, T), NEW b \in BOOLEAN
  PROVE  QosGood([q EXCEPT !.slqi = b], T)
BY DEF QosGood, QosmRecord

LEMMA TuneGood ==
  ASSUME NEW q, NEW T, QosGood(q, T), NEW tn \in Tuning \cup {NoTune}
  PROVE  QosGood([q EXCEPT !.tune = tn], T)
BY DEF QosGood, QosmRecord

LEMMA TasksGood ==
  ASSUME NEW q, NEW T, QosGood(q, T), NEW ts \in Seq(Task)
  PROVE  QosGood([q EXCEPT !.tasks = ts], T)
BY DEF QosGood, QosmRecord

LEMMA AppGood ==
  ASSUME NEW q, NEW T, QosGood(q, T), NEW a \in [Port -> App]
  PROVE  QosGood([q EXCEPT !.app = a], T)
BY DEF QosGood, QosmRecord, App

LEMMA AppOneGood ==
  ASSUME NEW q, NEW T, QosGood(q, T), NEW p \in Port, NEW x \in App
  PROVE  QosGood([q EXCEPT !.app[p] = x], T)
<1>1. q.app \in [Port -> App]
  BY DEF QosGood, QosmRecord, App
<1>2. PICK a \in [Port -> App] : a = [q.app EXCEPT ![p] = x]
  BY <1>1
<1>3. [q EXCEPT !.app[p] = x] = [q EXCEPT !.app = a]
  BY <1>2
<1> QED BY <1>3, AppGood

LEMMA ListIsGood ==
  ASSUME NEW q, NEW S, QosGood(q, S), NEW T, NEW ls \in Seq(Entry), ListGood(ls, T)
  PROVE  QosGood([q EXCEPT !.list = ls], T)
BY DEF QosGood, QosmRecord

LEMMA DecreaseGood ==
  ASSUME NEW q, NEW T, QosGood(q, T)
  PROVE  QosGood(Decrease(q), T)
<1>1. q.num \in Nat
  BY DEF QosGood, QosmRecord
<1>2. PICK k \in Nat : k = IF q.num > 0 THEN q.num - 1 ELSE 0
  BY <1>1
<1>3. Decrease(q) = [q EXCEPT !.num = k]
  BY <1>2 DEF Decrease
<1> QED BY <1>3, NumGood

LEMMA IncreaseGood ==
  ASSUME NEW q, NEW T, QosGood(q, T)
  PROVE  QosGood(Increase(q), T)
<1>1. q.num \in Nat
  BY DEF QosGood, QosmRecord
<1>2. PICK k \in Nat : k = q.num + 1
  BY <1>1
<1>3. Increase(q) = [q EXCEPT !.num = k]
  BY <1>2 DEF Increase
<1> QED BY <1>3, NumGood

\* QOSM_TransChannelAdd for a channel that has no entry yet.
LEMMA ChannelAddGood ==
  ASSUME NEW q, NEW S, QosGood(q, S), NEW node \in Node, node.local \notin S,
         NEW T, S \subseteq T, node.local \in T
  PROVE  QosGood(ChannelAdd(q, node), T)
<1>1. PICK x : x = [tcid |-> node.local, high |-> node.port \in High, refused |-> FALSE]
  OBVIOUS
<1>2. x \in Entry /\ x.tcid = node.local
  BY <1>1 DEF Entry, Node
<1>3. PICK ls : ls = q.list
  OBVIOUS
<1>4. ls \in Seq(Entry) /\ ListGood(ls, S)
  BY <1>3 DEF QosGood, QosmRecord
<1>5. PICK n \in Nat : n = Len(ls)
  BY <1>4, LenProperties
<1>6. PICK r : r = <<x>> \o ls
  OBVIOUS
<1>7. r \in Seq(Entry) /\ Len(r) = n + 1 /\ r[1] = x /\ \A j \in 2 .. n + 1 : r[j] = ls[j - 1]
  <2>1. <<x>> \in Seq(Entry) /\ Len(<<x>>) = 1 /\ <<x>>[1] = x
    BY <1>2
  <2>2. PICK h : h = <<x>>
    OBVIOUS
  <2>3. h \in Seq(Entry) /\ Len(h) = 1 /\ h[1] = x /\ r = h \o ls
    BY <1>6, <2>1, <2>2
  <2>4. h \o ls \in Seq(Entry) /\ Len(h \o ls) = Len(h) + Len(ls)
          /\ \A j \in 1 .. Len(h) + Len(ls) : (h \o ls)[j] = IF j <= Len(h) THEN h[j] ELSE ls[j - Len(h)]
    BY <1>4, <2>3, ConcatProperties, Zenon
  <2>5. r \in Seq(Entry) /\ Len(r) = 1 + n
          /\ \A j \in 1 .. 1 + n : r[j] = IF j <= 1 THEN h[j] ELSE ls[j - 1]
    BY <1>5, <2>3, <2>4
  <2>6. r[1] = x
    <3>1. 1 \in 1 .. 1 + n /\ 1 <= 1
      OBVIOUS
    <3> QED BY <2>3, <2>5, <3>1
  <2>7. ASSUME NEW j \in 2 .. n + 1
        PROVE  r[j] = ls[j - 1]
    <3>1. j \in 1 .. 1 + n /\ ~(j <= 1)
      OBVIOUS
    <3> QED BY <2>5, <3>1
  <2>8. Len(r) = n + 1
    BY <2>5
  <2> QED BY <2>5, <2>6, <2>7, <2>8
<1>8. ListGood(r, T)
  <2>1. ASSUME NEW i \in 1 .. n + 1
        PROVE  r[i].refused \/ r[i].tcid \in T
    <3>1. CASE i = 1
      BY <1>2, <1>7, <3>1
    <3>2. CASE i # 1
      <4>1. i \in 2 .. n + 1 /\ i - 1 \in 1 .. n
        BY <3>2
      <4> QED BY <1>4, <1>5, <1>7, <4>1 DEF ListGood
    <3> QED BY <3>1, <3>2
  <2>2. \A i \in 1 .. n : ls[i].tcid = node.local => ls[i].refused
    BY <1>4, <1>5 DEF ListGood
  <2>3. ASSUME NEW i \in 1 .. n + 1, NEW j \in 1 .. n + 1, i < j, r[i].tcid = r[j].tcid
        PROVE  r[j].refused
    <3>1. j \in 2 .. n + 1 /\ j - 1 \in 1 .. n
      BY <2>3
    <3>2. r[j] = ls[j - 1]
      BY <1>7, <3>1
    <3>3. CASE i = 1
      BY <1>2, <1>7, <2>2, <2>3, <3>1, <3>2, <3>3
    <3>4. CASE i # 1
      <4>1. i \in 2 .. n + 1 /\ i - 1 \in 1 .. n /\ i - 1 < j - 1
        BY <2>3, <3>4
      <4>2. ls[i - 1].tcid = ls[j - 1].tcid
        BY <1>7, <2>3, <3>2, <4>1
      <4> QED BY <1>4, <1>5, <3>1, <3>2, <4>1, <4>2 DEF ListGood
    <3> QED BY <3>3, <3>4
  <2> QED BY <1>7, <2>1, <2>3 DEF ListGood
<1>9. ChannelAdd(q, node) = [q EXCEPT !.list = r]
  BY <1>1, <1>3, <1>6 DEF ChannelAdd
<1> QED BY <1>7, <1>8, <1>9, ListIsGood

\* QOSM_TransChannelDel: no entry of the tcid is left but refused ones.
LEMMA ChannelDelGood ==
  ASSUME NEW q, NEW S, QosGood(q, S), NEW t, NEW T, S \ {t} \subseteq T
  PROVE  QosGood(ChannelDel(q, t), T)
<1>1. PICK ls : ls = q.list
  OBVIOUS
<1>2. ls \in Seq(Entry) /\ ListGood(ls, S)
  BY <1>1 DEF QosGood, QosmRecord
<1>3. PICK n \in Nat : n = Len(ls)
  BY <1>2, LenProperties
<1>4. PICK U : U = {j \in 1 .. n : ls[j].tcid = t}
  OBVIOUS
<1>5. PICK i : i = IF U # {} THEN Min(U) ELSE 0
  OBVIOUS
<1>6. ChannelDel(q, t) = IF i = 0 THEN q ELSE [q EXCEPT !.list = RemoveAt(ls, i)]
  BY <1>1, <1>3, <1>4, <1>5 DEF ChannelDel, SelectInSeq
<1>7. U # {} => i \in U /\ \A k \in U : i <= k
  BY <1>4, <1>5, FirstOne
<1>8. CASE U = {}
  <2>1. ChannelDel(q, t) = q
    BY <1>5, <1>6, <1>8
  <2>2. ListGood(ls, T)
    BY <1>2, <1>3, <1>4, <1>8 DEF ListGood
  <2> QED BY <1>1, <2>1, <2>2 DEF QosGood
<1>9. CASE U # {}
  <2>1. i \in 1 .. n /\ ls[i].tcid = t /\ \A k \in 1 .. n : ls[k].tcid = t => i <= k
    BY <1>4, <1>7, <1>9
  <2>2. PICK r : r = RemoveAt(ls, i)
    OBVIOUS
  <2>3. ChannelDel(q, t) = [q EXCEPT !.list = r]
    BY <1>6, <2>1, <2>2
  <2>4. r \in Seq(Entry)
    BY <1>2, <1>3, <2>1, <2>2, RemoveAtIs
  <2>5. ASSUME NEW j \in 1 .. Len(r)
        PROVE  \E k \in 1 .. n : k # i /\ r[j] = ls[k] /\ k = IF j < i THEN j ELSE j + 1
    <3>1. i \in 1 .. Len(ls)
      BY <1>3, <2>1
    <3>2. \E k \in 1 .. Len(ls) : k # i /\ r[j] = ls[k] /\ k = IF j < i THEN j ELSE j + 1
      BY <1>2, <2>2, <3>1, RemoveAtPlaces, SMTT(30)
    <3> QED BY <1>3, <3>2
  <2>6. ASSUME NEW j \in 1 .. Len(r)
        PROVE  r[j].refused \/ r[j].tcid \in T
    <3>1. PICK k \in 1 .. n : k # i /\ r[j] = ls[k]
      BY <2>5
    <3>2. ls[k].refused \/ ls[k].tcid \in S
      BY <1>2, <1>3, <3>1 DEF ListGood
    <3>3. ls[k].tcid = t => i < k
      BY <2>1, <3>1
    <3>4. ls[k].tcid = t => ls[k].refused
      BY <1>2, <1>3, <2>1, <3>1, <3>3 DEF ListGood
    <3> QED BY <3>1, <3>2, <3>4
  <2>7. ASSUME NEW j \in 1 .. Len(r), NEW l \in 1 .. Len(r), j < l, r[j].tcid = r[l].tcid
        PROVE  r[l].refused
    <3>1. PICK u \in 1 .. n : r[j] = ls[u] /\ u = IF j < i THEN j ELSE j + 1
      BY <2>5
    <3>2. PICK v \in 1 .. n : r[l] = ls[v] /\ v = IF l < i THEN l ELSE l + 1
      BY <2>5
    <3>3. j \in Int /\ l \in Int /\ i \in Int
      BY <2>1, <2>7
    <3>4. u < v
      BY <2>7, <3>1, <3>2, <3>3
    <3>5. ls[u].tcid = ls[v].tcid
      BY <2>7, <3>1, <3>2
    <3> QED BY <1>2, <1>3, <3>2, <3>4, <3>5 DEF ListGood
  <2>8. ListGood(r, T)
    BY <2>6, <2>7 DEF ListGood
  <2> QED BY <2>3, <2>4, <2>8, ListIsGood
<1> QED BY <1>8, <1>9

\* A refused release: the entries of the tcid stay, with the mark.
LEMMA ChannelKeptGood ==
  ASSUME NEW q, NEW S, QosGood(q, S), NEW t, NEW T, S \ {t} \subseteq T
  PROVE  QosGood(ChannelKept(q, t), T)
<1>1. PICK ls : ls = q.list
  OBVIOUS
<1>2. ls \in Seq(Entry) /\ ListGood(ls, S)
  BY <1>1 DEF QosGood, QosmRecord
<1>3. PICK n \in Nat : n = Len(ls) /\ DOMAIN ls = 1 .. n
  BY <1>2, LenProperties
<1> DEFINE E(i) == IF ls[i].tcid = t THEN [ls[i] EXCEPT !.refused = TRUE] ELSE ls[i]
<1>4. PICK r : r = [i \in 1 .. n |-> E(i)]
  OBVIOUS
<1>5. ASSUME NEW i \in 1 .. n
      PROVE  E(i) \in Entry /\ E(i).tcid = ls[i].tcid
               /\ (E(i).refused <=> ls[i].refused \/ ls[i].tcid = t)
  <2>1. PICK x \in Entry : x = ls[i]
    BY <1>2, <1>3, ElementOfSeq
  <2>2. PICK y : y = [x EXCEPT !.refused = TRUE]
    OBVIOUS
  <2>3. y \in Entry /\ y.tcid = x.tcid /\ y.refused
    BY <2>2 DEF Entry
  <2> QED BY <2>1, <2>2, <2>3
<1> HIDE DEF E
<1>6. r \in Seq(Entry) /\ Len(r) = n
  <2>1. r \in [1 .. n -> Entry]
    BY <1>4, <1>5
  <2>2. r \in Seq(Entry)
    BY <2>1, SeqDef
  <2>3. DOMAIN r = 1 .. n /\ DOMAIN r = 1 .. Len(r) /\ Len(r) \in Nat
    BY <2>1, <2>2, LenProperties
  <2> QED BY <2>2, <2>3
<1>7. ASSUME NEW i \in 1 .. n
      PROVE  r[i].tcid = ls[i].tcid /\ (r[i].refused <=> ls[i].refused \/ ls[i].tcid = t)
  BY <1>4, <1>5
<1>8. ListGood(r, T)
  <2>1. ASSUME NEW i \in 1 .. n
        PROVE  r[i].refused \/ r[i].tcid \in T
    BY <1>2, <1>3, <1>7 DEF ListGood
  <2>2. ASSUME NEW i \in 1 .. n, NEW j \in 1 .. n, i < j, r[i].tcid = r[j].tcid
        PROVE  r[j].refused
    BY <1>2, <1>3, <1>7, <2>2 DEF ListGood
  <2> QED BY <1>6, <2>1, <2>2 DEF ListGood
<1>9. ChannelKept(q, t) = [q EXCEPT !.list = r]
  BY <1>1, <1>3, <1>4 DEF ChannelKept, E
<1> QED BY <1>6, <1>8, <1>9, ListIsGood

\* statusCbk and what the service makes of it.
LEMMA ReportGood ==
  ASSUME NEW q, NEW T, QosGood(q, T), NEW p \in Port, NEW t \in Tcid \cup {NoTcid}, NEW status
  PROVE  QosGood(Report(q, p, t, status), T)
<1>1. StateOf(status) \in AppStates
  BY DEF StateOf, AppStates
<1>2. PICK x : x = [state |-> StateOf(status), tcid |-> t]
  OBVIOUS
<1>3. x \in App
  BY <1>1, <1>2 DEF App
<1>4. Report(q, p, t, status) = q \/ Report(q, p, t, status) = [q EXCEPT !.app[p] = x]
  BY <1>2 DEF Report
<1> QED BY <1>3, <1>4, AppOneGood


-----------------------------------------------------------------------------
(* The handlers of QOSM, on one end.                                       *)

\* s is an end whose CM and QOSM are good.
SGood(s) == s = [c |-> s.c, q |-> s.q] /\ EndGood(s.c, s.q)

LEMMA SGoodIs ==
  ASSUME NEW c, NEW q, EndGood(c, q)
  PROVE  SGood([c |-> c, q |-> q])
BY DEF SGood

LEMMA SGoodQ ==
  ASSUME NEW s, s = [c |-> s.c, q |-> s.q], CmGood(s.c),
         NEW x, QosGood(x, SettledOf(s.c.nodes))
  PROVE  SGood([s EXCEPT !.q = x])
<1>1. [s EXCEPT !.q = x] = [c |-> s.c, q |-> x]
  OBVIOUS
<1> QED BY <1>1 DEF SGood, EndGood

\* CM keeps what QOSM lists.
LEMMA KeepsGood ==
  ASSUME NEW c, NEW d, Keeps(c, d), NEW q, QosGood(q, SettledOf(c.nodes))
  PROVE  EndGood(d, q)
BY QosMore DEF Keeps, EndGood

\* QOSM_TcTuningFailedEntry.
LEMMA TuningFailedGood ==
  ASSUME NEW s, SGood(s), NEW tn \in Tuning, NEW o \in Outcomes
  PROVE  SGood(TuningFailed(s, tn, o))
<1>1. CmGood(s.c) /\ QosGood(s.q, SettledOf(s.c.nodes))
  BY DEF SGood, EndGood
<1>2. tn.tcid \in Tcid /\ tn.port \in Port /\ o.send \in BOOLEAN
  BY DEF Tuning, Outcomes
<1>3. PICK rel : rel = ReleaseReq(s.c, tn.tcid, o.send)
  OBVIOUS
<1>4. rel.ok \in BOOLEAN /\ Keeps(s.c, rel.c)
  BY <1>1, <1>2, <1>3, ReleaseReqKeeps
<1>5. PICK q : q = [s.q EXCEPT !.tune = NoTune]
  OBVIOUS
<1>6. QosGood(q, SettledOf(s.c.nodes))
  BY <1>1, <1>5, TuneGood
<1>7. PICK d : d = IF tn.status = "ESTABLISHED" THEN rel.c ELSE s.c
  OBVIOUS
<1>8. Keeps(s.c, d)
  BY <1>1, <1>4, <1>7 DEF Keeps
<1>9. PICK w : w = IF tn.status = "ESTABLISHED" /\ rel.ok THEN Decrease(q) ELSE q
  OBVIOUS
<1>10. QosGood(w, SettledOf(s.c.nodes))
  BY <1>6, <1>9, DecreaseGood
<1>11. PICK f : f = FailOf(tn.status)
  OBVIOUS
<1>12. QosGood(Report(w, tn.port, tn.tcid, f), SettledOf(s.c.nodes))
  BY <1>2, <1>10, ReportGood
<1>13. TuningFailed(s, tn, o) = [c |-> d, q |-> Report(w, tn.port, tn.tcid, f)]
  BY <1>3, <1>5, <1>7, <1>9, <1>11 DEF TuningFailed
<1> QED BY <1>8, <1>12, <1>13, KeepsGood, SGoodIs

\* QOSM_TransChannelUpdateConnParams and the report of its callers.
LEMMA UpdateConnParamsGood ==
  ASSUME NEW s, SGood(s), NEW node \in Node, NEW status \in {"ESTABLISHED", "RELEASED"},
         NEW o \in Outcomes
  PROVE  SGood(UpdateConnParams(s, node, status, o))
<1>1. CmGood(s.c) /\ QosGood(s.q, SettledOf(s.c.nodes)) /\ s = [c |-> s.c, q |-> s.q]
  BY DEF SGood, EndGood
<1>2. node.local \in Tcid /\ node.port \in Port /\ o.send \in BOOLEAN
  BY DEF Node, Outcomes
<1>3. PICK fast \in BOOLEAN : fast = \E i \in DOMAIN s.q.list : s.q.list[i].high
  OBVIOUS
<1>4. PICK tn : tn = [phase |-> "CONN", port |-> node.port, tcid |-> node.local,
                      slqi |-> fast, status |-> status]
  OBVIOUS
<1>5. tn \in Tuning
  BY <1>2, <1>4 DEF Tuning
<1>6. PICK gone : gone = Decrease(ChannelDel(s.q, node.local))
  OBVIOUS
<1>7. QosGood(gone, SettledOf(s.c.nodes))
  <2>1. QosGood(ChannelDel(s.q, node.local), SettledOf(s.c.nodes))
    BY <1>1, ChannelDelGood
  <2> QED BY <1>6, <2>1, DecreaseGood
<1>8. PICK rel : rel = ReleaseReq(s.c, node.local, o.send).c
  OBVIOUS
<1>9. Keeps(s.c, rel)
  BY <1>1, <1>2, <1>8, ReleaseReqKeeps
<1>10. PICK f : f = FailOf(status)
  OBVIOUS
<1>11. PICK r : r = UpdateConnParams(s, node, status, o)
  OBVIOUS
<1>12. \/ r = [s EXCEPT !.q = Report(s.q, node.port, node.local, status)]
       \/ r = [c |-> IF status = "ESTABLISHED" THEN rel ELSE s.c,
               q |-> Report(IF status = "ESTABLISHED" THEN gone ELSE s.q,
                            node.port, node.local, f)]
       \/ r = [s EXCEPT !.q.tune = tn]
       \/ r = TuningFailed(s, tn, o)
  BY <1>3, <1>4, <1>6, <1>8, <1>10, <1>11 DEF UpdateConnParams
<1>13. CASE r = [s EXCEPT !.q = Report(s.q, node.port, node.local, status)]
  <2>1. QosGood(Report(s.q, node.port, node.local, status), SettledOf(s.c.nodes))
    BY <1>1, <1>2, ReportGood
  <2> QED BY <1>1, <1>11, <1>13, <2>1, SGoodQ
<1>14. CASE r = [c |-> IF status = "ESTABLISHED" THEN rel ELSE s.c,
                 q |-> Report(IF status = "ESTABLISHED" THEN gone ELSE s.q,
                              node.port, node.local, f)]
  <2>1. PICK d : d = IF status = "ESTABLISHED" THEN rel ELSE s.c
    OBVIOUS
  <2>2. PICK w : w = IF status = "ESTABLISHED" THEN gone ELSE s.q
    OBVIOUS
  <2>3. Keeps(s.c, d) /\ QosGood(w, SettledOf(s.c.nodes))
    BY <1>1, <1>7, <1>9, <2>1, <2>2 DEF Keeps
  <2>4. QosGood(Report(w, node.port, node.local, f), SettledOf(s.c.nodes))
    BY <1>2, <2>3, ReportGood
  <2>5. r = [c |-> d, q |-> Report(w, node.port, node.local, f)]
    BY <1>14, <2>1, <2>2
  <2> QED BY <1>11, <2>3, <2>4, <2>5, KeepsGood, SGoodIs
<1>15. CASE r = [s EXCEPT !.q.tune = tn]
  <2>1. PICK w : w = [s.q EXCEPT !.tune = tn]
    OBVIOUS
  <2>2. QosGood(w, SettledOf(s.c.nodes))
    BY <1>1, <1>5, <2>1, TuneGood
  <2>3. r = [s EXCEPT !.q = w]
    BY <1>15, <2>1
  <2> QED BY <1>1, <1>11, <2>2, <2>3, SGoodQ
<1>16. CASE r = TuningFailed(s, tn, o)
  BY <1>5, <1>11, <1>16, TuningFailedGood
<1> QED BY <1>12, <1>13, <1>14, <1>15, <1>16


\* A callback, at an end where CM has already made its change.
LEMMA CallbackGood ==
  ASSUME NEW d, CmGood(d), NEW S, NEW q, QosGood(q, S), NEW node \in Node, NEW what \in Whats,
         Told(what, node, S, SettledOf(d.nodes)), NEW o \in Outcomes
  PROVE  SGood(Callback([c |-> d, q |-> q], Cbk(what, node), o))
<1>1. PICK s : s = [c |-> d, q |-> q]
  OBVIOUS
<1>2. s = [c |-> s.c, q |-> s.q] /\ s.c = d /\ s.q = q
  BY <1>1
<1>3. PICK cb : cb = Cbk(what, node)
  OBVIOUS
<1>4. cb.what = what /\ cb.node = node
  BY <1>3 DEF Cbk
<1>5. PICK T : T = SettledOf(d.nodes)
  OBVIOUS
<1>6. node.local \in Tcid /\ node.port \in Port
  BY DEF Node
<1>7. CASE what = "ESTABLISH_SUCCESS"
  <2>1. PICK w : w = ChannelAdd(q, node)
    OBVIOUS
  <2>2. QosGood(w, T)
    <3>1. S \subseteq T /\ node.local \in T /\ node.local \notin S
      BY <1>5, <1>7 DEF Told
    <3> QED BY <2>1, <3>1, ChannelAddGood
  <2>3. PICK u : u = [s EXCEPT !.q = w]
    OBVIOUS
  <2>4. SGood(u)
    BY <1>2, <1>5, <2>2, <2>3, SGoodQ
  <2>5. Callback(s, cb, o) = UpdateConnParams(u, node, "ESTABLISHED", o)
    BY <1>2, <1>4, <1>7, <2>1, <2>3 DEF Callback, EstablishRspCbk
  <2> QED BY <1>1, <1>3, <2>4, <2>5, UpdateConnParamsGood
<1>8. CASE what = "ESTABLISH_FAIL"
  <2>1. PICK w : w = Report(q, node.port, node.local, "ESTABLISH_FAIL")
    OBVIOUS
  <2>2. QosGood(w, T)
    <3>1. S \subseteq T
      BY <1>5, <1>8 DEF Told
    <3>2. QosGood(q, T)
      BY <3>1, QosMore
    <3> QED BY <1>6, <2>1, <3>2, ReportGood
  <2>3. Callback(s, cb, o) = [s EXCEPT !.q = w]
    BY <1>2, <1>4, <1>8, <2>1 DEF Callback, EstablishRspCbk
  <2> QED BY <1>1, <1>2, <1>3, <1>5, <2>2, <2>3, SGoodQ
<1>9. CASE what = "RELEASE_RSP"
  <2>1. PICK w : w = ChannelDel(q, node.local)
    OBVIOUS
  <2>2. QosGood(w, T)
    <3>1. S \ {node.local} \subseteq T
      BY <1>5, <1>9 DEF Told
    <3> QED BY <2>1, <3>1, ChannelDelGood
  <2>3. PICK u : u = [s EXCEPT !.q = w]
    OBVIOUS
  <2>4. SGood(u)
    BY <1>2, <1>5, <2>2, <2>3, SGoodQ
  <2>5. Callback(s, cb, o) = UpdateConnParams(u, node, "RELEASED", o)
    BY <1>2, <1>4, <1>9, <2>1, <2>3 DEF Callback, ReleaseRspCbk
  <2> QED BY <1>1, <1>3, <2>4, <2>5, UpdateConnParamsGood
<1>10. CASE what = "RELEASE_FAIL"
  <2>1. PICK w : w = ChannelKept(q, node.local)
    OBVIOUS
  <2>2. QosGood(w, T)
    <3>1. S \ {node.local} \subseteq T
      BY <1>5, <1>10 DEF Told
    <3> QED BY <2>1, <3>1, ChannelKeptGood
  <2>3. PICK v : v = Report(w, node.port, node.local, "RELEASE_FAIL")
    OBVIOUS
  <2>4. QosGood(v, T)
    BY <1>6, <2>2, <2>3, ReportGood
  <2>5. Callback(s, cb, o) = [s EXCEPT !.q = v]
    BY <1>2, <1>4, <1>10, <2>1, <2>3 DEF Callback, ReleaseRspCbk
  <2> QED BY <1>1, <1>2, <1>3, <1>5, <2>4, <2>5, SGoodQ
<1>11. CASE what = "CONNECTED"
  <2>1. PICK w : w = ChannelAdd(q, node)
    OBVIOUS
  <2>2. QosGood(w, T)
    <3>1. S \subseteq T /\ node.local \in T /\ node.local \notin S
      BY <1>5, <1>11 DEF Told
    <3> QED BY <2>1, <3>1, ChannelAddGood
  <2>3. QosGood(Increase(w), T)
    BY <2>2, IncreaseGood
  <2>4. PICK v : v = Report(Increase(w), node.port, node.local, "ESTABLISHED")
    OBVIOUS
  <2>5. QosGood(v, T)
    BY <1>6, <2>3, <2>4, ReportGood
  <2>6. Callback(s, cb, o) = [s EXCEPT !.q = v]
    BY <1>2, <1>4, <1>11, <2>1, <2>4 DEF Callback, IndicationCbk
  <2> QED BY <1>1, <1>2, <1>3, <1>5, <2>5, <2>6, SGoodQ
<1>12. CASE what = "DISCONNECTED"
  <2>1. PICK w : w = ChannelDel(q, node.local)
    OBVIOUS
  <2>2. QosGood(w, T)
    <3>1. S \ {node.local} \subseteq T
      BY <1>5, <1>12 DEF Told
    <3> QED BY <2>1, <3>1, ChannelDelGood
  <2>3. QosGood(Decrease(w), T)
    BY <2>2, DecreaseGood
  <2>4. PICK v : v = Report(Decrease(w), node.port, node.local, "RELEASED")
    OBVIOUS
  <2>5. QosGood(v, T)
    BY <1>6, <2>3, <2>4, ReportGood
  <2>6. Callback(s, cb, o) = [s EXCEPT !.q = v]
    BY <1>2, <1>4, <1>12, <2>1, <2>4 DEF Callback, IndicationCbk
  <2> QED BY <1>1, <1>2, <1>3, <1>5, <2>5, <2>6, SGoodQ
<1> QED BY <1>7, <1>8, <1>9, <1>10, <1>11, <1>12 DEF Whats

-----------------------------------------------------------------------------
(* The callbacks of one event, one after the other.                        *)

\* The values of the function behind Handled.
AfterStep(s, cbs, o, f, k) == IF k = 0 THEN s ELSE Callback(f[k - 1], cbs[k], o)

IsAfter(s, cbs, o, n, f) == f = [k \in 0 .. n |-> AfterStep(s, cbs, o, f, k)]

LEMMA AfterExists ==
  ASSUME NEW s, NEW cbs, NEW o, NEW n \in Nat
  PROVE  \E f : IsAfter(s, cbs, o, n, f)
<1> DEFINE Bad == {m \in Nat : ~ \E f : IsAfter(s, cbs, o, m, f)}
<1> SUFFICES ASSUME Bad # {}
             PROVE  FALSE
  OBVIOUS
<1>1. PICK m \in Bad : \A k \in Bad : m <= k
  BY LeastNumber
<1>2. m \in Nat /\ ~ \E f : IsAfter(s, cbs, o, m, f)
  OBVIOUS
<1>3. CASE m = 0
  <2> DEFINE g == [k \in 0 .. 0 |-> s]
  <2>1. g = [k \in 0 .. 0 |-> AfterStep(s, cbs, o, g, k)]
    BY DEF AfterStep
  <2> HIDE DEF g
  <2> QED BY <2>1, <1>2, <1>3 DEF IsAfter
<1>4. CASE m # 0
  <2>1. m - 1 \in Nat /\ m - 1 \notin Bad
    BY <1>1, <1>2, <1>4
  <2>2. PICK f : IsAfter(s, cbs, o, m - 1, f)
    BY <2>1
  <2> HIDE DEF Bad
  <2>3. \A k \in 0 .. m - 1 : f[k] = AfterStep(s, cbs, o, f, k)
    BY <2>2 DEF IsAfter
  <2> DEFINE g == [k \in 0 .. m |-> AfterStep(s, cbs, o, f, k)]
  <2>4. \A k \in 0 .. m - 1 : k \in 0 .. m /\ g[k] = f[k]
    BY <1>2, <2>3
  <2>5. \A k \in 0 .. m : g[k] = AfterStep(s, cbs, o, f, k)
    OBVIOUS
  <2>6. g = [k \in 0 .. m |-> g[k]]
    OBVIOUS
  <2> HIDE DEF g
  <2>7. ASSUME NEW k \in 0 .. m
        PROVE  g[k] = AfterStep(s, cbs, o, g, k)
    <3>1. CASE k = 0
      BY <3>1, <2>5 DEF AfterStep
    <3>2. CASE k # 0
      <4>1. k - 1 \in 0 .. m - 1
        BY <3>2, <1>2
      <4>2. g[k - 1] = f[k - 1]
        BY <4>1, <2>4
      <4> QED BY <4>2, <2>5 DEF AfterStep
    <3> QED BY <3>1, <3>2
  <2>8. IsAfter(s, cbs, o, m, g)
    BY <2>6, <2>7 DEF IsAfter
  <2> QED BY <2>8, <1>2
<1> QED BY <1>3, <1>4

\* f holds the end after each of the callbacks.
IsHandled(q, r, o, f) ==
    /\ Handled(q, r, o) = f[Len(r.cbs)]
    /\ f[0] = [c |-> r.c, q |-> q]
    /\ \A k \in 1 .. Len(r.cbs) : f[k] = Callback(f[k - 1], r.cbs[k], o)

LEMMA HandledIs ==
  ASSUME NEW q, NEW r, Len(r.cbs) \in Nat, NEW o
  PROVE  \E f : IsHandled(q, r, o, f)
<1>0. PICK n \in Nat : n = Len(r.cbs)
  OBVIOUS
<1>1. PICK s : s = [c |-> r.c, q |-> q]
  OBVIOUS
<1>2. PICK cbs : cbs = r.cbs
  OBVIOUS
<1> DEFINE F == CHOOSE f : IsAfter(s, cbs, o, n, f)
<1>3. Handled(q, r, o) = F[n]
  BY <1>0, <1>1, <1>2 DEF Handled, IsAfter, AfterStep
<1>4. IsAfter(s, cbs, o, n, F)
  BY AfterExists
<1> HIDE DEF F
<1>5. \A k \in 0 .. n : F[k] = AfterStep(s, cbs, o, F, k)
  BY <1>4 DEF IsAfter
<1>6. F[0] = s
  BY <1>5 DEF AfterStep
<1>7. ASSUME NEW k \in 1 .. n
      PROVE  F[k] = Callback(F[k - 1], cbs[k], o)
  <2>1. k \in 0 .. n /\ k # 0
    OBVIOUS
  <2> QED BY <1>5, <2>1 DEF AfterStep
<1>8. IsHandled(q, r, o, F)
  BY <1>0, <1>1, <1>2, <1>3, <1>6, <1>7 DEF IsHandled
<1> QED BY <1>8

\* An event of CM with its callback leaves a good end.
LEMMA HandledGood ==
  ASSUME NEW c, NEW q, EndGood(c, q), NEW r, Event(c, r), NEW o \in Outcomes
  PROVE  SGood(Handled(q, r, o))
<1>1. CmGood(r.c) /\ QosGood(q, SettledOf(c.nodes))
  BY DEF Event, EndGood
<1>2. CASE r.cbs = <<>> /\ Keeps(c, r.c)
  <2>1. Len(r.cbs) = 0
    BY <1>2
  <2>2. Handled(q, r, o) = [c |-> r.c, q |-> q]
    <3>1. Len(r.cbs) \in Nat
      BY <2>1
    <3>2. PICK f : IsHandled(q, r, o, f)
      BY <3>1, HandledIs
    <3> QED BY <2>1, <3>2 DEF IsHandled
  <2> QED BY <1>1, <1>2, <2>2, KeepsGood, SGoodIs
<1>3. ASSUME NEW node \in Node, NEW what \in Whats, r.cbs = <<Cbk(what, node)>>,
             Told(what, node, SettledOf(c.nodes), SettledOf(r.c.nodes))
      PROVE  SGood(Handled(q, r, o))
  <2>1. PICK cb : cb = Cbk(what, node)
    OBVIOUS
  <2>2. Len(r.cbs) = 1 /\ r.cbs[1] = cb
    BY <1>3, <2>1
  <2>3. Handled(q, r, o) = Callback([c |-> r.c, q |-> q], cb, o)
    <3>0. Len(r.cbs) \in Nat
      BY <2>2
    <3>1. PICK f : IsHandled(q, r, o, f)
      BY <3>0, HandledIs
    <3>2. f[1] = Callback(f[1 - 1], r.cbs[1], o) /\ 1 - 1 = 0
      BY <2>2, <3>1 DEF IsHandled
    <3> QED BY <2>2, <3>1, <3>2 DEF IsHandled
  <2>4. SGood(Callback([c |-> r.c, q |-> q], Cbk(what, node), o))
    BY <1>1, <1>3, CallbackGood
  <2> QED BY <2>1, <2>3, <2>4
<1> QED BY <1>2, <1>3 DEF Event


\* The callbacks of a lost link change only QOSM, and leave it typed.
LEMMA LostCallback ==
  ASSUME NEW s, s = [c |-> s.c, q |-> s.q], NEW S, QosGood(s.q, S), NEW node \in Node,
         NEW what \in {"ESTABLISH_FAIL", "DISCONNECTED"}, NEW o
  PROVE  /\ Callback(s, Cbk(what, node), o).c = s.c
         /\ QosGood(Callback(s, Cbk(what, node), o).q, S)
         /\ Callback(s, Cbk(what, node), o)
              = [c |-> Callback(s, Cbk(what, node), o).c, q |-> Callback(s, Cbk(what, node), o).q]
<1>1. PICK cb : cb = Cbk(what, node)
  OBVIOUS
<1>2. cb.what = what /\ cb.node = node
  BY <1>1 DEF Cbk
<1>3. node.local \in Tcid /\ node.port \in Port
  BY DEF Node
<1>4. ASSUME NEW v, QosGood(v, S), Callback(s, cb, o) = [s EXCEPT !.q = v]
      PROVE  /\ Callback(s, cb, o).c = s.c /\ QosGood(Callback(s, cb, o).q, S)
             /\ Callback(s, cb, o) = [c |-> Callback(s, cb, o).c, q |-> Callback(s, cb, o).q]
  <2>1. Callback(s, cb, o) = [c |-> s.c, q |-> v]
    BY <1>4
  <2>2. PICK r : r = Callback(s, cb, o)
    OBVIOUS
  <2>3. r.c = s.c /\ r.q = v /\ r = [c |-> r.c, q |-> r.q]
    BY <2>1, <2>2
  <2> QED BY <1>4, <2>2, <2>3
<1>5. CASE what = "ESTABLISH_FAIL"
  <2>1. PICK v : v = Report(s.q, node.port, node.local, "ESTABLISH_FAIL")
    OBVIOUS
  <2>2. QosGood(v, S)
    BY <1>3, <2>1, ReportGood
  <2>3. Callback(s, cb, o) = [s EXCEPT !.q = v]
    BY <1>2, <1>5, <2>1 DEF Callback, EstablishRspCbk
  <2> QED BY <1>1, <1>4, <2>2, <2>3
<1>6. CASE what = "DISCONNECTED"
  <2>1. PICK w : w = ChannelDel(s.q, node.local)
    OBVIOUS
  <2>2. QosGood(w, S)
    BY <2>1, ChannelDelGood
  <2>3. QosGood(Decrease(w), S)
    BY <2>2, DecreaseGood
  <2>4. PICK v : v = Report(Decrease(w), node.port, node.local, "RELEASED")
    OBVIOUS
  <2>5. QosGood(v, S)
    BY <1>3, <2>3, <2>4, ReportGood
  <2>6. Callback(s, cb, o) = [s EXCEPT !.q = v]
    BY <1>2, <1>6, <2>1, <2>4 DEF Callback, IndicationCbk
  <2> QED BY <1>1, <1>4, <2>5, <2>6
<1> QED BY <1>5, <1>6

\* What the disconnect event of the link leaves.
LEMMA LostLink ==
  ASSUME NEW c, NEW q, EndGood(c, q), NEW o
  PROVE  /\ Handled(q, LinkDisconnected(c), o).c = [CmInit EXCEPT !.nextId = c.nextId]
         /\ QosGood(Handled(q, LinkDisconnected(c), o).q, SettledOf(c.nodes))
<1>0. NodesGood(c.nodes) /\ QosGood(q, SettledOf(c.nodes)) /\ c.nodes \in Seq(Node)
  BY DEF EndGood, CmGood, CmRecord, NodesGood
<1>1. PICK S : S = SettledOf(c.nodes)
  OBVIOUS
<1>2. PICK n \in Nat : n = Len(c.nodes)
  BY <1>0, LenProperties
<1>3. PICK r : r = LinkDisconnected(c)
  OBVIOUS
<1>4. PICK d : d = [CmInit EXCEPT !.nextId = c.nextId]
  OBVIOUS
<1>5. DOMAIN c.nodes = 1 .. n
  BY <1>0, <1>2, LenProperties
<1> DEFINE what(i) == IF c.nodes[i].state = "ACTIVATING" THEN "ESTABLISH_FAIL" ELSE "DISCONNECTED"
           calls == {Cbk(w, x) : w \in Whats, x \in Node}
<1>6. /\ r.c = d
      /\ r.cbs = [i \in 1 .. n |-> IF c.nodes[i].state = "ACTIVATING"
                                   THEN Cbk("ESTABLISH_FAIL", c.nodes[i])
                                   ELSE Cbk("DISCONNECTED", c.nodes[i])]
  BY <1>3, <1>4, <1>5 DEF LinkDisconnected
<1>7. \A i \in 1 .. n : r.cbs[i] = Cbk(what(i), c.nodes[i])
  BY <1>6
<1>8. \A i \in 1 .. n : c.nodes[i] \in Node
  BY <1>0, <1>2, ElementOfSeq
<1>9. Len(r.cbs) = n
  <2>1. \A i \in 1 .. n : r.cbs[i] \in calls
    BY <1>7, <1>8 DEF Whats
  <2> HIDE DEF calls
  <2>2. r.cbs \in [1 .. n -> calls]
    BY <1>6, <2>1
  <2>3. r.cbs \in Seq(calls)
    BY <2>2, SeqDef
  <2>4. DOMAIN r.cbs = 1 .. n /\ DOMAIN r.cbs = 1 .. Len(r.cbs) /\ Len(r.cbs) \in Nat
    BY <2>2, <2>3, LenProperties
  <2> QED BY <2>4
<1>10. PICK f : IsHandled(q, r, o, f)
  BY <1>9, HandledIs
<1>11. /\ Handled(q, r, o) = f[n]
       /\ f[0] = [c |-> d, q |-> q]
       /\ \A k \in 1 .. n : f[k] = Callback(f[k - 1], r.cbs[k], o)
  BY <1>6, <1>9, <1>10 DEF IsHandled
<1> DEFINE Good(k) == f[k] = [c |-> f[k].c, q |-> f[k].q] /\ f[k].c = d /\ QosGood(f[k].q, S)
           Bad == {k \in 0 .. n : ~Good(k)}
<1>12. Good(0)
  BY <1>0, <1>1, <1>11
<1>13. ASSUME NEW k \in 1 .. n, Good(k - 1)
       PROVE  Good(k)
  <2>1. PICK s : s = f[k - 1]
    OBVIOUS
  <2>2. PICK w \in {"ESTABLISH_FAIL", "DISCONNECTED"} : w = what(k)
    OBVIOUS
  <2>3. PICK x \in Node : x = c.nodes[k]
    BY <1>8
  <2>4. f[k] = Callback(s, Cbk(w, x), o)
    BY <1>7, <1>11, <2>1, <2>2, <2>3
  <2>5. s = [c |-> s.c, q |-> s.q] /\ s.c = d /\ QosGood(s.q, S)
    BY <1>13, <2>1
  <2>6. PICK u : u = Callback(s, Cbk(w, x), o)
    OBVIOUS
  <2>7. u.c = s.c /\ QosGood(u.q, S) /\ u = [c |-> u.c, q |-> u.q]
    BY <2>5, <2>6, LostCallback
  <2> QED BY <2>4, <2>5, <2>6, <2>7
<1> HIDE DEF Good
<1>14. Bad = {}
  <2> SUFFICES ASSUME Bad # {}
               PROVE  FALSE
    OBVIOUS
  <2>1. PICK m \in Bad : \A k \in Bad : m <= k
    <3>1. Bad \in SUBSET Nat
      OBVIOUS
    <3> HIDE DEF Bad
    <3> QED BY <3>1, LeastNumber
  <2>2. m \in 0 .. n /\ ~Good(m) /\ m # 0
    BY <1>12
  <2>3. m \in 1 .. n /\ m - 1 \in 0 .. n /\ m - 1 \notin Bad
    BY <2>1, <2>2
  <2>4. Good(m - 1)
    BY <2>3
  <2> QED BY <1>13, <2>2, <2>3, <2>4
<1>15. Good(n)
  BY <1>14
<1> QED BY <1>1, <1>3, <1>4, <1>11, <1>15 DEF Good

\* QOSM_TransChannelCreateCbk.
LEMMA CreateCbkGood ==
  ASSUME NEW s, SGood(s), NEW p \in Port, NEW linked \in BOOLEAN, NEW o \in Outcomes
  PROVE  SGood(CreateCbk(s, p, linked, o))
<1>1. CmGood(s.c) /\ QosGood(s.q, SettledOf(s.c.nodes)) /\ s.q.num \in Nat
  BY DEF SGood, EndGood, QosGood, QosmRecord
<1>2. PICK est : est = EstablishReq(s.c, p, o.send)
  OBVIOUS
<1>3. est.ok \in BOOLEAN /\ Keeps(s.c, est.c)
  <2>1. o.send \in BOOLEAN
    BY DEF Outcomes
  <2> QED BY <1>1, <1>2, <2>1, EstablishReqKeeps
<1>4. PICK w : w = Report(s.q, p, NoTcid, "ESTABLISH_FAIL")
  OBVIOUS
<1>5. QosGood(w, SettledOf(s.c.nodes))
  BY <1>1, <1>4, ReportGood
<1>6. Keeps(s.c, s.c)
  BY <1>1 DEF Keeps
<1>7. QosGood(Increase(s.q), SettledOf(s.c.nodes))
  BY <1>1, IncreaseGood
<1>8. \/ CreateCbk(s, p, linked, o) = [c |-> s.c, q |-> w]
      \/ CreateCbk(s, p, linked, o) = [c |-> est.c, q |-> Increase(s.q)]
      \/ CreateCbk(s, p, linked, o) = [c |-> est.c, q |-> w]
  BY <1>2, <1>4 DEF CreateCbk
<1>9. EndGood(s.c, w) /\ EndGood(est.c, Increase(s.q)) /\ EndGood(est.c, w)
  BY <1>3, <1>5, <1>6, <1>7, KeepsGood
<1> QED BY <1>8, <1>9, SGoodIs

\* QOSM_TransChannelDestroyCbk.
LEMMA DestroyCbkGood ==
  ASSUME NEW s, SGood(s), NEW t \in Tcid, NEW linked \in BOOLEAN, NEW o \in Outcomes
  PROVE  SGood(DestroyCbk(s, t, linked, o))
<1>1. CmGood(s.c) /\ QosGood(s.q, SettledOf(s.c.nodes)) /\ s = [c |-> s.c, q |-> s.q]
  BY DEF SGood, EndGood
<1>2. PICK rel : rel = ReleaseReq(s.c, t, o.send)
  OBVIOUS
<1>3. rel.ok \in BOOLEAN /\ Keeps(s.c, rel.c)
  <2>1. o.send \in BOOLEAN
    BY DEF Outcomes
  <2> QED BY <1>1, <1>2, <2>1, ReleaseReqKeeps
<1>4. QosGood(Decrease(s.q), SettledOf(s.c.nodes))
  BY <1>1, DecreaseGood
<1>5. \/ DestroyCbk(s, t, linked, o) = s
      \/ DestroyCbk(s, t, linked, o) = [c |-> rel.c, q |-> Decrease(s.q)]
      \/ DestroyCbk(s, t, linked, o) = [s EXCEPT !.c = rel.c]
  BY <1>2 DEF DestroyCbk
<1>6. [s EXCEPT !.c = rel.c] = [c |-> rel.c, q |-> s.q]
  BY <1>1
<1>7. EndGood(rel.c, Decrease(s.q)) /\ EndGood(rel.c, s.q)
  BY <1>1, <1>3, <1>4, KeepsGood
<1> QED BY <1>5, <1>6, <1>7, SGoodIs


-----------------------------------------------------------------------------
(* The steps of the two ends.                                              *)

LEMMA PeerIs ==
  ASSUME NEW n \in End
  PROVE  Peer(n) \in End /\ Peer(n) # n
BY EndAssumption DEF End, Peer

\* What is on its way does not matter to an end.
LEMMA OutGood ==
  ASSUME NEW c, NEW q, EndGood(c, q), NEW ms \in Seq(Message)
  PROVE  EndGood([c EXCEPT !.out = ms], q)
<1>1. SameNodes(c, [c EXCEPT !.out = ms])
  BY DEF EndGood, CmGood, CmRecord, SameNodes
<1> QED BY <1>1, SameNodesKeeps, KeepsGood DEF EndGood

LEMMA EndOf ==
  ASSUME QInv, NEW n \in End
  PROVE  /\ EndGood(cm[n], qos[n]) /\ CmGood(cm[n]) /\ cm[n] \in CmRecord
         /\ qos[n] \in QosmRecord /\ QosGood(qos[n], SettledOf(cm[n].nodes))
         /\ SGood(Here(n)) /\ up[n] \in BOOLEAN
<1>1. EndGood(cm[n], qos[n]) /\ up[n] \in BOOLEAN
  BY DEF QInv, TypeOK
<1>2. SGood(Here(n))
  BY <1>1, SGoodIs DEF Here
<1> QED BY <1>1, <1>2 DEF EndGood, CmGood, QosGood

\* The variables besides the two records.
Others == up \in [End -> BOOLEAN] /\ ops \in [End -> Nat] /\ faults \in Nat

\* A step of one end.
LEMMA StepOne ==
  ASSUME QInv, NEW n \in End, NEW c, NEW q, EndGood(c, q),
         cm' = [cm EXCEPT ![n] = c], qos' = [qos EXCEPT ![n] = q], Others'
  PROVE  QInv'
<1>1. c \in CmRecord /\ q \in QosmRecord
  BY DEF EndGood, CmGood, QosGood
<1>2. cm \in [End -> CmRecord] /\ qos \in [End -> QosmRecord]
  BY DEF QInv, TypeOK
<1>3. cm' \in [End -> CmRecord] /\ qos' \in [End -> QosmRecord]
  BY <1>1, <1>2
<1>4. ASSUME NEW k \in End
      PROVE  EndGood(cm'[k], qos'[k])
  <2>1. CASE k = n
    <3>1. cm'[k] = c /\ qos'[k] = q
      BY <1>2, <2>1
    <3> QED BY <3>1
  <2>2. CASE k # n
    <3>1. cm'[k] = cm[k] /\ qos'[k] = qos[k]
      BY <1>2, <2>2
    <3> QED BY <3>1 DEF QInv
  <2> QED BY <2>1, <2>2
<1> QED BY <1>3, <1>4 DEF QInv, TypeOK, Others

\* A step of one end that takes messages of the other.
LEMMA StepTwo ==
  ASSUME QInv, NEW n \in End, NEW c, NEW q, EndGood(c, q), NEW ms \in Seq(Message),
         cm' = [cm EXCEPT ![n] = c, ![Peer(n)].out = ms], qos' = [qos EXCEPT ![n] = q], Others'
  PROVE  QInv'
<1>0. PICK m \in End : m = Peer(n) /\ m # n
  BY PeerIs
<1>1. c \in CmRecord /\ q \in QosmRecord
  BY DEF EndGood, CmGood, QosGood
<1>2. cm \in [End -> CmRecord] /\ qos \in [End -> QosmRecord]
  BY DEF QInv, TypeOK
<1>3. PICK d : d = [cm[m] EXCEPT !.out = ms]
  OBVIOUS
<1>4. EndGood(d, qos[m])
  BY <1>3, EndOf, OutGood
<1>5. d \in CmRecord
  BY <1>4 DEF EndGood, CmGood
<1>6. cm' = [[cm EXCEPT ![n] = c] EXCEPT ![m] = d]
  BY <1>0, <1>2, <1>3
<1>7. cm' \in [End -> CmRecord] /\ qos' \in [End -> QosmRecord]
  BY <1>1, <1>2, <1>5, <1>6
<1>8. ASSUME NEW k \in End
      PROVE  EndGood(cm'[k], qos'[k])
  <2>1. CASE k = n
    <3>1. cm'[k] = c /\ qos'[k] = q
      BY <1>0, <1>2, <1>6, <2>1
    <3> QED BY <3>1
  <2>2. CASE k # n
    <3>1. k = m
      BY <1>0, <2>2 DEF End
    <3>2. cm'[k] = d /\ qos'[k] = qos[m]
      BY <1>0, <1>2, <1>6, <2>2, <3>1
    <3> QED BY <1>4, <3>2
  <2> QED BY <2>1, <2>2
<1> QED BY <1>7, <1>8 DEF QInv, TypeOK, Others

\* Becomes with a good end.
LEMMA BecomesGood ==
  ASSUME QInv, NEW n \in End, NEW s, SGood(s), Becomes(n, s), Others'
  PROVE  QInv'
<1>1. EndGood(s.c, s.q)
  BY DEF SGood
<1>2. PICK d : d = IF up[Peer(n)] THEN s.c ELSE [s.c EXCEPT !.out = <<>>]
  OBVIOUS
<1>3. EndGood(d, s.q)
  <2>1. <<>> \in Seq(Message)
    OBVIOUS
  <2> QED BY <1>1, <1>2, <2>1, OutGood
<1>4. cm' = [cm EXCEPT ![n] = d] /\ qos' = [qos EXCEPT ![n] = s.q]
  BY <1>2 DEF Becomes
<1> QED BY <1>3, <1>4, StepOne

LEMMA ChosenOthers ==
  ASSUME QInv, NEW o, Chosen(o), UNCHANGED <<up, ops>>
  PROVE  Others'
BY DEF QInv, TypeOK, Chosen, Others

LEMMA InitQInv == Init => QInv
<1> SUFFICES ASSUME Init
             PROVE  QInv
  OBVIOUS
<1>0. PICK c : c = CmInit
  OBVIOUS
<1>1. CmGood(c)
  <2>1. c \in CmRecord
    BY <1>0, IdAssumption DEF CmInit, CmRecord, Ids
  <2>2. c.nodes = <<>> /\ c.used = {}
    BY <1>0 DEF CmInit
  <2>3. Distinct(<<>>) /\ LocalsOf(<<>>) = {}
    BY DEF Distinct, LocalsOf
  <2> QED BY <2>1, <2>2, <2>3 DEF CmGood
<1>2. PICK q : q = QosmInit
  OBVIOUS
<1>3. QosGood(q, SettledOf(c.nodes))
  <2>1. q \in QosmRecord
    <3>1. [p \in Port |-> [state |-> "INVALID_STATE", tcid |-> NoTcid]]
            \in [Port -> [state : AppStates, tcid : Tcid \cup {NoTcid}]]
      BY DEF AppStates
    <3>2. PICK a \in [Port -> [state : AppStates, tcid : Tcid \cup {NoTcid}]] :
            a = [p \in Port |-> [state |-> "INVALID_STATE", tcid |-> NoTcid]]
      BY <3>1
    <3>3. q = [list |-> <<>>, num |-> 0, slqi |-> FALSE, tune |-> NoTune, tasks |-> <<>>, app |-> a]
      BY <1>2, <3>2 DEF QosmInit
    <3>4. PICK tn \in Tuning \cup {NoTune} : tn = NoTune
      OBVIOUS
    <3> QED BY <3>3, <3>4 DEF QosmRecord
  <2>2. q.list = <<>>
    BY <1>2 DEF QosmInit
  <2> QED BY <2>1, <2>2 DEF QosGood, ListGood
<1>4. EndGood(c, q)
  BY <1>1, <1>3 DEF EndGood
<1>5. c \in CmRecord /\ q \in QosmRecord
  BY <1>1, <1>3 DEF CmGood, QosGood
<1>6. cm = [n \in End |-> c] /\ qos = [n \in End |-> q]
  BY <1>0, <1>2 DEF Init
<1>7. up \in [End -> BOOLEAN] /\ ops \in [End -> Nat] /\ faults \in Nat
  BY DEF Init
<1>8. cm \in [End -> CmRecord] /\ qos \in [End -> QosmRecord]
  BY <1>5, <1>6
<1>9. \A n \in End : cm[n] = c /\ qos[n] = q
  BY <1>6
<1> QED BY <1>4, <1>7, <1>8, <1>9 DEF QInv, TypeOK

LEMMA ConnectGood ==
  ASSUME QInv, NEW n \in End, NEW p \in Port, Connect(n, p)
  PROVE  QInv'
<1>1. QosGood(qos[n], SettledOf(cm[n].nodes)) /\ qos[n] \in QosmRecord /\ CmGood(cm[n])
  BY EndOf
<1>2. PICK x : x = [state |-> "CONNECTING", tcid |-> NoTcid]
  OBVIOUS
<1>3. x \in App
  BY <1>2 DEF App, AppStates
<1>4. PICK w : w = [qos[n] EXCEPT !.app[p] = x]
  OBVIOUS
<1>5. QosGood(w, SettledOf(cm[n].nodes))
  BY <1>1, <1>3, <1>4, AppOneGood
<1>6. PICK t \in Task : t = [what |-> "CREATE", port |-> p]
  BY DEF Task
<1>7. PICK ts \in Seq(Task) : ts = Append(qos[n].tasks, t)
  BY <1>1, AppendIs DEF QosmRecord
<1>8. PICK q : q = [w EXCEPT !.tasks = ts]
  OBVIOUS
<1>9. EndGood(cm[n], q)
  BY <1>1, <1>5, <1>8, TasksGood DEF EndGood
<1>10. qos' = [qos EXCEPT ![n] = q]
  <2>1. qos' = [qos EXCEPT ![n].app[p] = x, ![n].tasks = Append(@, t)]
    BY <1>2, <1>6 DEF Connect
  <2>2. qos \in [End -> QosmRecord]
    BY DEF QInv, TypeOK
  <2>3. q = [qos[n] EXCEPT !.app[p] = x, !.tasks = Append(@, t)]
    BY <1>1, <1>4, <1>7, <1>8 DEF QosmRecord
  <2> QED BY <2>1, <2>2, <2>3
<1>11. cm' = [cm EXCEPT ![n] = cm[n]]
  BY DEF Connect, QInv, TypeOK
<1>12. Others'
  BY DEF Connect, QInv, TypeOK, Others
<1> QED BY <1>9, <1>10, <1>11, <1>12, StepOne

LEMMA DisconnectGood ==
  ASSUME QInv, NEW n \in End, NEW p \in Port, Disconnect(n, p)
  PROVE  QInv'
<1>1. QosGood(qos[n], SettledOf(cm[n].nodes)) /\ qos[n] \in QosmRecord /\ CmGood(cm[n])
  BY EndOf
<1>2. qos[n].app[p] \in App /\ qos[n].app \in [Port -> App]
  BY <1>1 DEF QosmRecord, App
<1>3. PICK x : x = [qos[n].app[p] EXCEPT !.state = "DISCONNECTING"]
  OBVIOUS
<1>4. x \in App
  BY <1>2, <1>3 DEF App, AppStates
<1>5. PICK w : w = [qos[n] EXCEPT !.app[p] = x]
  OBVIOUS
<1>6. QosGood(w, SettledOf(cm[n].nodes))
  BY <1>1, <1>4, <1>5, AppOneGood
<1>7. PICK t \in Tcid \cup {NoTcid} : t = qos[n].app[p].tcid
  BY <1>2 DEF App
<1>8. PICK ds : ds = IF t = NoTcid THEN <<>> ELSE <<[what |-> "DESTROY", tcid |-> t]>>
  OBVIOUS
<1>9. PICK ts \in Seq(Task) : ts = qos[n].tasks \o ds
  <2>1. ds \in Seq(Task)
    <3>1. CASE t = NoTcid
      BY <1>8, <3>1
    <3>2. CASE t # NoTcid
      <4>1. PICK x1 \in Task : x1 = [what |-> "DESTROY", tcid |-> t]
        BY <3>2 DEF Task
      <4>2. ds = <<x1>>
        BY <1>8, <3>2, <4>1
      <4> QED BY <4>2
    <3> QED BY <3>1, <3>2
  <2>2. PICK us \in Seq(Task) : us = qos[n].tasks
    BY <1>1 DEF QosmRecord
  <2>3. us \o ds \in Seq(Task)
    BY <2>1, ConcatProperties
  <2> QED BY <2>2, <2>3
<1>10. PICK q : q = [w EXCEPT !.tasks = ts]
  OBVIOUS
<1>11. EndGood(cm[n], q)
  BY <1>1, <1>6, <1>10, TasksGood DEF EndGood
<1>12. qos' = [qos EXCEPT ![n] = q]
  <2>1. qos' = [qos EXCEPT ![n].app[p].state = "DISCONNECTING", ![n].tasks = @ \o ds]
    BY <1>7, <1>8 DEF Disconnect
  <2>2. qos \in [End -> QosmRecord]
    BY DEF QInv, TypeOK
  <2>3. q = [qos[n] EXCEPT !.app[p].state = "DISCONNECTING", !.tasks = @ \o ds]
    BY <1>1, <1>3, <1>5, <1>9, <1>10 DEF QosmRecord
  <2> QED BY <2>1, <2>2, <2>3
<1>13. cm' = [cm EXCEPT ![n] = cm[n]]
  BY DEF Disconnect, QInv, TypeOK
<1>14. Others'
  BY DEF Disconnect, QInv, TypeOK, Others
<1> QED BY <1>11, <1>12, <1>13, <1>14, StepOne


LEMMA RunTaskGood ==
  ASSUME QInv, NEW n \in End, RunTask(n)
  PROVE  QInv'
<1>1. PICK o \in Outcomes :
        /\ Chosen(o)
        /\ LET t == Head(qos[n].tasks)
               s == [Here(n) EXCEPT !.q.tasks = Tail(@)]
           IN  Becomes(n, IF t.what = "CREATE" THEN CreateCbk(s, t.port, up[n], o)
                          ELSE DestroyCbk(s, t.tcid, up[n], o))
  BY DEF RunTask
<1>2. /\ QosGood(qos[n], SettledOf(cm[n].nodes)) /\ qos[n] \in QosmRecord
      /\ CmGood(cm[n]) /\ up[n] \in BOOLEAN
  BY EndOf
<1>3. qos[n].tasks \in Seq(Task) /\ qos[n].tasks # <<>>
  BY <1>2 DEF QosmRecord, RunTask
<1>4. PICK t \in Task : t = Head(qos[n].tasks)
  BY <1>3, HeadTailProperties
<1>5. PICK ts \in Seq(Task) : ts = Tail(qos[n].tasks)
  BY <1>3, HeadTailProperties
<1>6. PICK q : q = [qos[n] EXCEPT !.tasks = ts]
  OBVIOUS
<1>7. EndGood(cm[n], q)
  BY <1>2, <1>6, TasksGood DEF EndGood
<1>8. PICK s : s = [c |-> cm[n], q |-> q]
  OBVIOUS
<1>9. s = [Here(n) EXCEPT !.q.tasks = Tail(@)]
  <2>1. PICK w : w = qos[n]
    OBVIOUS
  <2>2. Here(n) = [c |-> cm[n], q |-> w]
    BY <2>1 DEF Here
  <2>3. [Here(n) EXCEPT !.q.tasks = Tail(@)] = [Here(n) EXCEPT !.q = [w EXCEPT !.tasks = Tail(@)]]
    BY <2>2
  <2>4. q = [w EXCEPT !.tasks = Tail(@)]
    BY <1>5, <1>6, <2>1
  <2>5. [Here(n) EXCEPT !.q = q] = [c |-> cm[n], q |-> q]
    BY <2>2
  <2> QED BY <1>8, <2>3, <2>4, <2>5
<1>10. SGood(s)
  BY <1>7, <1>8, SGoodIs
<1>11. PICK r : r = IF t.what = "CREATE" THEN CreateCbk(s, t.port, up[n], o)
                    ELSE DestroyCbk(s, t.tcid, up[n], o)
  OBVIOUS
<1>12. Becomes(n, r)
  BY <1>1, <1>4, <1>9, <1>11
<1>13. SGood(r)
  <2>1. CASE t.what = "CREATE"
    <3>1. t.port \in Port
      BY <2>1 DEF Task
    <3>2. r = CreateCbk(s, t.port, up[n], o)
      BY <1>11, <2>1
    <3> QED BY <1>2, <1>10, <3>1, <3>2, CreateCbkGood
  <2>2. CASE t.what # "CREATE"
    <3>1. t.tcid \in Tcid
      BY <2>2 DEF Task
    <3>2. r = DestroyCbk(s, t.tcid, up[n], o)
      BY <1>11, <2>2
    <3> QED BY <1>2, <1>10, <3>1, <3>2, DestroyCbkGood
  <2> QED BY <2>1, <2>2
<1>14. Others'
  BY <1>1, ChosenOthers DEF RunTask
<1> QED BY <1>12, <1>13, <1>14, BecomesGood

LEMMA RecvGood ==
  ASSUME QInv, NEW n \in End, Recv(n)
  PROVE  QInv'
<1>0. Peer(n) \in End
  BY PeerIs
<1>1. PICK m : m = Head(cm[Peer(n)].out)
  OBVIOUS
<1>2. PICK o \in Outcomes :
        /\ Chosen(o)
        /\ LET s == Handled(qos[n], RecvSignaling(cm[n], m, m.port \in Registered[n], o), o)
           IN  /\ cm' = [cm EXCEPT ![n] = s.c, ![Peer(n)].out = Tail(@)]
               /\ qos' = [qos EXCEPT ![n] = s.q]
  BY <1>1 DEF Recv
<1>3. EndGood(cm[n], qos[n]) /\ CmGood(cm[n]) /\ cm[Peer(n)] \in CmRecord
  BY <1>0, EndOf
<1>4. cm[Peer(n)].out \in Seq(Message) /\ cm[Peer(n)].out # <<>>
  BY <1>3 DEF CmRecord, Recv
<1>5. m \in Message
  BY <1>1, <1>4, HeadTailProperties
<1>6. PICK ms \in Seq(Message) : ms = Tail(cm[Peer(n)].out)
  BY <1>4, HeadTailProperties
<1>7. PICK valid \in BOOLEAN : valid = (m.port \in Registered[n])
  <2>1. PICK P : P = Registered[n]
    OBVIOUS
  <2>2. PICK p : p = m.port
    OBVIOUS
  <2>3. (p \in P) \in BOOLEAN
    OBVIOUS
  <2> QED BY <2>1, <2>2, <2>3
<1>8. PICK r : r = RecvSignaling(cm[n], m, valid, o)
  OBVIOUS
<1>9. Event(cm[n], r)
  BY <1>3, <1>5, <1>8, RecvSignalingEvent
<1>10. PICK s : s = Handled(qos[n], r, o)
  OBVIOUS
<1>11. SGood(s)
  BY <1>3, <1>9, <1>10, HandledGood
<1>12. EndGood(s.c, s.q)
  BY <1>11 DEF SGood
<1>13. cm' = [cm EXCEPT ![n] = s.c, ![Peer(n)].out = Tail(@)] /\ qos' = [qos EXCEPT ![n] = s.q]
  BY <1>2, <1>7, <1>8, <1>10
<1>14. cm' = [cm EXCEPT ![n] = s.c, ![Peer(n)].out = ms]
  <2>1. [cm EXCEPT ![n] = s.c][Peer(n)] = cm[Peer(n)]
    BY PeerIs DEF QInv, TypeOK
  <2> QED BY <1>6, <1>13, <2>1
<1>15. Others'
  BY <1>2, ChosenOthers DEF Recv
<1> QED BY <1>12, <1>13, <1>14, <1>15, StepTwo

\* The result of an answer under way does not matter to the end that sent it.
LEMMA RefuseReleaseGood ==
  ASSUME QInv, NEW n \in End, RefuseRelease(n)
  PROVE  QInv'
<1>1. EndGood(cm[n], qos[n]) /\ cm[n] \in CmRecord
  BY EndOf
<1>2. cm[n].out \in Seq(Message) /\ cm[n].out # <<>>
  BY <1>1 DEF CmRecord, RefuseRelease
<1>3. PICK m \in Message : m = Head(cm[n].out)
  BY <1>2, HeadTailProperties
<1>4. PICK x : x = [m EXCEPT !.ok = FALSE]
  OBVIOUS
<1>5. x \in Message
  BY <1>4 DEF Message
<1>6. PICK rest \in Seq(Message) : rest = Tail(cm[n].out)
  BY <1>2, HeadTailProperties
<1>7. PICK ms \in Seq(Message) : ms = <<x>> \o rest
  <2>1. <<x>> \in Seq(Message)
    BY <1>5
  <2>2. <<x>> \o rest \in Seq(Message)
    BY <2>1, ConcatProperties
  <2> QED BY <2>2, Zenon
<1>8. PICK c : c = [cm[n] EXCEPT !.out = ms]
  OBVIOUS
<1>9. EndGood(c, qos[n])
  BY <1>1, <1>8, OutGood
<1>10. cm' = [cm EXCEPT ![n] = c] /\ qos' = [qos EXCEPT ![n] = qos[n]]
  <2>1. cm \in [End -> CmRecord] /\ qos \in [End -> QosmRecord]
    BY DEF QInv, TypeOK
  <2>2. cm' = [cm EXCEPT ![n].out = ms] /\ qos' = qos
    BY <1>3, <1>4, <1>6, <1>7 DEF RefuseRelease
  <2> QED BY <1>8, <2>1, <2>2
<1>11. Others'
  BY DEF RefuseRelease, QInv, TypeOK, Others
<1> QED BY <1>9, <1>10, <1>11, StepOne

LEMMA TimeoutGood ==
  ASSUME QInv, NEW n \in End, Timeout(n)
  PROVE  QInv'
<1>1. PICK o \in Outcomes :
        Chosen(o) /\ Becomes(n, Handled(qos[n], SignalingTimeout(cm[n]), o))
  BY DEF Timeout
<1>2. EndGood(cm[n], qos[n]) /\ CmGood(cm[n])
  BY EndOf
<1>3. PICK r : r = SignalingTimeout(cm[n])
  OBVIOUS
<1>4. Event(cm[n], r)
  BY <1>2, <1>3, SignalingTimeoutEvent DEF Timeout
<1>5. PICK s : s = Handled(qos[n], r, o)
  OBVIOUS
<1>6. SGood(s)
  BY <1>2, <1>4, <1>5, HandledGood
<1>7. Becomes(n, s)
  BY <1>1, <1>3, <1>5
<1>8. Others'
  BY <1>1, ChosenOthers DEF Timeout
<1> QED BY <1>6, <1>7, <1>8, BecomesGood

LEMMA TuningRspGood ==
  ASSUME QInv, NEW n \in End, TuningRsp(n)
  PROVE  QInv'
<1>1. QosGood(qos[n], SettledOf(cm[n].nodes)) /\ qos[n] \in QosmRecord /\ CmGood(cm[n])
  BY EndOf
<1>2. PICK tn \in Tuning : tn = qos[n].tune
  BY <1>1 DEF QosmRecord, TuningRsp
<1>3. PICK T : T = SettledOf(cm[n].nodes)
  OBVIOUS
<1>4. PICK i : i = CHOOSE k \in DOMAIN Phases : Phases[k] = tn.phase
  OBVIOUS
<1>5. i \in 1 .. 3
  <2>1. DOMAIN Phases = 1 .. 3 /\ Phases[1] = "CONN" /\ Phases[2] = "PHY" /\ Phases[3] = "MCS"
    BY DEF Phases
  <2>2. tn.phase \in {"CONN", "PHY", "MCS"}
    BY DEF Tuning
  <2>3. \E k \in DOMAIN Phases : Phases[k] = tn.phase
    BY <2>1, <2>2
  <2> QED BY <1>4, <2>1, <2>3
<1>6. PICK q : q = [[qos[n] EXCEPT !.slqi = tn.slqi] EXCEPT !.tune = NoTune]
  OBVIOUS
<1>7. QosGood(q, T)
  <2>1. tn.slqi \in BOOLEAN
    BY DEF Tuning
  <2>2. QosGood([qos[n] EXCEPT !.slqi = tn.slqi], T)
    BY <1>1, <1>3, <2>1, SlqiGood
  <2> QED BY <1>6, <2>2, TuneGood
<1>8. PICK ph : ph = Phases[i + 1]
  OBVIOUS
<1>9. PICK u : u = [tn EXCEPT !.phase = ph]
  OBVIOUS
<1>10. PICK w : w = IF i < Len(Phases) THEN [qos[n] EXCEPT !.tune = u]
                    ELSE Report(q, tn.port, tn.tcid, tn.status)
  OBVIOUS
<1>11. QosGood(w, T)
  <2>1. Len(Phases) = 3
    BY DEF Phases
  <2>2. CASE i < 3
    <3>1. ph \in {"CONN", "PHY", "MCS"}
      BY <1>5, <1>8, <2>2 DEF Phases
    <3>2. u \in Tuning
      BY <1>9, <3>1 DEF Tuning
    <3>3. w = [qos[n] EXCEPT !.tune = u]
      BY <1>10, <2>1, <2>2
    <3> QED BY <1>1, <1>3, <3>2, <3>3, TuneGood
  <2>3. CASE ~(i < 3)
    <3>1. w = Report(q, tn.port, tn.tcid, tn.status)
      BY <1>10, <2>1, <2>3
    <3>2. tn.port \in Port /\ tn.tcid \in Tcid \cup {NoTcid}
      BY DEF Tuning
    <3> QED BY <1>7, <3>1, <3>2, ReportGood
  <2> QED BY <2>2, <2>3
<1>12. EndGood(cm[n], w)
  BY <1>1, <1>3, <1>11 DEF EndGood
<1>13. qos' = [qos EXCEPT ![n] = w]
  <2>1. q = [qos[n] EXCEPT !.slqi = tn.slqi, !.tune = NoTune]
    BY <1>6
  <2>2. [qos[n] EXCEPT !.tune.phase = Phases[i + 1]] = [qos[n] EXCEPT !.tune = u]
    BY <1>2, <1>8, <1>9
  <2>3. qos' = [qos EXCEPT ![n] =
                  IF i < Len(Phases) THEN [@ EXCEPT !.tune.phase = Phases[i + 1]]
                  ELSE Report(q, tn.port, tn.tcid, tn.status)]
    BY <1>2, <1>4, <2>1 DEF TuningRsp
  <2> QED BY <1>10, <2>2, <2>3
<1>14. cm' = [cm EXCEPT ![n] = cm[n]]
  BY DEF TuningRsp, QInv, TypeOK
<1>15. Others'
  BY DEF TuningRsp, QInv, TypeOK, Others
<1> QED BY <1>12, <1>13, <1>14, <1>15, StepOne

LEMMA TuningFailGood ==
  ASSUME QInv, NEW n \in End, TuningFail(n)
  PROVE  QInv'
<1>1. PICK o \in Outcomes : Chosen(o) /\ Becomes(n, TuningFailed(Here(n), qos[n].tune, o))
  BY DEF TuningFail
<1>2. qos[n] \in QosmRecord /\ SGood(Here(n))
  BY EndOf
<1>3. PICK tn \in Tuning : tn = qos[n].tune
  BY <1>2 DEF QosmRecord, TuningFail
<1>4. PICK s : s = TuningFailed(Here(n), tn, o)
  OBVIOUS
<1>5. SGood(s)
  BY <1>2, <1>4, TuningFailedGood
<1>6. Becomes(n, s)
  BY <1>1, <1>3, <1>4
<1>7. Others'
  BY <1>1, ChosenOthers DEF TuningFail
<1> QED BY <1>5, <1>6, <1>7, BecomesGood

LEMMA LinkDownGood ==
  ASSUME QInv, NEW n \in End, LinkDown(n)
  PROVE  QInv'
<1>1. EndGood(cm[n], qos[n]) /\ cm[n] \in CmRecord
  BY EndOf
<1>2. PICK s : s = Handled(qos[n], LinkDisconnected(cm[n]), Fine)
  OBVIOUS
<1>3. PICK S : S = SettledOf(cm[n].nodes)
  OBVIOUS
<1>4. s.c = [CmInit EXCEPT !.nextId = cm[n].nextId] /\ QosGood(s.q, S)
  BY <1>1, <1>2, <1>3, LostLink
<1>5. CmGood(s.c)
  <2>1. PICK k \in Ids : k = cm[n].nextId
    BY <1>1 DEF CmRecord
  <2>2. PICK d : d = [nodes |-> <<>>, used |-> {}, pend |-> <<>>, nextId |-> k, out |-> <<>>]
    OBVIOUS
  <2>3. s.c = d
    BY <1>4, <2>1, <2>2 DEF CmInit
  <2>4. d \in CmRecord /\ d.nodes = <<>> /\ d.used = {}
    BY <2>2 DEF CmRecord
  <2>5. Distinct(<<>>) /\ LocalsOf(<<>>) = {}
    BY DEF Distinct, LocalsOf
  <2> QED BY <2>3, <2>4, <2>5 DEF CmGood
<1>6. PICK q1 : q1 = [s.q EXCEPT !.list = <<>>]
  OBVIOUS
<1>7. PICK T : T = SettledOf(s.c.nodes)
  OBVIOUS
<1>8. QosGood(q1, T)
  <2>1. <<>> \in Seq(Entry) /\ ListGood(<<>>, T)
    BY DEF ListGood
  <2> QED BY <1>4, <1>6, <2>1, ListIsGood
<1>9. PICK q2 : q2 = [q1 EXCEPT !.num = 0]
  OBVIOUS
<1>10. QosGood(q2, T)
  BY <1>8, <1>9, NumGood
<1>11. PICK q3 : q3 = [q2 EXCEPT !.slqi = FALSE]
  OBVIOUS
<1>12. QosGood(q3, T)
  BY <1>10, <1>11, SlqiGood
<1>13. PICK q : q = [q3 EXCEPT !.tune = NoTune]
  OBVIOUS
<1>14. QosGood(q, T)
  BY <1>12, <1>13, TuneGood
<1>15. q = [s.q EXCEPT !.list = <<>>, !.num = 0, !.slqi = FALSE, !.tune = NoTune]
  BY <1>6, <1>9, <1>11, <1>13
<1>16. EndGood(s.c, q)
  BY <1>5, <1>7, <1>14 DEF EndGood
<1>17. PICK ms \in Seq(Message) : ms = <<>>
  <2>1. <<>> \in Seq(Message)
    OBVIOUS
  <2> QED BY <2>1, Zenon
<1>18. cm' = [cm EXCEPT ![n] = s.c, ![Peer(n)].out = ms] /\ qos' = [qos EXCEPT ![n] = q]
  BY <1>2, <1>15, <1>17 DEF LinkDown
<1>19. Others'
  BY DEF LinkDown, QInv, TypeOK, Others
<1> QED BY <1>16, <1>18, <1>19, StepTwo

LEMMA LinkUpGood ==
  ASSUME QInv, LinkUp
  PROVE  QInv'
BY DEF LinkUp, QInv, TypeOK

\* QInv is kept by every step.
LEMMA QInvStep == QInv /\ [Next]_vars => QInv'
<1> SUFFICES ASSUME QInv, [Next]_vars
             PROVE  QInv'
  OBVIOUS
<1>1. ASSUME NEW n \in End, NEW p \in Port, Connect(n, p) \/ Disconnect(n, p)
      PROVE  QInv'
  BY <1>1, ConnectGood, DisconnectGood
<1>2. ASSUME NEW n \in End, RunTask(n) \/ Recv(n) \/ Timeout(n)
      PROVE  QInv'
  BY <1>2, RunTaskGood, RecvGood, TimeoutGood
<1>3. ASSUME NEW n \in End, TuningRsp(n) \/ TuningFail(n)
      PROVE  QInv'
  BY <1>3, TuningRspGood, TuningFailGood
<1>4. ASSUME NEW n \in End, RefuseRelease(n) \/ LinkDown(n)
      PROVE  QInv'
  BY <1>4, RefuseReleaseGood, LinkDownGood
<1>5. CASE LinkUp
  BY <1>5, LinkUpGood
<1>6. CASE UNCHANGED vars
  BY <1>6 DEF vars, QInv, TypeOK
<1> QED BY <1>1, <1>2, <1>3, <1>4, <1>5, <1>6 DEF Next

\* QInv holds of the two ends in every reachable state.
THEOREM QInvAlways == Spec => []QInv
BY InitQInv, QInvStep, PTL DEF Spec

\* Every variable of the two ends keeps its type, whatever the ports, the tcids and
\* the number of identifiers: no callback of CM hands QOSM a channel, a tcid or a
\* state that the records cannot hold.
THEOREM TypeCorrect == Spec => []TypeOK
<1>1. QInv => TypeOK
  BY DEF QInv
<1> QED BY <1>1, QInvAlways, PTL

\* The tcid pool and the channel list of CM agree in every reachable state, for any
\* number of channels: no tcid is leaked and none belongs to two channels.
THEOREM PoolAlwaysMatches == Spec => []PoolMatchesChannels
<1>1. ASSUME QInv
      PROVE  PoolMatchesChannels
  <2> SUFFICES ASSUME NEW n \in End
               PROVE  /\ cm[n].used = Locals(n)
                      /\ IsInjective([i \in DOMAIN cm[n].nodes |-> cm[n].nodes[i].local])
    BY DEF PoolMatchesChannels
  <2>1. CmGood(cm[n]) /\ cm[n].nodes \in Seq(Node)
    BY <1>1, EndOf DEF CmRecord
  <2>2. DOMAIN cm[n].nodes = 1 .. Len(cm[n].nodes)
    BY <2>1, LenProperties
  <2>3. cm[n].used = Locals(n)
    BY <2>1, <2>2 DEF CmGood, LocalsOf, Locals
  <2>4. IsInjective([i \in DOMAIN cm[n].nodes |-> cm[n].nodes[i].local])
    BY <2>1, <2>2 DEF CmGood, Distinct, IsInjective
  <2> QED BY <2>3, <2>4
<1> QED BY <1>1, QInvAlways, PTL

\* QOSM lists no channel twice and none that CM has freed, but for what refused
\* releases left, although callbacks, tuning and the releases of the two ends cross
\* and a leftover may have the tcid of a later channel.
THEOREM NoEntryEverStale == Spec => []NoStaleQosEntry
<1>1. ASSUME QInv
      PROVE  NoStaleQosEntry
  <2> SUFFICES ASSUME NEW n \in End, NEW i \in DOMAIN qos[n].list, ~qos[n].list[i].refused
               PROVE  /\ qos[n].list[i].tcid \in Locals(n)
                      /\ \A j \in DOMAIN qos[n].list :
                            qos[n].list[j].tcid = qos[n].list[i].tcid
                              => j = i \/ qos[n].list[j].refused
    BY DEF NoStaleQosEntry
  <2>1. /\ QosGood(qos[n], SettledOf(cm[n].nodes)) /\ qos[n].list \in Seq(Entry)
        /\ cm[n].nodes \in Seq(Node)
    BY <1>1, EndOf DEF QosmRecord, CmRecord
  <2>2. DOMAIN qos[n].list = 1 .. Len(qos[n].list) /\ Len(qos[n].list) \in Nat
    BY <2>1, LenProperties
  <2>3. LocalsOf(cm[n].nodes) = Locals(n)
    BY <2>1, LenProperties DEF LocalsOf, Locals
  <2>4. qos[n].list[i].tcid \in Locals(n)
    BY <2>1, <2>2, <2>3, SettledIsLocal DEF QosGood, ListGood
  <2>5. ASSUME NEW j \in DOMAIN qos[n].list, qos[n].list[j].tcid = qos[n].list[i].tcid
        PROVE  j = i \/ qos[n].list[j].refused
    <3>1. i \in Int /\ j \in Int
      BY <2>2
    <3>2. CASE j < i
      BY <2>1, <2>2, <2>5, <3>2 DEF QosGood, ListGood
    <3>3. CASE i < j
      BY <2>1, <2>2, <2>5, <3>3 DEF QosGood, ListGood
    <3> QED BY <3>1, <3>2, <3>3
  <2> QED BY <2>4, <2>5
<1> QED BY <1>1, QInvAlways, PTL

=============================================================================
