------------------------ MODULE DtapSchedulerProofs ------------------------
(***************************************************************************)
(* The send scheduler of DTAP, for any number of links, channels, packets, *)
(* fragments, buffers, failures, releases and lost links.                  *)
(*                                                                         *)
(* The counters of the scheduler are sums over what waits or is under way. *)
(* The first part proves what the sums of module Functions are and how     *)
(* they change with one summand; the second what the filter of the lists   *)
(* returns.  Then come the queues, and then the steps.                     *)
(***************************************************************************)
EXTENDS DtapScheduler, NaturalsInduction, WellFoundedInduction, SequenceTheorems,
        FiniteSetTheorems, TLAPS

\* The channels of queue p and link l.
Members(p, l) == {c \in QueueChan : LinkOf(c) = l /\ QueueOf(c) = p}

\* A channel is on no list but that of its queue and its link, and one with packets is on
\* it, and its link on the list of the queue.
Placed(s) ==
    /\ \A p \in Priority, l \in Lcid : Range(s.channelList[p][l]) \subseteq Members(p, l)
    /\ \A c \in QueueChan : s.pktList[c] # <<>> =>
          /\ c \in Range(s.channelList[QueueOf(c)][LinkOf(c)])
          /\ LinkOf(c) \in Range(s.lcidList[QueueOf(c)])

\* The packets that wait, channel by channel, and their number for queue p and link l.
Lengths(s) == [c \in QueueChan |-> Len(s.pktList[c])]
Waits(s, p, l) == SumFunctionOnSet(Lengths(s), Members(p, l))
WaitsFor(s, l) == SumFunction([p \in Priority |-> Waits(s, p, l)])

\* The counters are exact; the buffer node of a link that is not connected counts nothing.
Counted(s, links) ==
    /\ \A p \in Priority : s.pktCnt[p] = SumFunction(s.lcidPktCnt[p])
    /\ \A p \in Priority, l \in Lcid : s.lcidPktCnt[p][l] = Waits(s, p, l)
    /\ \A l \in Lcid : s.queuedPktCnt[l] = IF l \in links THEN WaitsFor(s, l) ELSE 0

\* Only a channel that exists has packets, and the fragments of a link belong to one.
OnlyUp(s, U) ==
    /\ \A c \in Chan : s.pktList[c] # <<>> => c \in U
    /\ \A l \in Lcid : s.pktList[l] # <<>> => U \cap ChannelsOf(l) # {}

Queues ==
    /\ Placed(sched) /\ Counted(sched, Range(bufferList)) /\ OnlyUp(sched, up)
    /\ \A c \in up : Connected(LcidOf[c])

IInv ==
    /\ TypeOK
    /\ run.at = "lcid" => run.priority \in Priority
    /\ CreditsMatchController
    /\ Queues

\* Nothing of link l waits in queue q.
Clear(s, q, l) == \A c \in Members(q, l) : s.pktList[c] = <<>>

\* While the scheduler runs, the queues and the links of this queue that it has passed have
\* nothing that could be sent.
Passed ==
    /\ run.at # "idle" =>
          \A q \in Priority, l \in Lcid : q < run.priority /\ CanSend(l) => Clear(sched, q, l)
    /\ run.at = "lcid" =>
          \A i \in 1 .. Len(sched.lcidList[run.priority]) :
             i < run.pos /\ CanSend(sched.lcidList[run.priority][i]) =>
                Clear(sched, run.priority, sched.lcidList[run.priority][i])

\* The fragment channels hold fragments and the others whole packets.
Split ==
    /\ \A c \in Chan : \A i \in 1 .. Len(sched.pktList[c]) : sched.pktList[c][i].idx = 0
    /\ \A l \in Lcid : \A i \in 1 .. Len(sched.pktList[l]) : sched.pktList[l][i].idx # 0

\* One link at a time is lost, and the scheduler does not run meanwhile.
Alone ==
    /\ losing # {} => run.at = "idle"
    /\ \A l, m \in losing : l = m

OInv == IInv /\ Alone /\ Split /\ Passed

\* The fragments s are those that come after fragment x of a packet.
RestOf(x, s) ==
    /\ x.idx + Len(s) = x.cnt
    /\ \A k \in 1 .. Len(s) : s[k] = [x EXCEPT !.idx = x.idx + k]

\* The fragments that wait for a link are the rest of the packet begun last.
RestWaits == \A l \in Lcid : l \notin losing => RestOf(last[l], sched.pktList[l])

FInv == OInv /\ RestWaits

-----------------------------------------------------------------------------
(***************************************************************************)
(* Sums.  SumFunctionOnSet takes the elements of the set in an order of    *)
(* its own; its value does not depend on it.                               *)
(***************************************************************************)
LEMMA LeastNumber ==
  ASSUME NEW T \in SUBSET Nat, T # {}
  PROVE  \E m \in T : \A k \in T : m <= k
<1> DEFINE R == {ss \in Nat \X Nat : ss[1] < ss[2]}
<1>1. \E x \in T : \A y \in T : ~(<<y, x>> \in OpToRel(<, Nat))
  BY NatLessThanWellFounded, WFMin
<1>2. \E x \in T : \A y \in T : ~(<<y, x>> \in R)
  BY <1>1, Zenon DEF OpToRel
<1>3. ASSUME NEW x \in Nat, NEW y \in Nat, y < x
      PROVE  <<y, x>> \in R
  BY <1>3
<1>4. PICK x \in T : \A y \in T : ~(<<y, x>> \in R)
  BY <1>2
<1>5. \A y \in T : ~(y < x)
  BY <1>3, <1>4
<1> QED BY <1>5

\* One element taken out of a finite set.
LEMMA OneLess ==
  ASSUME NEW S, IsFiniteSet(S), NEW s \in SUBSET S
  PROVE  /\ IsFiniteSet(s) /\ Cardinality(s) \in Nat /\ Cardinality(s) <= Cardinality(S)
         /\ \A x \in s : /\ s \ {x} \in SUBSET S
                         /\ Cardinality(s \ {x}) \in Nat
                         /\ Cardinality(s \ {x}) < Cardinality(s)
<1>1. IsFiniteSet(s) /\ Cardinality(s) <= Cardinality(S)
  BY FS_Subset
<1>2. Cardinality(s) \in Nat
  BY <1>1, FS_CardinalityType
<1>3. ASSUME NEW x \in s
      PROVE  /\ s \ {x} \in SUBSET S
             /\ Cardinality(s \ {x}) \in Nat
             /\ Cardinality(s \ {x}) < Cardinality(s)
  <2>1. Cardinality(s \ {x}) = Cardinality(s) - 1 /\ IsFiniteSet(s \ {x})
    BY <1>1, FS_RemoveElement
  <2>2. Cardinality(s \ {x}) \in Nat
    BY <2>1, FS_CardinalityType
  <2> QED BY <1>2, <2>1, <2>2
<1> QED BY <1>1, <1>2, <1>3

Pick(s) == CHOOSE x \in s : TRUE

SumStep(fun, f, s) == IF s = {} THEN 0 ELSE fun[Pick(s)] + f[s \ {Pick(s)}]

\* f[s] is the sum of fun over s, for every s in D.
IsSum(fun, D, f) == f = [s \in D |-> SumStep(fun, f, s)]

LEMMA SumIsChosen ==
  ASSUME NEW fun, NEW S
  PROVE  SumFunctionOnSet(fun, S) = (CHOOSE f : IsSum(fun, SUBSET S, f))[S]
BY DEF SumFunctionOnSet, FoldFunctionOnSet, MapThenFoldSet, IsSum, SumStep, Pick

\* The subsets of S with at most n elements.
UpTo(S, n) == {s \in SUBSET S : Cardinality(s) <= n}

LEMMA SumsExist ==
  ASSUME NEW fun, NEW S, IsFiniteSet(S), NEW n \in Nat
  PROVE  \E f : IsSum(fun, UpTo(S, n), f)
<1> DEFINE B == {m \in Nat : ~ \E f : IsSum(fun, UpTo(S, m), f)}
<1> SUFFICES ASSUME B # {}
             PROVE  FALSE
  OBVIOUS
<1>1. PICK m \in B : \A k \in B : m <= k
  BY LeastNumber
<1>2. m \in Nat /\ ~ \E f : IsSum(fun, UpTo(S, m), f)
  OBVIOUS
<1>3. CASE m = 0
  <2> DEFINE g == [s \in UpTo(S, 0) |-> 0]
  <2>1. \A s \in UpTo(S, 0) : s = {}
    <3> TAKE s \in UpTo(S, 0)
    <3>1. s \in SUBSET S /\ Cardinality(s) <= 0
      BY DEF UpTo
    <3>2. IsFiniteSet(s) /\ Cardinality(s) \in Nat
      BY <3>1, OneLess
    <3> QED BY <3>1, <3>2, FS_EmptySet
  <2>2. g = [s \in UpTo(S, 0) |-> SumStep(fun, g, s)]
    BY <2>1 DEF SumStep
  <2> HIDE DEF g
  <2>3. IsSum(fun, UpTo(S, 0), g)
    BY <2>2 DEF IsSum
  <2> QED BY <2>3, <1>2, <1>3
<1>4. CASE m # 0
  <2>1. m - 1 \in Nat /\ m - 1 \notin B
    BY <1>1, <1>2, <1>4
  <2>2. PICK f : IsSum(fun, UpTo(S, m - 1), f)
    BY <2>1
  <2> HIDE DEF B
  <2>3. \A s \in UpTo(S, m - 1) : f[s] = SumStep(fun, f, s)
    BY <2>2 DEF IsSum
  <2> DEFINE g == [s \in UpTo(S, m) |-> SumStep(fun, f, s)]
  <2>4. \A s \in UpTo(S, m - 1) : s \in UpTo(S, m)
    BY <2>1, <1>2, OneLess DEF UpTo
  <2>5. \A s \in UpTo(S, m - 1) : g[s] = f[s]
    BY <2>3, <2>4
  <2>6. \A s \in UpTo(S, m) : g[s] = SumStep(fun, f, s)
    OBVIOUS
  <2>7. g = [s \in UpTo(S, m) |-> g[s]]
    OBVIOUS
  <2> HIDE DEF g
  <2>8. ASSUME NEW s \in UpTo(S, m)
        PROVE  g[s] = SumStep(fun, g, s)
    <3>1. CASE s = {}
      BY <3>1, <2>6 DEF SumStep
    <3>2. CASE s # {}
      <4>1. Pick(s) \in s
        BY <3>2 DEF Pick
      <4>2. s \ {Pick(s)} \in UpTo(S, m - 1)
        <5>1. s \in SUBSET S /\ Cardinality(s) <= m
          BY DEF UpTo
        <5>2. Cardinality(s) \in Nat
          BY <5>1, OneLess
        <5>3. /\ s \ {Pick(s)} \in SUBSET S
              /\ Cardinality(s \ {Pick(s)}) \in Nat
              /\ Cardinality(s \ {Pick(s)}) < Cardinality(s)
          BY <5>1, <4>1, OneLess
        <5> QED BY <5>1, <5>2, <5>3, <1>2 DEF UpTo
      <4>3. g[s \ {Pick(s)}] = f[s \ {Pick(s)}]
        BY <4>2, <2>5
      <4> QED BY <4>3, <2>6 DEF SumStep
    <3> QED BY <3>1, <3>2
  <2>9. IsSum(fun, UpTo(S, m), g)
    BY <2>7, <2>8 DEF IsSum
  <2> QED BY <2>9, <1>2
<1> QED BY <1>3, <1>4

\* The function that SumFunctionOnSet evaluates.
Sums(fun, S) == CHOOSE f : IsSum(fun, SUBSET S, f)

LEMMA SumsDefined ==
  ASSUME NEW fun, NEW S, IsFiniteSet(S)
  PROVE  /\ SumFunctionOnSet(fun, S) = Sums(fun, S)[S]
         /\ \A s \in SUBSET S : Sums(fun, S)[s] = SumStep(fun, Sums(fun, S), s)
<1>1. Cardinality(S) \in Nat
  BY FS_CardinalityType
<1>2. UpTo(S, Cardinality(S)) = SUBSET S
  BY OneLess DEF UpTo
<1>3. \E f : IsSum(fun, SUBSET S, f)
  <2>1. \E f : IsSum(fun, UpTo(S, Cardinality(S)), f)
    BY <1>1, SumsExist
  <2> QED BY <1>2, <2>1, Zenon
<1>4. IsSum(fun, SUBSET S, Sums(fun, S))
  BY <1>3 DEF Sums
<1>5. \A s \in SUBSET S : Sums(fun, S)[s] = SumStep(fun, Sums(fun, S), s)
  BY <1>4 DEF IsSum
<1>6. SumFunctionOnSet(fun, S) = Sums(fun, S)[S]
  BY SumIsChosen DEF Sums
<1> QED BY <1>5, <1>6


\* f adds fun up over the subsets of S, element by element and in any order.
AddsUp(fun, S, f) ==
    \A s \in SUBSET S : /\ s = {} => f[s] = 0
                        /\ f[s] \in Nat
                        /\ \A x \in s : f[s] = fun[x] + f[s \ {x}]

LEMMA SumsAddUp ==
  ASSUME NEW fun, NEW S, IsFiniteSet(S), \A x \in S : fun[x] \in Nat
  PROVE  AddsUp(fun, S, Sums(fun, S))
<1> PICK F : F = Sums(fun, S)
  OBVIOUS
<1>1. \A s \in SUBSET S : F[s] = IF s = {} THEN 0 ELSE fun[Pick(s)] + F[s \ {Pick(s)}]
  <2>1. \A s \in SUBSET S : F[s] = SumStep(fun, F, s)
    BY SumsDefined
  <2> QED BY <2>1 DEF SumStep
<1> DEFINE Good(s) == F[s] \in Nat /\ \A x \in s : F[s] = fun[x] + F[s \ {x}]
           B == {m \in Nat : \E s \in SUBSET S : Cardinality(s) = m /\ ~Good(s)}
<1>2. B = {}
  <2> SUFFICES ASSUME B # {}
               PROVE  FALSE
    OBVIOUS
  <2>0. B \in SUBSET Nat
    OBVIOUS
  <2>1. PICK m \in B : \A k \in B : m <= k
    <3> HIDE DEF B
    <3> QED BY <2>0, LeastNumber
  <2>2. PICK s \in SUBSET S : Cardinality(s) = m /\ ~Good(s)
    BY <2>1
  <2>3. \A x \in s : /\ s \ {x} \in SUBSET S
                     /\ Cardinality(s \ {x}) \in Nat
                     /\ Cardinality(s \ {x}) < m
    <3> HIDE DEF Good, B
    <3> QED BY <2>2, OneLess
  <2>4. \A x \in s : Good(s \ {x})
    <3> TAKE x \in s
    <3>1. m \in Nat /\ Cardinality(s \ {x}) \notin B
      BY <2>1, <2>3
    <3> QED BY <3>1, <2>3
  <2> HIDE DEF B
  <2>5. s # {}
    <3>1. {} \in SUBSET S
      OBVIOUS
    <3>2. F[{}] = 0
      BY <1>1, <3>1
    <3>3. s = {} => Good(s)
      BY <3>2
    <3> HIDE DEF Good
    <3> QED BY <2>2, <3>3
  <2>6. PICK c \in s : c = Pick(s)
    BY <2>5 DEF Pick
  <2>7. F[s] = fun[c] + F[s \ {c}]
    BY <2>5, <2>6, <1>1
  <2>8. fun[c] \in Nat /\ F[s \ {c}] \in Nat
    BY <2>4
  <2>9. ASSUME NEW x \in s
        PROVE  F[s] = fun[x] + F[s \ {x}]
    <3>1. CASE x = c
      BY <3>1, <2>7
    <3>2. CASE x # c
      <4>1. x \in s \ {c} /\ c \in s \ {x} /\ (s \ {c}) \ {x} = (s \ {x}) \ {c}
        BY <3>2
      <4>2. F[s \ {c}] = fun[x] + F[(s \ {c}) \ {x}]
        BY <2>4, <4>1
      <4>3. F[s \ {x}] = fun[c] + F[(s \ {c}) \ {x}]
        BY <2>4, <4>1
      <4>4. PICK r : r = F[(s \ {c}) \ {x}]
        OBVIOUS
      <4>5. r \in Nat
        <5>1. s \ {c} \in SUBSET S /\ (s \ {c}) \ {x} \in SUBSET S
          OBVIOUS
        <5>2. Cardinality((s \ {c}) \ {x}) \in Nat /\ Cardinality((s \ {c}) \ {x}) < Cardinality(s \ {c})
          BY <5>1, <4>1, OneLess
        <5>3. Cardinality((s \ {c}) \ {x}) < m
          <6>1. Cardinality(s \ {c}) \in Nat /\ Cardinality(s \ {c}) < m /\ m \in Nat
            BY <2>3, <2>0
          <6> QED BY <5>2, <6>1
        <5>4. Cardinality((s \ {c}) \ {x}) \notin B
          BY <5>3, <5>2, <2>1, <2>0
        <5>5. Good((s \ {c}) \ {x})
          BY <5>1, <5>2, <5>4 DEF B
        <5> QED BY <5>5, <4>4
      <4>6. fun[x] \in Nat
        OBVIOUS
      <4> QED BY <4>2, <4>3, <4>4, <4>5, <4>6, <2>7, <2>8
    <3> QED BY <3>1, <3>2
  <2>10. F[s] \in Nat
    BY <2>7, <2>8
  <2> QED BY <2>2, <2>9, <2>10
<1>3. ASSUME NEW s \in SUBSET S
      PROVE  Good(s)
  <2>1. Cardinality(s) \in Nat
    BY OneLess
  <2> QED BY <1>2, <2>1
<1>4. \A s \in SUBSET S : s = {} => F[s] = 0
  BY <1>1
<1> QED BY <1>3, <1>4 DEF AddsUp

\* Functions that agree on s have the same sum over it.
LEMMA AddsUpSame ==
  ASSUME NEW S, NEW T, NEW fun, NEW gun, NEW f, NEW g,
         AddsUp(fun, S, f), AddsUp(gun, T, g),
         NEW s \in SUBSET S, s \in SUBSET T, IsFiniteSet(s),
         \A x \in s : fun[x] = gun[x]
  PROVE  f[s] = g[s]
<1> DEFINE B == {m \in Nat : \E r \in SUBSET s : Cardinality(r) = m /\ f[r] # g[r]}
<1>1. B = {}
  <2> SUFFICES ASSUME B # {}
               PROVE  FALSE
    OBVIOUS
  <2>0. B \in SUBSET Nat
    OBVIOUS
  <2>1. PICK m \in B : \A k \in B : m <= k
    <3> HIDE DEF B
    <3> QED BY <2>0, LeastNumber
  <2>2. PICK r \in SUBSET s : Cardinality(r) = m /\ f[r] # g[r]
    OBVIOUS
  <2>3. r \in SUBSET S /\ r \in SUBSET T
    OBVIOUS
  <2>4. CASE r = {}
    BY <2>2, <2>3, <2>4 DEF AddsUp
  <2>5. CASE r # {}
    <3>1. PICK x \in r : TRUE
      BY <2>5
    <3>2. /\ r \ {x} \in SUBSET s
          /\ Cardinality(r \ {x}) \in Nat
          /\ Cardinality(r \ {x}) < m
      BY <2>2, OneLess
    <3>3. f[r \ {x}] = g[r \ {x}]
      BY <3>2, <2>1, <2>0
    <3>4. f[r] = fun[x] + f[r \ {x}] /\ g[r] = gun[x] + g[r \ {x}]
      BY <2>3 DEF AddsUp
    <3> QED BY <3>3, <3>4, <2>2
  <2> QED BY <2>4, <2>5
<1>2. Cardinality(s) \in Nat /\ s \in SUBSET s
  BY OneLess
<1> QED BY <1>1, <1>2

\* What a sum is.
LEMMA SumEmpty ==
  ASSUME NEW fun
  PROVE  SumFunctionOnSet(fun, {}) = 0
<1>1. IsFiniteSet({})
  BY FS_EmptySet
<1> QED BY <1>1, SumsDefined DEF SumStep

LEMMA SumType ==
  ASSUME NEW S, IsFiniteSet(S), NEW fun, \A x \in S : fun[x] \in Nat
  PROVE  SumFunctionOnSet(fun, S) \in Nat
BY SumsDefined, SumsAddUp DEF AddsUp

LEMMA SumSame ==
  ASSUME NEW S, IsFiniteSet(S), NEW fun, NEW gun, \A x \in S : fun[x] \in Nat,
         \A x \in S : fun[x] = gun[x]
  PROVE  SumFunctionOnSet(fun, S) = SumFunctionOnSet(gun, S)
<1>1. AddsUp(fun, S, Sums(fun, S)) /\ AddsUp(gun, S, Sums(gun, S))
  BY SumsAddUp
<1>2. Sums(fun, S)[S] = Sums(gun, S)[S]
  BY <1>1, AddsUpSame
<1> QED BY <1>2, SumsDefined

LEMMA SumRemove ==
  ASSUME NEW S, IsFiniteSet(S), NEW fun, \A x \in S : fun[x] \in Nat, NEW x \in S
  PROVE  SumFunctionOnSet(fun, S) = fun[x] + SumFunctionOnSet(fun, S \ {x})
<1>1. IsFiniteSet(S \ {x})
  BY FS_RemoveElement
<1>2. AddsUp(fun, S, Sums(fun, S)) /\ AddsUp(fun, S \ {x}, Sums(fun, S \ {x}))
  BY <1>1, SumsAddUp
<1>3. Sums(fun, S)[S \ {x}] = Sums(fun, S \ {x})[S \ {x}]
  BY <1>1, <1>2, AddsUpSame
<1>4. Sums(fun, S)[S] = fun[x] + Sums(fun, S)[S \ {x}]
  BY <1>2 DEF AddsUp
<1> QED BY <1>1, <1>3, <1>4, SumsDefined

\* One summand changes.
LEMMA SumUpdate ==
  ASSUME NEW S, IsFiniteSet(S), NEW fun, NEW gun, NEW x \in S,
         \A y \in S : fun[y] \in Nat, \A y \in S : gun[y] \in Nat,
         \A y \in S : y # x => fun[y] = gun[y]
  PROVE  /\ SumFunctionOnSet(fun, S) \in Nat /\ SumFunctionOnSet(gun, S) \in Nat
         /\ fun[x] <= SumFunctionOnSet(fun, S)
         /\ SumFunctionOnSet(gun, S) + fun[x] = SumFunctionOnSet(fun, S) + gun[x]
<1>1. IsFiniteSet(S \ {x})
  BY FS_RemoveElement
<1>2. SumFunctionOnSet(fun, S) = fun[x] + SumFunctionOnSet(fun, S \ {x})
  BY SumRemove
<1>3. SumFunctionOnSet(gun, S) = gun[x] + SumFunctionOnSet(gun, S \ {x})
  BY SumRemove
<1>4. SumFunctionOnSet(fun, S \ {x}) = SumFunctionOnSet(gun, S \ {x})
  BY <1>1, SumSame
<1>5. SumFunctionOnSet(fun, S \ {x}) \in Nat
  BY <1>1, SumType
<1>6. fun[x] \in Nat /\ gun[x] \in Nat
  OBVIOUS
<1> QED BY <1>2, <1>3, <1>4, <1>5, <1>6

\* A sum is zero when and only when every summand is.
LEMMA SumZero ==
  ASSUME NEW S, IsFiniteSet(S), NEW fun, \A x \in S : fun[x] \in Nat
  PROVE  SumFunctionOnSet(fun, S) = 0 <=> \A x \in S : fun[x] = 0
<1>1. ASSUME SumFunctionOnSet(fun, S) = 0, NEW x \in S
      PROVE  fun[x] = 0
  <2>1. fun[x] <= SumFunctionOnSet(fun, S) /\ fun[x] \in Nat
    BY SumUpdate
  <2> QED BY <1>1, <2>1
<1>2. ASSUME \A x \in S : fun[x] = 0
      PROVE  SumFunctionOnSet(fun, S) = 0
  <2> DEFINE f == [s \in SUBSET S |-> 0]
             zero == [x \in S |-> 0]
  <2>1. AddsUp(zero, S, f)
    BY DEF AddsUp
  <2>2. AddsUp(fun, S, Sums(fun, S))
    BY SumsAddUp
  <2>3. \A x \in S : zero[x] = fun[x]
    BY <1>2
  <2>4. f[S] = 0
    OBVIOUS
  <2> HIDE DEF f, zero
  <2>5. f[S] = Sums(fun, S)[S]
    BY <2>1, <2>2, <2>3, AddsUpSame
  <2> QED BY <2>4, <2>5, SumsDefined
<1> QED BY <1>1, <1>2


-----------------------------------------------------------------------------
(***************************************************************************)
(* The lists.                                                              *)
(***************************************************************************)
\* The sums of the model are over links, channels and priorities.
LEMMA FiniteSets ==
  /\ IsFiniteSet(Lcid) /\ IsFiniteSet(Priority) /\ IsFiniteSet(QueueChan)
  /\ \A p, l : IsFiniteSet(Members(p, l))
<1>1. IsFiniteSet(Lcid) /\ IsFiniteSet(Chan)
  BY SchedulerAssumption
<1>2. IsFiniteSet(Priority)
  <2>1. Priority = 0 .. 3 /\ 0 \in Int /\ 3 \in Int
    BY DEF Priority, DTAP_PRIORITY_FRAGMENT, DTAP_PRIORITY_NORMAL
  <2>2. IsFiniteSet(0 .. 3)
    BY <2>1, FS_Interval
  <2> QED BY <2>1, <2>2, Zenon
<1>3. IsFiniteSet(QueueChan)
  BY <1>1, FS_Union DEF QueueChan
<1>4. \A p, l : Members(p, l) \subseteq QueueChan
  BY DEF Members
<1> QED BY <1>1, <1>2, <1>3, <1>4, FS_Subset

\* The values of the function behind Among.
AmongStep(seq, S, f, k) ==
    IF k = 0 THEN <<>> ELSE IF seq[k] \in S THEN Append(f[k - 1], seq[k]) ELSE f[k - 1]

IsAmong(seq, S, n, f) == f = [k \in 0 .. n |-> AmongStep(seq, S, f, k)]

LEMMA AmongExists ==
  ASSUME NEW seq, NEW S, NEW n \in Nat
  PROVE  \E f : IsAmong(seq, S, n, f)
<1> DEFINE B == {m \in Nat : ~ \E f : IsAmong(seq, S, m, f)}
<1> SUFFICES ASSUME B # {}
             PROVE  FALSE
  OBVIOUS
<1>1. PICK m \in B : \A k \in B : m <= k
  BY LeastNumber
<1>2. m \in Nat /\ ~ \E f : IsAmong(seq, S, m, f)
  OBVIOUS
<1>3. CASE m = 0
  <2> DEFINE g == [k \in 0 .. 0 |-> <<>>]
  <2>1. g = [k \in 0 .. 0 |-> AmongStep(seq, S, g, k)]
    BY DEF AmongStep
  <2> HIDE DEF g
  <2> QED BY <2>1, <1>2, <1>3 DEF IsAmong
<1>4. CASE m # 0
  <2>1. m - 1 \in Nat /\ m - 1 \notin B
    BY <1>1, <1>2, <1>4
  <2>2. PICK f : IsAmong(seq, S, m - 1, f)
    BY <2>1
  <2> HIDE DEF B
  <2>3. \A k \in 0 .. m - 1 : f[k] = AmongStep(seq, S, f, k)
    BY <2>2 DEF IsAmong
  <2> DEFINE g == [k \in 0 .. m |-> AmongStep(seq, S, f, k)]
  <2>4. \A k \in 0 .. m - 1 : k \in 0 .. m /\ g[k] = f[k]
    BY <1>2, <2>3
  <2>5. \A k \in 0 .. m : g[k] = AmongStep(seq, S, f, k)
    OBVIOUS
  <2>6. g = [k \in 0 .. m |-> g[k]]
    OBVIOUS
  <2> HIDE DEF g
  <2>7. ASSUME NEW k \in 0 .. m
        PROVE  g[k] = AmongStep(seq, S, g, k)
    <3>1. CASE k = 0
      BY <3>1, <2>5 DEF AmongStep
    <3>2. CASE k # 0
      <4>1. k - 1 \in 0 .. m - 1
        BY <3>2, <1>2
      <4>2. g[k - 1] = f[k - 1]
        BY <4>1, <2>4
      <4> QED BY <4>2, <2>5 DEF AmongStep
    <3> QED BY <3>1, <3>2
  <2>8. IsAmong(seq, S, m, g)
    BY <2>6, <2>7 DEF IsAmong
  <2> QED BY <2>8, <1>2
<1> QED BY <1>3, <1>4

LEMMA RangeIs ==
  ASSUME NEW T, NEW seq \in Seq(T)
  PROVE  /\ Range(seq) \subseteq T
         /\ \A x : x \in Range(seq) <=> \E i \in 1 .. Len(seq) : seq[i] = x
BY DEF Range

LEMMA RangeAppend ==
  ASSUME NEW T, NEW seq \in Seq(T), NEW e \in T
  PROVE  Append(seq, e) \in Seq(T) /\ Range(Append(seq, e)) = Range(seq) \cup {e}
<1>1. Append(seq, e) \in Seq(T) /\ Len(Append(seq, e)) = Len(seq) + 1 /\ Len(seq) \in Nat
  BY AppendProperties, LenProperties
<1>2. \A i \in 1 .. Len(seq) : Append(seq, e)[i] = seq[i]
  BY AppendProperties
<1>3. Append(seq, e)[Len(seq) + 1] = e
  BY AppendProperties
<1>4. \A x : x \in Range(Append(seq, e)) => x \in Range(seq) \cup {e}
  <2> TAKE x
  <2> HAVE x \in Range(Append(seq, e))
  <2>1. PICK i \in 1 .. Len(Append(seq, e)) : Append(seq, e)[i] = x
    BY <1>1, RangeIs
  <2>2. CASE i = Len(seq) + 1
    BY <2>1, <2>2, <1>3
  <2>3. CASE i # Len(seq) + 1
    <3>1. i \in 1 .. Len(seq)
      BY <2>3, <1>1
    <3>2. seq[i] = x
      BY <3>1, <2>1, <1>2
    <3> QED BY <3>1, <3>2, RangeIs
  <2> QED BY <2>2, <2>3
<1>5. \A x : x \in Range(seq) => x \in Range(Append(seq, e))
  <2> TAKE x
  <2> HAVE x \in Range(seq)
  <2>1. PICK i \in 1 .. Len(seq) : seq[i] = x
    BY RangeIs
  <2>2. i \in 1 .. Len(Append(seq, e))
    BY <1>1
  <2> QED BY <1>1, <1>2, <2>1, <2>2, RangeIs
<1>6. e \in Range(Append(seq, e))
  <2>1. Len(seq) + 1 \in 1 .. Len(Append(seq, e))
    BY <1>1
  <2> QED BY <1>1, <1>3, <2>1, RangeIs
<1> QED BY <1>1, <1>4, <1>5, <1>6

\* What Among returns.
LEMMA AmongIs ==
  ASSUME NEW T, NEW seq \in Seq(T), NEW S
  PROVE  /\ Among(seq, S) \in Seq(T)
         /\ Range(Among(seq, S)) = Range(seq) \cap S
<1> PICK n \in Nat : n = Len(seq)
  BY LenProperties
<1> DEFINE F == CHOOSE f : IsAmong(seq, S, n, f)
<1>1. Among(seq, S) = F[n]
  BY DEF Among, IsAmong, AmongStep
<1>2. IsAmong(seq, S, n, F)
  BY AmongExists
<1> HIDE DEF F
<1>3. \A k \in 0 .. n : F[k] = AmongStep(seq, S, F, k)
  BY <1>2 DEF IsAmong
<1> DEFINE First(k) == {seq[i] : i \in 1 .. k}
           Good(k) == F[k] \in Seq(T) /\ Range(F[k]) = First(k) \cap S
           B == {k \in 0 .. n : ~Good(k)}
<1>4. B = {}
  <2> SUFFICES ASSUME B # {}
               PROVE  FALSE
    OBVIOUS
  <2>0. B \in SUBSET Nat
    OBVIOUS
  <2>1. PICK m \in B : \A k \in B : m <= k
    <3> HIDE DEF B
    <3> QED BY <2>0, LeastNumber
  <2>2. m \in 0 .. n /\ ~Good(m)
    OBVIOUS
  <2>3. CASE m = 0
    <3>1. F[0] = <<>>
      BY <1>3 DEF AmongStep
    <3>2. Range(<<>>) = {} /\ First(0) = {} /\ <<>> \in Seq(T)
      BY DEF Range
    <3> QED BY <2>2, <2>3, <3>1, <3>2
  <2>4. CASE m # 0
    <3>1. m - 1 \in 0 .. n /\ m - 1 \notin B
      <4> HIDE DEF B, Good
      <4>1. m \in 1 .. n /\ m - 1 \in 0 .. n /\ ~(m <= m - 1)
        BY <2>2, <2>4
      <4> QED BY <2>1, <4>1
    <3>2. Good(m - 1)
      <4> HIDE DEF Good
      <4> QED BY <3>1
    <3>3. seq[m] \in T
      BY <2>2, <2>4
    <3>4. First(m) = First(m - 1) \cup {seq[m]}
      BY <2>2, <2>4
    <3> HIDE DEF First, B
    <3>5. CASE seq[m] \in S
      <4>1. F[m] = Append(F[m - 1], seq[m])
        BY <1>3, <2>2, <2>4, <3>5 DEF AmongStep
      <4>2. F[m] \in Seq(T) /\ Range(F[m]) = Range(F[m - 1]) \cup {seq[m]}
        BY <4>1, <3>2, <3>3, RangeAppend
      <4> QED BY <4>2, <3>2, <3>4, <3>5, <2>2
    <3>6. CASE seq[m] \notin S
      <4>1. F[m] = F[m - 1]
        BY <1>3, <2>2, <2>4, <3>6 DEF AmongStep
      <4> QED BY <4>1, <3>2, <3>4, <3>6, <2>2
    <3> QED BY <3>5, <3>6
  <2> QED BY <2>3, <2>4
<1>5. Good(n)
  <2> HIDE DEF Good
  <2>1. n \in 0 .. n
    OBVIOUS
  <2> QED BY <1>4, <2>1
<1>6. First(n) = Range(seq)
  BY DEF Range
<1> HIDE DEF First
<1> QED BY <1>1, <1>5, <1>6

LEMMA RangeEmpty ==
  ASSUME NEW T, NEW seq \in Seq(T)
  PROVE  seq = <<>> <=> Range(seq) = {}
<1>1. Len(seq) \in Nat /\ (seq = <<>> <=> Len(seq) = 0)
  BY EmptySeq, LenProperties
<1>2. Range(seq) # {} => Len(seq) # 0
  BY <1>1, RangeIs
<1>3. Len(seq) # 0 => seq[1] \in Range(seq)
  <2> HAVE Len(seq) # 0
  <2>1. 1 \in 1 .. Len(seq)
    BY <1>1
  <2> QED BY <2>1, RangeIs
<1> QED BY <1>1, <1>2, <1>3

LEMMA WithoutIs ==
  ASSUME NEW T, NEW seq \in Seq(T), NEW e
  PROVE  Without(seq, e) \in Seq(T) /\ Range(Without(seq, e)) = Range(seq) \ {e}
<1>1. /\ Without(seq, e) \in Seq(T)
      /\ Range(Without(seq, e)) = Range(seq) \cap (Range(seq) \ {e})
  BY AmongIs DEF Without
<1> QED BY <1>1

LEMMA InsertIs ==
  ASSUME NEW T, NEW seq \in Seq(T), NEW e \in T
  PROVE  /\ Insert(seq, e) \in Seq(T)
         /\ Range(Insert(seq, e)) = Range(seq) \cup {e}
         /\ Len(Insert(seq, e)) \in Nat /\ Len(Insert(seq, e)) >= Len(seq)
         /\ \A i \in 1 .. Len(seq) : Insert(seq, e)[i] = seq[i]
<1>1. CASE e \in Range(seq)
  BY <1>1, LenProperties DEF Insert
<1>2. CASE e \notin Range(seq)
  <2>1. Insert(seq, e) = Append(seq, e)
    BY <1>2 DEF Insert
  <2>2. Append(seq, e) \in Seq(T) /\ Range(Append(seq, e)) = Range(seq) \cup {e}
    BY RangeAppend
  <2>3. /\ Len(Append(seq, e)) = Len(seq) + 1 /\ Len(seq) \in Nat
        /\ \A i \in 1 .. Len(seq) : Append(seq, e)[i] = seq[i]
    BY AppendProperties, LenProperties
  <2> QED BY <2>1, <2>2, <2>3
<1> QED BY <1>1, <1>2

LEMMA RotateIs ==
  ASSUME NEW T, NEW seq \in Seq(T), NEW S
  PROVE  Rotate(seq, S) \in Seq(T) /\ Range(Rotate(seq, S)) = Range(seq)
<1> DEFINE a == Among(seq, Range(seq) \ S)
           b == Among(seq, S)
<1>1. a \in Seq(T) /\ Range(a) = Range(seq) \cap (Range(seq) \ S)
  BY AmongIs
<1>2. b \in Seq(T) /\ Range(b) = Range(seq) \cap S
  BY AmongIs
<1>3. Rotate(seq, S) = a \o b
  BY DEF Rotate
<1> HIDE DEF a, b
<1>4. a \o b \in Seq(T) /\ Len(a \o b) = Len(a) + Len(b) /\ Len(a) \in Nat /\ Len(b) \in Nat
  BY <1>1, <1>2, ConcatProperties, LenProperties
<1>5. \A i \in 1 .. Len(a) : (a \o b)[i] = a[i] /\ i \in 1 .. Len(a \o b)
  BY <1>1, <1>2, <1>4, ConcatProperties
<1>6. \A i \in 1 .. Len(b) : (a \o b)[i + Len(a)] = b[i] /\ i + Len(a) \in 1 .. Len(a \o b)
  BY <1>1, <1>2, <1>4, ConcatProperties
<1>7. \A x \in Range(a \o b) : x \in Range(a) \cup Range(b)
  <2> TAKE x \in Range(a \o b)
  <2>1. PICK i \in 1 .. Len(a \o b) : (a \o b)[i] = x
    BY <1>4, RangeIs
  <2>2. CASE i <= Len(a)
    <3>1. i \in 1 .. Len(a)
      BY <2>2, <1>4
    <3> QED BY <3>1, <2>1, <1>5, <1>1, RangeIs
  <2>3. CASE i > Len(a)
    <3>1. i - Len(a) \in 1 .. Len(b) /\ (i - Len(a)) + Len(a) = i
      BY <2>3, <1>4
    <3> QED BY <3>1, <2>1, <1>6, <1>2, RangeIs
  <2> QED BY <2>2, <2>3, <1>4
<1>8. \A x \in Range(a) : x \in Range(a \o b)
  <2> TAKE x \in Range(a)
  <2>1. PICK i \in 1 .. Len(a) : a[i] = x
    BY <1>1, RangeIs
  <2>2. PICK j \in 1 .. Len(a \o b) : (a \o b)[j] = x
    BY <1>5, <2>1
  <2> QED BY <1>4, <2>2, RangeIs
<1>9. \A x \in Range(b) : x \in Range(a \o b)
  <2> TAKE x \in Range(b)
  <2>1. PICK i \in 1 .. Len(b) : b[i] = x
    BY <1>2, RangeIs
  <2>2. PICK j \in 1 .. Len(a \o b) : (a \o b)[j] = x
    BY <1>6, <2>1
  <2> QED BY <1>4, <2>2, RangeIs
<1>10. Range(a \o b) = Range(a) \cup Range(b)
  BY <1>7, <1>8, <1>9
<1> QED BY <1>1, <1>2, <1>3, <1>4, <1>10


-----------------------------------------------------------------------------
(***************************************************************************)
(* The queues.  Push, Pop and ChannelDownProc change one channel, its      *)
(* link's node in its queue, the queue and the link's buffer node.         *)
(***************************************************************************)
LEMMA ChannelIs ==
  ASSUME NEW c \in QueueChan
  PROVE  QueueOf(c) \in Priority /\ LinkOf(c) \in Lcid /\ c \in Members(QueueOf(c), LinkOf(c))
<1>1. QueueOf(c) \in Priority /\ LinkOf(c) \in Lcid
  BY SchedulerAssumption
  DEF QueueChan, QueueOf, LinkOf, Priority, DTAP_PRIORITY_FRAGMENT, DTAP_PRIORITY_NORMAL
<1> QED BY <1>1 DEF Members

\* t is s with other values at channel c, link l of queue p, queue p and link l.
Becomes(s, t, c, p, l, pkts, lcids, channels, cnt, pkt, queued) ==
    /\ t \in Scheduler
    /\ \A d \in QueueChan : t.pktList[d] = IF d = c THEN pkts ELSE s.pktList[d]
    /\ \A q \in Priority : t.lcidList[q] = IF q = p THEN lcids ELSE s.lcidList[q]
    /\ \A q \in Priority, m \in Lcid :
          t.channelList[q][m] = IF q = p /\ m = l THEN channels ELSE s.channelList[q][m]
    /\ \A q \in Priority, m \in Lcid :
          t.lcidPktCnt[q][m] = IF q = p /\ m = l THEN cnt ELSE s.lcidPktCnt[q][m]
    /\ \A q \in Priority : t.pktCnt[q] = IF q = p THEN pkt ELSE s.pktCnt[q]
    /\ \A m \in Lcid : t.queuedPktCnt[m] = IF m = l THEN queued ELSE s.queuedPktCnt[m]

LEMMA SchedulerIs ==
  ASSUME NEW s \in Scheduler
  PROVE  /\ s.pktList \in [QueueChan -> Seq(Packet)]
         /\ s.lcidList \in [Priority -> Seq(Lcid)]
         /\ s.channelList \in [Priority -> [Lcid -> Seq(QueueChan)]]
         /\ s.lcidPktCnt \in [Priority -> [Lcid -> Nat]]
         /\ s.pktCnt \in [Priority -> Nat]
         /\ s.queuedPktCnt \in [Lcid -> Nat]
BY DEF Scheduler

\* The same, as functions.
Fields(s, t, c, p, l, pkts, lcids, channels, cnt, pkt, queued) ==
    t = [pktList |-> [s.pktList EXCEPT ![c] = pkts],
         lcidList |-> [s.lcidList EXCEPT ![p] = lcids],
         channelList |-> [s.channelList EXCEPT ![p][l] = channels],
         lcidPktCnt |-> [s.lcidPktCnt EXCEPT ![p][l] = cnt],
         pktCnt |-> [s.pktCnt EXCEPT ![p] = pkt],
         queuedPktCnt |-> [s.queuedPktCnt EXCEPT ![l] = queued]]

LEMMA FieldsBecome ==
  ASSUME NEW s \in Scheduler, NEW t, NEW c \in QueueChan, NEW p \in Priority, NEW l \in Lcid,
         NEW pkts \in Seq(Packet), NEW lcids \in Seq(Lcid), NEW channels \in Seq(QueueChan),
         NEW cnt \in Nat, NEW pkt \in Nat, NEW queued \in Nat,
         Fields(s, t, c, p, l, pkts, lcids, channels, cnt, pkt, queued)
  PROVE  Becomes(s, t, c, p, l, pkts, lcids, channels, cnt, pkt, queued)
<1>1. /\ s.pktList \in [QueueChan -> Seq(Packet)]
      /\ s.lcidList \in [Priority -> Seq(Lcid)]
      /\ s.channelList \in [Priority -> [Lcid -> Seq(QueueChan)]]
      /\ s.lcidPktCnt \in [Priority -> [Lcid -> Nat]]
      /\ s.pktCnt \in [Priority -> Nat]
      /\ s.queuedPktCnt \in [Lcid -> Nat]
  BY SchedulerIs
<1> DEFINE a1 == [s.pktList EXCEPT ![c] = pkts]
           a2 == [s.lcidList EXCEPT ![p] = lcids]
           a3 == [s.channelList EXCEPT ![p][l] = channels]
           a4 == [s.lcidPktCnt EXCEPT ![p][l] = cnt]
           a5 == [s.pktCnt EXCEPT ![p] = pkt]
           a6 == [s.queuedPktCnt EXCEPT ![l] = queued]
<1>2. t = [pktList |-> a1, lcidList |-> a2, channelList |-> a3, lcidPktCnt |-> a4,
           pktCnt |-> a5, queuedPktCnt |-> a6]
  BY DEF Fields
<1>3. /\ a1 \in [QueueChan -> Seq(Packet)]
      /\ \A d \in QueueChan : a1[d] = IF d = c THEN pkts ELSE s.pktList[d]
  BY <1>1
<1>4. /\ a2 \in [Priority -> Seq(Lcid)]
      /\ \A q \in Priority : a2[q] = IF q = p THEN lcids ELSE s.lcidList[q]
  BY <1>1
<1>5. /\ a3 \in [Priority -> [Lcid -> Seq(QueueChan)]]
      /\ \A q \in Priority, m \in Lcid :
            a3[q][m] = IF q = p /\ m = l THEN channels ELSE s.channelList[q][m]
  BY <1>1
<1>6. /\ a4 \in [Priority -> [Lcid -> Nat]]
      /\ \A q \in Priority, m \in Lcid :
            a4[q][m] = IF q = p /\ m = l THEN cnt ELSE s.lcidPktCnt[q][m]
  BY <1>1
<1>7. /\ a5 \in [Priority -> Nat]
      /\ \A q \in Priority : a5[q] = IF q = p THEN pkt ELSE s.pktCnt[q]
  BY <1>1
<1>8. /\ a6 \in [Lcid -> Nat]
      /\ \A m \in Lcid : a6[m] = IF m = l THEN queued ELSE s.queuedPktCnt[m]
  BY <1>1
<1> HIDE DEF a1, a2, a3, a4, a5, a6
<1>9. /\ t.pktList = a1 /\ t.lcidList = a2 /\ t.channelList = a3 /\ t.lcidPktCnt = a4
      /\ t.pktCnt = a5 /\ t.queuedPktCnt = a6
  BY <1>2
<1>10. t \in Scheduler
  BY <1>2, <1>3, <1>4, <1>5, <1>6, <1>7, <1>8 DEF Scheduler
<1> QED BY <1>3, <1>4, <1>5, <1>6, <1>7, <1>8, <1>9, <1>10 DEF Becomes

LEMMA PushFields ==
  ASSUME NEW s \in Scheduler, NEW c \in QueueChan, NEW pkts
  PROVE  Fields(s, PriorityQueuePush(s, c, pkts), c, QueueOf(c), LinkOf(c),
                s.pktList[c] \o pkts,
                Insert(s.lcidList[QueueOf(c)], LinkOf(c)),
                Insert(s.channelList[QueueOf(c)][LinkOf(c)], c),
                s.lcidPktCnt[QueueOf(c)][LinkOf(c)] + Len(pkts),
                s.pktCnt[QueueOf(c)] + Len(pkts),
                IF Connected(LinkOf(c)) THEN s.queuedPktCnt[LinkOf(c)] + Len(pkts)
                ELSE s.queuedPktCnt[LinkOf(c)])
<1>1. QueueOf(c) \in Priority /\ LinkOf(c) \in Lcid
  BY ChannelIs
<1>2. PICK p \in Priority : p = QueueOf(c)
  BY <1>1
<1>3. PICK l \in Lcid : l = LinkOf(c)
  BY <1>1
<1>4. PICK q : q = IF Connected(l) THEN s.queuedPktCnt[l] + Len(pkts) ELSE s.queuedPktCnt[l]
  OBVIOUS
<1>5. PICK n : n = Len(pkts)
  OBVIOUS
<1>6. PriorityQueuePush(s, c, pkts) =
        [s EXCEPT !.lcidList[p] = Insert(s.lcidList[p], l),
                  !.channelList[p][l] = Insert(s.channelList[p][l], c),
                  !.lcidPktCnt[p][l] = s.lcidPktCnt[p][l] + n,
                  !.pktCnt[p] = s.pktCnt[p] + n,
                  !.queuedPktCnt[l] = q,
                  !.pktList[c] = s.pktList[c] \o pkts]
  BY <1>2, <1>3, <1>4, <1>5 DEF PriorityQueuePush, Scheduler
<1>7. Fields(s, PriorityQueuePush(s, c, pkts), c, p, l, s.pktList[c] \o pkts,
             Insert(s.lcidList[p], l), Insert(s.channelList[p][l], c),
             s.lcidPktCnt[p][l] + n, s.pktCnt[p] + n, q)
  BY <1>6 DEF Fields, Scheduler
<1> QED BY <1>2, <1>3, <1>4, <1>5, <1>7, Zenon

LEMMA PopFields ==
  ASSUME NEW s \in Scheduler, NEW c \in QueueChan
  PROVE  Fields(s, PriorityQueuePop(s, c), c, QueueOf(c), LinkOf(c),
                Tail(s.pktList[c]),
                s.lcidList[QueueOf(c)],
                IF Tail(s.pktList[c]) = <<>> THEN s.channelList[QueueOf(c)][LinkOf(c)]
                ELSE Append(Without(s.channelList[QueueOf(c)][LinkOf(c)], c), c),
                DTAP_SCHED_SUB(s.lcidPktCnt[QueueOf(c)][LinkOf(c)], 1),
                DTAP_SCHED_SUB(s.pktCnt[QueueOf(c)], 1),
                DTAP_SCHED_SUB(s.queuedPktCnt[LinkOf(c)], 1))
<1>1. QueueOf(c) \in Priority /\ LinkOf(c) \in Lcid
  BY ChannelIs
<1>2. PICK p \in Priority : p = QueueOf(c)
  BY <1>1
<1>3. PICK l \in Lcid : l = LinkOf(c)
  BY <1>1
<1>4. PICK ch : ch = IF Tail(s.pktList[c]) = <<>> THEN s.channelList[p][l]
                     ELSE Append(Without(s.channelList[p][l], c), c)
  OBVIOUS
<1>5. PriorityQueuePop(s, c) =
        [s EXCEPT !.pktList[c] = Tail(s.pktList[c]),
                  !.lcidPktCnt[p][l] = DTAP_SCHED_SUB(s.lcidPktCnt[p][l], 1),
                  !.pktCnt[p] = DTAP_SCHED_SUB(s.pktCnt[p], 1),
                  !.queuedPktCnt[l] = DTAP_SCHED_SUB(s.queuedPktCnt[l], 1),
                  !.channelList[p][l] = ch]
  BY <1>2, <1>3, <1>4 DEF PriorityQueuePop, Scheduler
<1>6. s.lcidList = [s.lcidList EXCEPT ![p] = s.lcidList[p]]
  BY SchedulerIs
<1>7. Fields(s, PriorityQueuePop(s, c), c, p, l,
                Tail(s.pktList[c]), s.lcidList[p], ch,
                DTAP_SCHED_SUB(s.lcidPktCnt[p][l], 1),
                DTAP_SCHED_SUB(s.pktCnt[p], 1),
                DTAP_SCHED_SUB(s.queuedPktCnt[l], 1))
  BY <1>5, <1>6 DEF Fields, Scheduler
<1> QED BY <1>2, <1>3, <1>4, <1>7, Zenon

LEMMA DownFields ==
  ASSUME NEW s \in Scheduler, NEW c \in QueueChan,
         c \in Range(s.channelList[QueueOf(c)][LinkOf(c)]), NEW rest,
         rest = Without(s.channelList[QueueOf(c)][LinkOf(c)], c)
  PROVE  Fields(s, ChannelDownProc(s, c), c, QueueOf(c), LinkOf(c),
                <<>>,
                IF rest = <<>> THEN Without(s.lcidList[QueueOf(c)], LinkOf(c))
                ELSE s.lcidList[QueueOf(c)],
                rest,
                IF rest = <<>> THEN 0
                ELSE DTAP_SCHED_SUB(s.lcidPktCnt[QueueOf(c)][LinkOf(c)], Len(s.pktList[c])),
                DTAP_SCHED_SUB(s.pktCnt[QueueOf(c)], Len(s.pktList[c])),
                DTAP_SCHED_SUB(s.queuedPktCnt[LinkOf(c)], Len(s.pktList[c])))
<1>1. QueueOf(c) \in Priority /\ LinkOf(c) \in Lcid
  BY ChannelIs
<1>2. PICK p \in Priority : p = QueueOf(c)
  BY <1>1
<1>3. PICK l \in Lcid : l = LinkOf(c)
  BY <1>1
<1>4. PICK ll : ll = IF rest = <<>> THEN Without(s.lcidList[p], l) ELSE s.lcidList[p]
  OBVIOUS
<1>5. PICK n : n = Len(s.pktList[c])
  OBVIOUS
<1>6. PICK k : k = IF rest = <<>> THEN 0 ELSE DTAP_SCHED_SUB(s.lcidPktCnt[p][l], n)
  OBVIOUS
<1>7. ChannelDownProc(s, c) =
        [s EXCEPT !.pktList[c] = <<>>,
                  !.channelList[p][l] = rest,
                  !.lcidList[p] = ll,
                  !.lcidPktCnt[p][l] = k,
                  !.pktCnt[p] = DTAP_SCHED_SUB(s.pktCnt[p], n),
                  !.queuedPktCnt[l] = DTAP_SCHED_SUB(s.queuedPktCnt[l], n)]
  <2> HIDE DEF Without
  <2> QED BY <1>2, <1>3, <1>4, <1>5, <1>6 DEF ChannelDownProc, Scheduler
<1>8. Fields(s, ChannelDownProc(s, c), c, p, l, <<>>, ll, rest, k,
             DTAP_SCHED_SUB(s.pktCnt[p], n), DTAP_SCHED_SUB(s.queuedPktCnt[l], n))
  BY <1>7 DEF Fields, Scheduler
<1> QED BY <1>2, <1>3, <1>4, <1>5, <1>6, <1>8, Zenon


\* The numbers of waiting packets, when the packets of channel c change.
LEMMA WaitsType ==
  ASSUME NEW s \in Scheduler
  PROVE  /\ \A q, m : Waits(s, q, m) \in Nat
         /\ \A c \in QueueChan : Lengths(s)[c] = Len(s.pktList[c]) /\ Lengths(s)[c] \in Nat
<1>1. \A c \in QueueChan : Len(s.pktList[c]) \in Nat
  BY SchedulerIs, LenProperties
<1>2. \A c \in QueueChan : Lengths(s)[c] = Len(s.pktList[c]) /\ Lengths(s)[c] \in Nat
  BY <1>1 DEF Lengths
<1>3. ASSUME NEW q, NEW m
      PROVE  Waits(s, q, m) \in Nat
  <2>1. \A c \in Members(q, m) : Lengths(s)[c] \in Nat
    BY <1>2 DEF Members
  <2> QED BY <2>1, FiniteSets, SumType DEF Waits
<1> QED BY <1>2, <1>3

LEMMA WaitsChange ==
  ASSUME NEW s \in Scheduler, NEW t \in Scheduler, NEW c \in QueueChan,
         \A d \in QueueChan : d # c => t.pktList[d] = s.pktList[d]
  PROVE  /\ \A q \in Priority, m \in Lcid :
               ~(q = QueueOf(c) /\ m = LinkOf(c)) => Waits(t, q, m) = Waits(s, q, m)
         /\ Len(s.pktList[c]) <= Waits(s, QueueOf(c), LinkOf(c))
         /\ Waits(t, QueueOf(c), LinkOf(c)) + Len(s.pktList[c]) =
               Waits(s, QueueOf(c), LinkOf(c)) + Len(t.pktList[c])
<1>1. /\ \A d \in QueueChan : Lengths(s)[d] = Len(s.pktList[d]) /\ Lengths(s)[d] \in Nat
      /\ \A d \in QueueChan : Lengths(t)[d] = Len(t.pktList[d]) /\ Lengths(t)[d] \in Nat
  BY WaitsType
<1>2. \A d \in QueueChan : d # c => Lengths(t)[d] = Lengths(s)[d]
  BY <1>1
<1>3. ASSUME NEW q \in Priority, NEW m \in Lcid, ~(q = QueueOf(c) /\ m = LinkOf(c))
      PROVE  Waits(t, q, m) = Waits(s, q, m)
  <2>1. \A d \in Members(q, m) : d \in QueueChan /\ d # c
    BY <1>3 DEF Members
  <2>2. /\ \A d \in Members(q, m) : Lengths(t)[d] \in Nat
        /\ \A d \in Members(q, m) : Lengths(t)[d] = Lengths(s)[d]
    BY <2>1, <1>1, <1>2
  <2> QED BY <2>2, FiniteSets, SumSame DEF Waits
<1>4. PICK M : M = Members(QueueOf(c), LinkOf(c))
  OBVIOUS
<1>5. c \in M /\ IsFiniteSet(M)
  BY <1>4, ChannelIs, FiniteSets
<1>6. /\ \A d \in M : Lengths(s)[d] \in Nat
      /\ \A d \in M : Lengths(t)[d] \in Nat
      /\ \A d \in M : d # c => Lengths(s)[d] = Lengths(t)[d]
  BY <1>1, <1>2, <1>4 DEF Members
<1>7. /\ Lengths(s)[c] <= SumFunctionOnSet(Lengths(s), M)
      /\ SumFunctionOnSet(Lengths(t), M) + Lengths(s)[c] = SumFunctionOnSet(Lengths(s), M) + Lengths(t)[c]
  BY <1>5, <1>6, SumUpdate
<1> QED BY <1>1, <1>3, <1>4, <1>7 DEF Waits

LEMMA WaitsForType ==
  ASSUME NEW s \in Scheduler, NEW l
  PROVE  /\ WaitsFor(s, l) \in Nat
         /\ WaitsFor(s, l) = SumFunctionOnSet([p \in Priority |-> Waits(s, p, l)], Priority)
<1> DEFINE f == [p \in Priority |-> Waits(s, p, l)]
<1>1. DOMAIN f = Priority /\ \A p \in Priority : f[p] \in Nat
  BY WaitsType
<1>2. WaitsFor(s, l) = SumFunctionOnSet(f, DOMAIN f)
  BY DEF WaitsFor, SumFunction
<1> HIDE DEF f
<1>3. WaitsFor(s, l) = SumFunctionOnSet(f, Priority)
  BY <1>1, <1>2
<1>4. SumFunctionOnSet(f, Priority) \in Nat
  BY <1>1, FiniteSets, SumType
<1> QED BY <1>3, <1>4 DEF f

LEMMA WaitsForChange ==
  ASSUME NEW s \in Scheduler, NEW t \in Scheduler, NEW c \in QueueChan,
         \A d \in QueueChan : d # c => t.pktList[d] = s.pktList[d]
  PROVE  /\ \A m \in Lcid : m # LinkOf(c) => WaitsFor(t, m) = WaitsFor(s, m)
         /\ Len(s.pktList[c]) <= WaitsFor(s, LinkOf(c))
         /\ WaitsFor(t, LinkOf(c)) + Len(s.pktList[c]) = WaitsFor(s, LinkOf(c)) + Len(t.pktList[c])
<1>1. PICK p \in Priority : p = QueueOf(c)
  BY ChannelIs
<1>2. PICK l \in Lcid : l = LinkOf(c)
  BY ChannelIs
<1>3. PICK a \in Nat : a = Len(s.pktList[c])
  BY WaitsType
<1>4. PICK b \in Nat : b = Len(t.pktList[c])
  BY WaitsType
<1>5. /\ \A q \in Priority, m \in Lcid : ~(q = p /\ m = l) => Waits(t, q, m) = Waits(s, q, m)
      /\ a <= Waits(s, p, l)
      /\ Waits(t, p, l) + a = Waits(s, p, l) + b
  BY <1>1, <1>2, <1>3, <1>4, WaitsChange
<1>6. \A q, m : Waits(s, q, m) \in Nat /\ Waits(t, q, m) \in Nat
  BY WaitsType
<1> DEFINE f(m) == [q \in Priority |-> Waits(s, q, m)]
           g(m) == [q \in Priority |-> Waits(t, q, m)]
<1>7. \A m : /\ WaitsFor(s, m) = SumFunctionOnSet(f(m), Priority) /\ WaitsFor(s, m) \in Nat
             /\ WaitsFor(t, m) = SumFunctionOnSet(g(m), Priority) /\ WaitsFor(t, m) \in Nat
  BY WaitsForType
<1>8. \A m : \A q \in Priority : f(m)[q] = Waits(s, q, m) /\ g(m)[q] = Waits(t, q, m)
  OBVIOUS
<1> HIDE DEF f, g
<1>9. ASSUME NEW m \in Lcid, m # l
      PROVE  WaitsFor(t, m) = WaitsFor(s, m)
  <2>1. /\ \A q \in Priority : f(m)[q] \in Nat
        /\ \A q \in Priority : f(m)[q] = g(m)[q]
    BY <1>5, <1>6, <1>8, <1>9
  <2> QED BY <2>1, <1>7, FiniteSets, SumSame
<1>10. /\ f(l)[p] <= WaitsFor(s, l)
       /\ WaitsFor(t, l) + f(l)[p] = WaitsFor(s, l) + g(l)[p]
  <2>1. /\ \A q \in Priority : f(l)[q] \in Nat
        /\ \A q \in Priority : g(l)[q] \in Nat
        /\ \A q \in Priority : q # p => f(l)[q] = g(l)[q]
    BY <1>5, <1>6, <1>8
  <2> QED BY <2>1, <1>7, FiniteSets, SumUpdate
<1>11. a <= WaitsFor(s, l) /\ WaitsFor(t, l) + a = WaitsFor(s, l) + b
  <2>1. f(l)[p] = Waits(s, p, l) /\ g(l)[p] = Waits(t, p, l)
    BY <1>8
  <2>2. f(l)[p] \in Nat /\ g(l)[p] \in Nat /\ WaitsFor(s, l) \in Nat /\ WaitsFor(t, l) \in Nat
    BY <2>1, <1>6, <1>7
  <2> QED BY <2>1, <2>2, <1>5, <1>10
<1> QED BY <1>2, <1>3, <1>4, <1>9, <1>11

\* A sum over the links, when the value of one changes.
LEMMA LinkSum ==
  ASSUME NEW f \in [Lcid -> Nat], NEW g \in [Lcid -> Nat], NEW l \in Lcid,
         \A m \in Lcid : m # l => f[m] = g[m]
  PROVE  /\ SumFunction(f) \in Nat /\ SumFunction(g) \in Nat
         /\ f[l] <= SumFunction(f)
         /\ SumFunction(g) + f[l] = SumFunction(f) + g[l]
<1>1. SumFunction(f) = SumFunctionOnSet(f, Lcid) /\ SumFunction(g) = SumFunctionOnSet(g, Lcid)
  BY DEF SumFunction
<1> QED BY <1>1, FiniteSets, SumUpdate

\* When the counters are exact, they cover the packets of every channel.
LEMMA CountedBounds ==
  ASSUME NEW s \in Scheduler, NEW links, Counted(s, links), NEW c \in QueueChan
  PROVE  /\ Len(s.pktList[c]) \in Nat
         /\ Len(s.pktList[c]) <= s.lcidPktCnt[QueueOf(c)][LinkOf(c)]
         /\ Len(s.pktList[c]) <= s.pktCnt[QueueOf(c)]
         /\ LinkOf(c) \in links => Len(s.pktList[c]) <= s.queuedPktCnt[LinkOf(c)]
<1>1. PICK p \in Priority : p = QueueOf(c)
  BY ChannelIs
<1>2. PICK l \in Lcid : l = LinkOf(c)
  BY ChannelIs
<1>3. Len(s.pktList[c]) \in Nat
  BY WaitsType
<1>4. Len(s.pktList[c]) <= s.lcidPktCnt[p][l] /\ s.lcidPktCnt[p][l] \in Nat
  BY <1>1, <1>2, WaitsChange, WaitsType DEF Counted
<1>5. l \in links => Len(s.pktList[c]) <= s.queuedPktCnt[l]
  BY <1>2, WaitsForChange DEF Counted
<1>6. s.lcidPktCnt[p][l] <= s.pktCnt[p] /\ s.pktCnt[p] \in Nat
  <2>1. s.pktCnt[p] \in Nat /\ s.lcidPktCnt[p] \in [Lcid -> Nat]
    BY SchedulerIs
  <2>2. s.pktCnt[p] = SumFunctionOnSet(s.lcidPktCnt[p], Lcid)
    BY <2>1 DEF Counted, SumFunction
  <2>3. s.lcidPktCnt[p][l] <= SumFunctionOnSet(s.lcidPktCnt[p], Lcid)
    BY <2>1, FiniteSets, SumUpdate
  <2> QED BY <2>1, <2>2, <2>3
<1> QED BY <1>1, <1>2, <1>3, <1>4, <1>5, <1>6

\* The counters stay exact when they follow the packets of the channel.
LEMMA CountedChange ==
  ASSUME NEW s \in Scheduler, NEW t, NEW links, Counted(s, links), NEW c \in QueueChan,
         NEW p, NEW l, p = QueueOf(c), l = LinkOf(c), l \in links,
         NEW pkts \in Seq(Packet), NEW lcids, NEW channels,
         NEW cnt \in Nat, NEW pkt \in Nat, NEW queued \in Nat,
         Becomes(s, t, c, p, l, pkts, lcids, channels, cnt, pkt, queued),
         cnt + Len(s.pktList[c]) = s.lcidPktCnt[p][l] + Len(pkts),
         pkt + Len(s.pktList[c]) = s.pktCnt[p] + Len(pkts),
         queued + Len(s.pktList[c]) = s.queuedPktCnt[l] + Len(pkts)
  PROVE  Counted(t, links)
<1>1. p \in Priority /\ l \in Lcid
  BY ChannelIs
<1>2. /\ t \in Scheduler
      /\ \A d \in QueueChan : t.pktList[d] = IF d = c THEN pkts ELSE s.pktList[d]
      /\ \A q \in Priority, m \in Lcid :
            t.lcidPktCnt[q][m] = IF q = p /\ m = l THEN cnt ELSE s.lcidPktCnt[q][m]
      /\ \A q \in Priority : t.pktCnt[q] = IF q = p THEN pkt ELSE s.pktCnt[q]
      /\ \A m \in Lcid : t.queuedPktCnt[m] = IF m = l THEN queued ELSE s.queuedPktCnt[m]
  BY DEF Becomes
<1>3. t.pktList[c] = pkts /\ \A d \in QueueChan : d # c => t.pktList[d] = s.pktList[d]
  BY <1>2
<1>4. PICK a \in Nat : a = Len(s.pktList[c])
  BY WaitsType
<1>5. PICK b \in Nat : b = Len(pkts)
  BY LenProperties
<1>6. /\ \A q \in Priority : s.pktCnt[q] = SumFunctionOnSet(s.lcidPktCnt[q], Lcid)
      /\ \A q \in Priority, m \in Lcid : s.lcidPktCnt[q][m] = Waits(s, q, m)
      /\ \A m \in Lcid : s.queuedPktCnt[m] = IF m \in links THEN WaitsFor(s, m) ELSE 0
  BY SchedulerIs DEF Counted, SumFunction
<1>7. ASSUME NEW q \in Priority, NEW m \in Lcid
      PROVE  t.lcidPktCnt[q][m] = Waits(t, q, m)
  <2>1. /\ ~(q = p /\ m = l) => Waits(t, q, m) = Waits(s, q, m)
        /\ Waits(t, p, l) + a = Waits(s, p, l) + b
    BY <1>2, <1>3, <1>4, <1>5, WaitsChange
  <2>2. Waits(s, p, l) \in Nat /\ Waits(t, p, l) \in Nat
    BY <1>2, WaitsType
  <2>3. s.lcidPktCnt[p][l] = Waits(s, p, l) /\ s.lcidPktCnt[q][m] = Waits(s, q, m)
    BY <1>1, <1>6
  <2>4. CASE q = p /\ m = l
    <3>1. t.lcidPktCnt[q][m] = cnt
      BY <1>2, <2>4
    <3>2. cnt + a = Waits(s, p, l) + b
      BY <1>4, <1>5, <2>3
    <3> QED BY <3>1, <3>2, <2>1, <2>2, <2>4
  <2>5. CASE ~(q = p /\ m = l)
    <3>1. t.lcidPktCnt[q][m] = s.lcidPktCnt[q][m]
      BY <1>2, <2>5
    <3> QED BY <3>1, <2>1, <2>3, <2>5
  <2> QED BY <2>4, <2>5
<1>8. ASSUME NEW m \in Lcid
      PROVE  t.queuedPktCnt[m] = IF m \in links THEN WaitsFor(t, m) ELSE 0
  <2>1. /\ m # l => WaitsFor(t, m) = WaitsFor(s, m)
        /\ WaitsFor(t, l) + a = WaitsFor(s, l) + b
    BY <1>2, <1>3, <1>4, <1>5, WaitsForChange
  <2>2. WaitsFor(s, l) \in Nat /\ WaitsFor(t, l) \in Nat
    BY <1>2, WaitsForType
  <2>3. s.queuedPktCnt[l] = WaitsFor(s, l)
    BY <1>1, <1>6
  <2>4. CASE m = l
    <3>1. t.queuedPktCnt[m] = queued
      BY <1>2, <2>4
    <3>2. queued + a = WaitsFor(s, l) + b
      BY <1>4, <1>5, <2>3
    <3> QED BY <3>1, <3>2, <2>1, <2>2, <2>4
  <2>5. CASE m # l
    <3>1. t.queuedPktCnt[m] = s.queuedPktCnt[m]
      BY <1>2, <2>5
    <3> QED BY <3>1, <2>1, <2>5, <1>6
  <2> QED BY <2>4, <2>5
<1>9. ASSUME NEW q \in Priority
      PROVE  t.pktCnt[q] = SumFunction(t.lcidPktCnt[q])
  <2>1. s.lcidPktCnt[q] \in [Lcid -> Nat] /\ t.lcidPktCnt[q] \in [Lcid -> Nat]
    BY <1>2, SchedulerIs
  <2>2. SumFunction(t.lcidPktCnt[q]) = SumFunctionOnSet(t.lcidPktCnt[q], Lcid)
    BY <2>1 DEF SumFunction
  <2>3. CASE q = p
    <3>1. /\ \A m \in Lcid : s.lcidPktCnt[q][m] \in Nat
          /\ \A m \in Lcid : t.lcidPktCnt[q][m] \in Nat
          /\ \A m \in Lcid : m # l => s.lcidPktCnt[q][m] = t.lcidPktCnt[q][m]
      BY <2>1, <1>2
    <3>2. /\ SumFunctionOnSet(s.lcidPktCnt[q], Lcid) \in Nat
          /\ SumFunctionOnSet(t.lcidPktCnt[q], Lcid) \in Nat
          /\ SumFunctionOnSet(t.lcidPktCnt[q], Lcid) + s.lcidPktCnt[q][l] =
                SumFunctionOnSet(s.lcidPktCnt[q], Lcid) + t.lcidPktCnt[q][l]
      <4>1. SumFunction(s.lcidPktCnt[q]) = SumFunctionOnSet(s.lcidPktCnt[q], Lcid)
        BY <2>1 DEF SumFunction
      <4> QED BY <4>1, <2>1, <2>2, <3>1, <1>1, LinkSum
    <3>3. t.lcidPktCnt[q][l] = cnt /\ t.pktCnt[q] = pkt
      BY <1>1, <1>2, <2>3
    <3>4. s.lcidPktCnt[q][l] \in Nat
      BY <3>1, <1>1
    <3>5. pkt + a = s.pktCnt[q] + b /\ cnt + a = s.lcidPktCnt[q][l] + b
      BY <2>3, <1>4, <1>5
    <3>6. s.pktCnt[q] = SumFunctionOnSet(s.lcidPktCnt[q], Lcid)
      BY <1>6
    <3>7. pkt = SumFunctionOnSet(t.lcidPktCnt[q], Lcid)
      <4>1. PICK x \in Nat : x = SumFunctionOnSet(t.lcidPktCnt[q], Lcid)
        BY <3>2
      <4>2. PICK y \in Nat : y = SumFunctionOnSet(s.lcidPktCnt[q], Lcid)
        BY <3>2
      <4>3. PICK z \in Nat : z = s.lcidPktCnt[q][l]
        BY <3>4
      <4>4. x + z = y + cnt
        BY <4>1, <4>2, <4>3, <3>2, <3>3
      <4>5. pkt + a = y + b /\ cnt + a = z + b
        BY <4>2, <4>3, <3>5, <3>6
      <4> QED BY <4>1, <4>4, <4>5
    <3> QED BY <3>3, <3>7, <2>2
  <2>4. CASE q # p
    <3>1. /\ \A m \in Lcid : s.lcidPktCnt[q][m] \in Nat
          /\ \A m \in Lcid : s.lcidPktCnt[q][m] = t.lcidPktCnt[q][m]
      BY <2>1, <2>4, <1>2
    <3>2. SumFunctionOnSet(s.lcidPktCnt[q], Lcid) = SumFunctionOnSet(t.lcidPktCnt[q], Lcid)
      BY <3>1, FiniteSets, SumSame
    <3>3. t.pktCnt[q] = s.pktCnt[q]
      BY <1>2, <2>4
    <3>4. s.pktCnt[q] = SumFunctionOnSet(s.lcidPktCnt[q], Lcid)
      BY <1>6
    <3> QED BY <3>2, <3>3, <3>4, <2>2, Zenon
  <2> QED BY <2>3, <2>4
<1> QED BY <1>7, <1>8, <1>9 DEF Counted


\* The lists stay complete.
LEMMA PlacedChange ==
  ASSUME NEW s \in Scheduler, NEW t, Placed(s), NEW c \in QueueChan,
         NEW p, NEW l, p = QueueOf(c), l = LinkOf(c),
         NEW pkts, NEW lcids, NEW channels, NEW cnt, NEW pkt, NEW queued,
         Becomes(s, t, c, p, l, pkts, lcids, channels, cnt, pkt, queued),
         Range(channels) \subseteq Members(p, l),
         Range(s.lcidList[p]) \subseteq Range(lcids) \cup {l},
         \A d \in Members(p, l) : t.pktList[d] # <<>> => d \in Range(channels) /\ l \in Range(lcids)
  PROVE  Placed(t)
<1>1. p \in Priority /\ l \in Lcid
  BY ChannelIs
<1>2. /\ t \in Scheduler
      /\ \A d \in QueueChan : t.pktList[d] = IF d = c THEN pkts ELSE s.pktList[d]
      /\ \A q \in Priority : t.lcidList[q] = IF q = p THEN lcids ELSE s.lcidList[q]
      /\ \A q \in Priority, m \in Lcid :
            t.channelList[q][m] = IF q = p /\ m = l THEN channels ELSE s.channelList[q][m]
  BY DEF Becomes
<1>3. ASSUME NEW q \in Priority, NEW m \in Lcid
      PROVE  Range(t.channelList[q][m]) \subseteq Members(q, m)
  <2>1. CASE q = p /\ m = l
    BY <2>1, <1>2
  <2>2. CASE ~(q = p /\ m = l)
    <3>1. t.channelList[q][m] = s.channelList[q][m]
      BY <2>2, <1>2
    <3> QED BY <3>1 DEF Placed
  <2> QED BY <2>1, <2>2
<1>4. ASSUME NEW d \in QueueChan, t.pktList[d] # <<>>
      PROVE  /\ d \in Range(t.channelList[QueueOf(d)][LinkOf(d)])
             /\ LinkOf(d) \in Range(t.lcidList[QueueOf(d)])
  <2>0. QueueOf(d) \in Priority /\ LinkOf(d) \in Lcid
    BY ChannelIs
  <2>1. CASE QueueOf(d) = p /\ LinkOf(d) = l
    <3>1. d \in Members(p, l)
      BY <2>1 DEF Members
    <3>2. d \in Range(channels) /\ l \in Range(lcids)
      BY <3>1, <1>4
    <3>3. t.channelList[p][l] = channels /\ t.lcidList[p] = lcids
      BY <1>1, <1>2
    <3> QED BY <2>1, <3>2, <3>3
  <2>2. CASE ~(QueueOf(d) = p /\ LinkOf(d) = l)
    <3>1. d # c
      BY <2>2
    <3>2. t.pktList[d] = s.pktList[d]
      BY <3>1, <1>2
    <3>3. /\ d \in Range(s.channelList[QueueOf(d)][LinkOf(d)])
          /\ LinkOf(d) \in Range(s.lcidList[QueueOf(d)])
      BY <3>2, <1>4 DEF Placed
    <3>4. t.channelList[QueueOf(d)][LinkOf(d)] = s.channelList[QueueOf(d)][LinkOf(d)]
      BY <2>0, <2>2, <1>2
    <3>5. LinkOf(d) \in Range(t.lcidList[QueueOf(d)])
      <4>1. CASE QueueOf(d) = p
        <5>1. LinkOf(d) # l /\ LinkOf(d) \in Range(s.lcidList[p])
          BY <2>2, <4>1, <3>3
        <5>2. t.lcidList[p] = lcids
          BY <1>1, <1>2
        <5> QED BY <4>1, <5>1, <5>2
      <4>2. CASE QueueOf(d) # p
        <5>1. t.lcidList[QueueOf(d)] = s.lcidList[QueueOf(d)]
          BY <2>0, <4>2, <1>2
        <5> QED BY <5>1, <3>3
      <4> QED BY <4>1, <4>2
    <3> QED BY <3>3, <3>4, <3>5
  <2> QED BY <2>1, <2>2
<1> QED BY <1>3, <1>4 DEF Placed

\* The lists of all other queues, and of this one the links in front.
SameFront(s, t) ==
    \A q \in Priority :
        /\ Len(t.lcidList[q]) >= Len(s.lcidList[q])
        /\ \A i \in 1 .. Len(s.lcidList[q]) : t.lcidList[q][i] = s.lcidList[q][i]

\* The packets of channel c become pkts; lists and counters follow.
Follows(s, t, links, c, pkts) ==
    /\ t \in Scheduler /\ Placed(t) /\ Counted(t, links)
    /\ t.pktList[c] = pkts
    /\ \A d \in QueueChan : d # c => t.pktList[d] = s.pktList[d]

\* A subtraction that does not saturate.
LEMMA SchedSub ==
  ASSUME NEW x \in Nat, NEW n \in Nat, n <= x
  PROVE  DTAP_SCHED_SUB(x, n) \in Nat /\ DTAP_SCHED_SUB(x, n) = x - n
BY DEF DTAP_SCHED_SUB

LEMMA PopCount ==
  ASSUME NEW x \in Nat, NEW a \in Nat, NEW b \in Nat, b = a - 1, a <= x
  PROVE  DTAP_SCHED_SUB(x, 1) \in Nat /\ DTAP_SCHED_SUB(x, 1) + a = x + b
BY DEF DTAP_SCHED_SUB

LEMMA PushFollows ==
  ASSUME NEW s \in Scheduler, NEW c \in QueueChan, NEW pkts \in Seq(Packet),
         Placed(s), Counted(s, Range(bufferList)), Connected(LinkOf(c))
  PROVE  /\ Follows(s, PriorityQueuePush(s, c, pkts), Range(bufferList), c, s.pktList[c] \o pkts)
         /\ SameFront(s, PriorityQueuePush(s, c, pkts))
<1>1. PICK p \in Priority : p = QueueOf(c)
  BY ChannelIs
<1>2. PICK l \in Lcid : l = LinkOf(c)
  BY ChannelIs
<1>3. PICK t : t = PriorityQueuePush(s, c, pkts)
  OBVIOUS
<1>4. /\ s.pktList[c] \in Seq(Packet) /\ s.lcidList[p] \in Seq(Lcid)
      /\ s.channelList[p][l] \in Seq(QueueChan)
      /\ s.lcidPktCnt[p][l] \in Nat /\ s.pktCnt[p] \in Nat /\ s.queuedPktCnt[l] \in Nat
      /\ \A q \in Priority : s.lcidList[q] \in Seq(Lcid)
  BY SchedulerIs
<1> DEFINE pk == s.pktList[c] \o pkts
           ll == Insert(s.lcidList[p], l)
           cl == Insert(s.channelList[p][l], c)
           lc == s.lcidPktCnt[p][l] + Len(pkts)
           pc == s.pktCnt[p] + Len(pkts)
           qc == s.queuedPktCnt[l] + Len(pkts)
<1>5. Fields(s, t, c, p, l, pk, ll, cl, lc, pc, qc)
  BY <1>1, <1>2, <1>3, PushFields
<1>6. Len(pkts) \in Nat /\ Len(s.pktList[c]) \in Nat
  BY <1>4, LenProperties
<1>7. pk \in Seq(Packet) /\ Len(pk) = Len(s.pktList[c]) + Len(pkts)
  BY <1>4, ConcatProperties
<1>8. /\ ll \in Seq(Lcid) /\ Range(ll) = Range(s.lcidList[p]) \cup {l}
      /\ Len(ll) >= Len(s.lcidList[p])
      /\ \A i \in 1 .. Len(s.lcidList[p]) : ll[i] = s.lcidList[p][i]
  <2> DEFINE seq == s.lcidList[p]
  <2>1. seq \in Seq(Lcid)
    BY <1>4
  <2>2. ll = Insert(seq, l)
    OBVIOUS
  <2> HIDE DEF seq, ll
  <2>3. ll \in Seq(Lcid) /\ Range(ll) = Range(seq) \cup {l}
    BY <2>1, <2>2, InsertIs
  <2>4. Len(ll) >= Len(seq)
    <3>1. Len(Insert(seq, l)) >= Len(seq)
      BY <2>1, InsertIs
    <3> QED BY <3>1, <2>2
  <2>5. \A i \in 1 .. Len(seq) : ll[i] = seq[i]
    <3>1. \A i \in 1 .. Len(seq) : Insert(seq, l)[i] = seq[i]
      BY <2>1, InsertIs
    <3> QED BY <3>1, <2>2, Zenon
  <2> QED BY <2>3, <2>4, <2>5 DEF seq
<1>9. cl \in Seq(QueueChan) /\ Range(cl) = Range(s.channelList[p][l]) \cup {c}
  BY <1>4, InsertIs
<1>10. lc \in Nat /\ pc \in Nat /\ qc \in Nat
  <2>1. PICK k \in Nat : k = Len(pkts)
    BY <1>6
  <2>2. \A x \in Nat : x + k \in Nat
    OBVIOUS
  <2> QED BY <2>1, <2>2, <1>4
<1>11. /\ lc + Len(s.pktList[c]) = s.lcidPktCnt[p][l] + Len(pk)
       /\ pc + Len(s.pktList[c]) = s.pktCnt[p] + Len(pk)
       /\ qc + Len(s.pktList[c]) = s.queuedPktCnt[l] + Len(pk)
  <2>1. PICK a \in Nat : a = Len(s.pktList[c])
    BY <1>6
  <2>2. PICK b \in Nat : b = Len(pkts)
    BY <1>6
  <2>3. Len(pk) = a + b
    BY <1>7, <2>1, <2>2
  <2>4. \A x \in Nat : (x + b) + a = x + (a + b)
    OBVIOUS
  <2> HIDE DEF pk
  <2>5. lc + a = s.lcidPktCnt[p][l] + Len(pk)
    BY <1>4, <2>2, <2>3, <2>4
  <2>6. pc + a = s.pktCnt[p] + Len(pk)
    BY <1>4, <2>2, <2>3, <2>4
  <2>7. qc + a = s.queuedPktCnt[l] + Len(pk)
    BY <1>4, <2>2, <2>3, <2>4
  <2> QED BY <2>1, <2>5, <2>6, <2>7
<1> HIDE DEF pk, ll, cl, lc, pc, qc
<1>12. Becomes(s, t, c, p, l, pk, ll, cl, lc, pc, qc)
  BY <1>5, <1>7, <1>8, <1>9, <1>10, FieldsBecome
<1>13. /\ t \in Scheduler
       /\ \A d \in QueueChan : t.pktList[d] = IF d = c THEN pk ELSE s.pktList[d]
       /\ \A q \in Priority : t.lcidList[q] = IF q = p THEN ll ELSE s.lcidList[q]
  BY <1>12 DEF Becomes
<1>14. Counted(t, Range(bufferList))
  <2>1. l \in Range(bufferList)
    BY <1>2 DEF Connected
  <2> QED BY <2>1, <1>1, <1>2, <1>7, <1>10, <1>11, <1>12, CountedChange
<1>15. Placed(t)
  <2>1. Range(cl) \subseteq Members(p, l)
    <3>1. Range(s.channelList[p][l]) \subseteq Members(p, l)
      BY DEF Placed
    <3>2. c \in Members(p, l)
      BY <1>1, <1>2, ChannelIs
    <3> QED BY <3>1, <3>2, <1>9
  <2>2. Range(s.lcidList[p]) \subseteq Range(ll) \cup {l}
    BY <1>8
  <2>3. \A d \in Members(p, l) : t.pktList[d] # <<>> => d \in Range(cl) /\ l \in Range(ll)
    <3> TAKE d \in Members(p, l)
    <3> HAVE t.pktList[d] # <<>>
    <3>1. d \in QueueChan /\ QueueOf(d) = p /\ LinkOf(d) = l
      BY DEF Members
    <3>2. d # c => d \in Range(s.channelList[p][l])
      BY <3>1, <1>13 DEF Placed
    <3> QED BY <3>2, <1>8, <1>9
  <2> QED BY <2>1, <2>2, <2>3, <1>1, <1>2, <1>12, PlacedChange
<1>16. SameFront(s, t)
  <2>1. \A q \in Priority : Len(s.lcidList[q]) \in Nat
    BY <1>4, LenProperties
  <2> QED BY <2>1, <1>8, <1>13 DEF SameFront
<1>17. Follows(s, t, Range(bufferList), c, pk)
  BY <1>13, <1>14, <1>15 DEF Follows
<1> QED BY <1>3, <1>16, <1>17 DEF pk

LEMMA PopFollows ==
  ASSUME NEW s \in Scheduler, NEW c \in QueueChan, s.pktList[c] # <<>>,
         NEW links, Placed(s), Counted(s, links), LinkOf(c) \in links
  PROVE  /\ Follows(s, PriorityQueuePop(s, c), links, c, Tail(s.pktList[c]))
         /\ PriorityQueuePop(s, c).lcidList = s.lcidList
<1>1. PICK p \in Priority : p = QueueOf(c)
  BY ChannelIs
<1>2. PICK l \in Lcid : l = LinkOf(c)
  BY ChannelIs
<1>3. PICK t : t = PriorityQueuePop(s, c)
  OBVIOUS
<1>4. /\ s.pktList[c] \in Seq(Packet) /\ s.lcidList[p] \in Seq(Lcid)
      /\ s.channelList[p][l] \in Seq(QueueChan)
      /\ s.lcidPktCnt[p][l] \in Nat /\ s.pktCnt[p] \in Nat /\ s.queuedPktCnt[l] \in Nat
      /\ s.lcidList \in [Priority -> Seq(Lcid)]
  BY SchedulerIs
<1> DEFINE pk == Tail(s.pktList[c])
           ll == s.lcidList[p]
           cl == IF pk = <<>> THEN s.channelList[p][l]
                 ELSE Append(Without(s.channelList[p][l], c), c)
           lc == DTAP_SCHED_SUB(s.lcidPktCnt[p][l], 1)
           pc == DTAP_SCHED_SUB(s.pktCnt[p], 1)
           qc == DTAP_SCHED_SUB(s.queuedPktCnt[l], 1)
<1>5. Fields(s, t, c, p, l, pk, ll, cl, lc, pc, qc)
  BY <1>1, <1>2, <1>3, PopFields
<1>6. Len(s.pktList[c]) \in Nat /\ Len(s.pktList[c]) >= 1
  BY <1>4, LenProperties, EmptySeq
<1>7. pk \in Seq(Packet) /\ Len(pk) = Len(s.pktList[c]) - 1
  BY <1>4, HeadTailProperties
<1>8. c \in Range(s.channelList[p][l]) /\ l \in Range(ll)
  BY <1>1, <1>2 DEF Placed
<1>9. cl \in Seq(QueueChan) /\ Range(cl) = Range(s.channelList[p][l])
  <2>1. CASE pk = <<>>
    BY <2>1, <1>4
  <2>2. CASE pk # <<>>
    <3> DEFINE w == Without(s.channelList[p][l], c)
    <3>1. w \in Seq(QueueChan) /\ Range(w) = Range(s.channelList[p][l]) \ {c}
      BY <1>4, WithoutIs
    <3>2. cl = Append(w, c)
      BY <2>2
    <3> HIDE DEF w, cl
    <3>3. Append(w, c) \in Seq(QueueChan) /\ Range(Append(w, c)) = Range(w) \cup {c}
      BY <3>1, RangeAppend
    <3> QED BY <3>1, <3>2, <3>3, <1>8
  <2> QED BY <2>1, <2>2
<1>10. /\ Len(s.pktList[c]) <= s.lcidPktCnt[p][l] /\ Len(s.pktList[c]) <= s.pktCnt[p]
       /\ Len(s.pktList[c]) <= s.queuedPktCnt[l]
  BY <1>1, <1>2, CountedBounds
<1>11. /\ lc \in Nat /\ pc \in Nat /\ qc \in Nat
       /\ lc + Len(s.pktList[c]) = s.lcidPktCnt[p][l] + Len(pk)
       /\ pc + Len(s.pktList[c]) = s.pktCnt[p] + Len(pk)
       /\ qc + Len(s.pktList[c]) = s.queuedPktCnt[l] + Len(pk)
  <2> HIDE DEF pk
  <2>1. PICK a \in Nat : a = Len(s.pktList[c])
    BY <1>6
  <2>2. PICK b \in Nat : b = Len(pk) /\ b = a - 1 /\ a = Len(s.pktList[c])
    BY <1>6, <1>7, <2>1
  <2>3. lc \in Nat /\ lc + a = s.lcidPktCnt[p][l] + Len(pk)
    <3>1. PICK x \in Nat : x = s.lcidPktCnt[p][l] /\ a <= x
      BY <1>4, <1>10, <2>2
    <3>2. DTAP_SCHED_SUB(x, 1) \in Nat /\ DTAP_SCHED_SUB(x, 1) + a = x + b
      BY <3>1, <2>2, PopCount
    <3> QED BY <3>1, <3>2, <2>2, Zenon
  <2>4. pc \in Nat /\ pc + a = s.pktCnt[p] + Len(pk)
    <3>1. PICK x \in Nat : x = s.pktCnt[p] /\ a <= x
      BY <1>4, <1>10, <2>2
    <3>2. DTAP_SCHED_SUB(x, 1) \in Nat /\ DTAP_SCHED_SUB(x, 1) + a = x + b
      BY <3>1, <2>2, PopCount
    <3> QED BY <3>1, <3>2, <2>2, Zenon
  <2>5. qc \in Nat /\ qc + a = s.queuedPktCnt[l] + Len(pk)
    <3>1. PICK x \in Nat : x = s.queuedPktCnt[l] /\ a <= x
      BY <1>4, <1>10, <2>2
    <3>2. DTAP_SCHED_SUB(x, 1) \in Nat /\ DTAP_SCHED_SUB(x, 1) + a = x + b
      BY <3>1, <2>2, PopCount
    <3> QED BY <3>1, <3>2, <2>2, Zenon
  <2> QED BY <2>2, <2>3, <2>4, <2>5
<1> HIDE DEF pk, cl, lc, pc, qc
<1>12. Becomes(s, t, c, p, l, pk, ll, cl, lc, pc, qc)
  BY <1>4, <1>5, <1>7, <1>9, <1>11, FieldsBecome
<1>13. /\ t \in Scheduler
       /\ \A d \in QueueChan : t.pktList[d] = IF d = c THEN pk ELSE s.pktList[d]
       /\ \A q \in Priority : t.lcidList[q] = IF q = p THEN ll ELSE s.lcidList[q]
  BY <1>12 DEF Becomes
<1>14. Counted(t, links)
  <2>1. l \in links
    BY <1>2
  <2> QED BY <2>1, <1>1, <1>2, <1>7, <1>11, <1>12, CountedChange
<1>15. Placed(t)
  <2>1. Range(cl) \subseteq Members(p, l)
    BY <1>9 DEF Placed
  <2>2. Range(s.lcidList[p]) \subseteq Range(ll) \cup {l}
    OBVIOUS
  <2>3. \A d \in Members(p, l) : t.pktList[d] # <<>> => d \in Range(cl) /\ l \in Range(ll)
    <3> TAKE d \in Members(p, l)
    <3> HAVE t.pktList[d] # <<>>
    <3>1. d \in QueueChan /\ QueueOf(d) = p /\ LinkOf(d) = l
      BY DEF Members
    <3>2. d # c => d \in Range(s.channelList[p][l])
      BY <3>1, <1>13 DEF Placed
    <3> QED BY <3>2, <1>8, <1>9
  <2> QED BY <2>1, <2>2, <2>3, <1>1, <1>2, <1>12, PlacedChange
<1>16. t.lcidList = s.lcidList
  <2>1. \A q \in Priority : t.lcidList[q] = s.lcidList[q]
    BY <1>13
  <2>2. t.lcidList \in [Priority -> Seq(Lcid)]
    BY <1>13, SchedulerIs
  <2> QED BY <2>1, <2>2, <1>4
<1>17. Follows(s, t, links, c, pk)
  BY <1>13, <1>14, <1>15 DEF Follows
<1> QED BY <1>3, <1>16, <1>17 DEF pk


\* Nothing waits in queue p for link l.
LEMMA WaitsNothing ==
  ASSUME NEW s \in Scheduler, NEW p, NEW l
  PROVE  Waits(s, p, l) = 0 <=> Clear(s, p, l)
<1>1. PICK M : M = Members(p, l)
  OBVIOUS
<1>2. IsFiniteSet(M) /\ M \subseteq QueueChan
  BY <1>1, FiniteSets DEF Members
<1>3. \A c \in M : Lengths(s)[c] \in Nat /\ Lengths(s)[c] = Len(s.pktList[c])
  BY <1>2, WaitsType
<1>4. SumFunctionOnSet(Lengths(s), M) = 0 <=> \A c \in M : Lengths(s)[c] = 0
  <2>1. \A c \in M : Lengths(s)[c] \in Nat
    BY <1>3
  <2> QED BY <1>2, <2>1, SumZero
<1>5. \A c \in M : Lengths(s)[c] = 0 <=> s.pktList[c] = <<>>
  <2> TAKE c \in M
  <2>1. s.pktList[c] \in Seq(Packet)
    BY <1>2, SchedulerIs
  <2>2. Len(s.pktList[c]) = 0 <=> s.pktList[c] = <<>>
    BY <2>1, EmptySeq
  <2> QED BY <2>2, <1>3
<1>6. Waits(s, p, l) = 0 <=> \A c \in M : s.pktList[c] = <<>>
  BY <1>1, <1>4, <1>5 DEF Waits
<1> QED BY <1>1, <1>6 DEF Clear

\* Channel c is the only one of its queue and link with packets.
LEMMA OnlyChannel ==
  ASSUME NEW s \in Scheduler, NEW c \in QueueChan,
         \A d \in Members(QueueOf(c), LinkOf(c)) : d # c => s.pktList[d] = <<>>
  PROVE  Waits(s, QueueOf(c), LinkOf(c)) = Len(s.pktList[c])
<1>1. PICK M : M = Members(QueueOf(c), LinkOf(c))
  OBVIOUS
<1>2. IsFiniteSet(M) /\ M \subseteq QueueChan /\ c \in M
  BY <1>1, FiniteSets, ChannelIs DEF Members
<1>3. \A d \in M : Lengths(s)[d] \in Nat /\ Lengths(s)[d] = Len(s.pktList[d])
  BY <1>2, WaitsType
<1> DEFINE zero == [d \in M |-> 0]
<1>4. \A d \in M : zero[d] = 0 /\ zero[d] \in Nat
  OBVIOUS
<1> HIDE DEF zero
<1>5. SumFunctionOnSet(zero, M) = 0
  BY <1>2, <1>4, SumZero
<1>6. \A d \in M : d # c => Lengths(s)[d] = 0
  <2> TAKE d \in M
  <2> HAVE d # c
  <2>1. s.pktList[d] = <<>>
    BY <1>1
  <2>2. Len(<<>>) = 0
    OBVIOUS
  <2> QED BY <2>1, <2>2, <1>3, Zenon
<1>7. /\ SumFunctionOnSet(Lengths(s), M) \in Nat
      /\ SumFunctionOnSet(zero, M) + Lengths(s)[c] = SumFunctionOnSet(Lengths(s), M) + zero[c]
  <2>1. /\ \A d \in M : Lengths(s)[d] \in Nat
        /\ \A d \in M : zero[d] \in Nat
        /\ \A d \in M : d # c => Lengths(s)[d] = zero[d]
    BY <1>3, <1>4, <1>6
  <2> QED BY <1>2, <2>1, SumUpdate
<1>8. SumFunctionOnSet(Lengths(s), M) = Lengths(s)[c]
  <2>1. PICK x \in Nat : x = SumFunctionOnSet(Lengths(s), M)
    BY <1>7
  <2>2. PICK y \in Nat : y = Lengths(s)[c]
    BY <1>2, <1>3
  <2>3. 0 + y = x + 0
    BY <2>1, <2>2, <1>2, <1>4, <1>5, <1>7
  <2> QED BY <2>1, <2>2, <2>3
<1> QED BY <1>1, <1>2, <1>3, <1>8 DEF Waits

LEMMA DownFollows ==
  ASSUME NEW s \in Scheduler, NEW c \in QueueChan,
         NEW links, Placed(s), Counted(s, links), LinkOf(c) \in links
  PROVE  Follows(s, ChannelDownProc(s, c), links, c, <<>>)
<1>1. PICK p \in Priority : p = QueueOf(c)
  BY ChannelIs
<1>2. PICK l \in Lcid : l = LinkOf(c)
  BY ChannelIs
<1>3. PICK t : t = ChannelDownProc(s, c)
  OBVIOUS
<1>4. CASE c \notin Range(s.channelList[p][l])
  <2>1. t = s
    BY <1>1, <1>2, <1>3, <1>4 DEF ChannelDownProc
  <2>2. s.pktList[c] = <<>>
    BY <1>1, <1>2, <1>4 DEF Placed
  <2> QED BY <1>3, <2>1, <2>2 DEF Follows
<1>5. CASE c \in Range(s.channelList[p][l])
  <2>1. /\ s.pktList[c] \in Seq(Packet) /\ s.lcidList[p] \in Seq(Lcid)
        /\ s.channelList[p][l] \in Seq(QueueChan)
        /\ s.lcidPktCnt[p][l] \in Nat /\ s.pktCnt[p] \in Nat /\ s.queuedPktCnt[l] \in Nat
        /\ s.lcidList \in [Priority -> Seq(Lcid)]
    BY SchedulerIs
  <2>2. PICK n \in Nat : n = Len(s.pktList[c])
    BY <2>1, LenProperties
  <2> DEFINE cl == Without(s.channelList[p][l], c)
             ll == IF cl = <<>> THEN Without(s.lcidList[p], l) ELSE s.lcidList[p]
             lc == IF cl = <<>> THEN 0 ELSE DTAP_SCHED_SUB(s.lcidPktCnt[p][l], n)
             pc == DTAP_SCHED_SUB(s.pktCnt[p], n)
             qc == DTAP_SCHED_SUB(s.queuedPktCnt[l], n)
  <2>3. Fields(s, t, c, p, l, <<>>, ll, cl, lc, pc, qc)
    BY <1>1, <1>2, <1>3, <1>5, <2>2, DownFields
  <2>4. cl \in Seq(QueueChan) /\ Range(cl) = Range(s.channelList[p][l]) \ {c}
    BY <2>1, WithoutIs
  <2>5. ll \in Seq(Lcid) /\ Range(s.lcidList[p]) \subseteq Range(ll) \cup {l}
    <3>1. Without(s.lcidList[p], l) \in Seq(Lcid) /\ Range(Without(s.lcidList[p], l)) = Range(s.lcidList[p]) \ {l}
      BY <2>1, WithoutIs
    <3> HIDE DEF cl
    <3> QED BY <3>1, <2>1
  <2>6. cl # <<>> => ll = s.lcidList[p]
    OBVIOUS
  <2>7. \A d \in Members(p, l) : d # c /\ s.pktList[d] # <<>> =>
           d \in Range(cl) /\ l \in Range(s.lcidList[p])
    <3> TAKE d \in Members(p, l)
    <3> HAVE d # c /\ s.pktList[d] # <<>>
    <3>1. d \in QueueChan /\ QueueOf(d) = p /\ LinkOf(d) = l
      BY DEF Members
    <3>2. d \in Range(s.channelList[p][l]) /\ l \in Range(s.lcidList[p])
      BY <3>1 DEF Placed
    <3> HIDE DEF cl
    <3> QED BY <3>2, <2>4
  <2>8. cl = <<>> => s.lcidPktCnt[p][l] = n
    <3> HAVE cl = <<>>
    <3>1. Range(cl) = {}
      BY <2>4, RangeEmpty
    <3> HIDE DEF cl
    <3>2. \A d \in Members(p, l) : d # c => s.pktList[d] = <<>>
      BY <3>1, <2>7
    <3>3. Waits(s, p, l) = n
      BY <1>1, <1>2, <2>2, <3>2, OnlyChannel
    <3> QED BY <3>3 DEF Counted
  <2>9. n <= s.lcidPktCnt[p][l] /\ n <= s.pktCnt[p] /\ n <= s.queuedPktCnt[l]
    BY <1>1, <1>2, <2>2, CountedBounds
  <2>10. lc \in Nat /\ lc + n = s.lcidPktCnt[p][l] + 0
    <3>1. PICK x \in Nat : x = s.lcidPktCnt[p][l] /\ n <= x
      BY <2>1, <2>9
    <3>2. DTAP_SCHED_SUB(x, n) \in Nat /\ DTAP_SCHED_SUB(x, n) = x - n
      BY <3>1, SchedSub
    <3>3. CASE cl = <<>>
      <4>1. x = n /\ lc = 0
        BY <3>1, <3>3, <2>8
      <4> HIDE DEF lc
      <4> QED BY <3>1, <4>1
    <3>4. CASE cl # <<>>
      <4>1. lc = DTAP_SCHED_SUB(x, n)
        BY <3>1, <3>4
      <4> HIDE DEF lc
      <4> QED BY <3>1, <3>2, <4>1
    <3> QED BY <3>3, <3>4
  <2>11. pc \in Nat /\ pc + n = s.pktCnt[p] + 0
    <3>1. PICK x \in Nat : x = s.pktCnt[p] /\ n <= x
      BY <2>1, <2>9
    <3>2. DTAP_SCHED_SUB(x, n) \in Nat /\ DTAP_SCHED_SUB(x, n) + n = x + 0
      <4>1. PICK y \in Nat : y = DTAP_SCHED_SUB(x, n) /\ y = x - n
        BY <3>1, SchedSub
      <4>2. y + n = x + 0
        BY <4>1
      <4> QED BY <4>1, <4>2
    <3> QED BY <3>1, <3>2, Zenon
  <2>12. qc \in Nat /\ qc + n = s.queuedPktCnt[l] + 0
    <3>1. PICK x \in Nat : x = s.queuedPktCnt[l] /\ n <= x
      BY <2>1, <2>9
    <3>2. DTAP_SCHED_SUB(x, n) \in Nat /\ DTAP_SCHED_SUB(x, n) + n = x + 0
      <4>1. PICK y \in Nat : y = DTAP_SCHED_SUB(x, n) /\ y = x - n
        BY <3>1, SchedSub
      <4>2. y + n = x + 0
        BY <4>1
      <4> QED BY <4>1, <4>2
    <3> QED BY <3>1, <3>2, Zenon
  <2> HIDE DEF cl, ll, lc, pc, qc
  <2>13. <<>> \in Seq(Packet) /\ Len(<<>>) = 0
    OBVIOUS
  <2>14. Becomes(s, t, c, p, l, <<>>, ll, cl, lc, pc, qc)
    BY <2>3, <2>4, <2>5, <2>10, <2>11, <2>12, <2>13, FieldsBecome
  <2>15. /\ t \in Scheduler
         /\ \A d \in QueueChan : t.pktList[d] = IF d = c THEN <<>> ELSE s.pktList[d]
    BY <2>14 DEF Becomes
  <2>16. Counted(t, links)
    <3>1. l \in links
      BY <1>2
    <3>2. /\ lc + Len(s.pktList[c]) = s.lcidPktCnt[p][l] + Len(<<>>)
          /\ pc + Len(s.pktList[c]) = s.pktCnt[p] + Len(<<>>)
          /\ qc + Len(s.pktList[c]) = s.queuedPktCnt[l] + Len(<<>>)
      BY <2>2, <2>10, <2>11, <2>12, <2>13, Zenon
    <3> QED BY <3>1, <3>2, <1>1, <1>2, <2>10, <2>11, <2>12, <2>13, <2>14, CountedChange
  <2>17. Placed(t)
    <3>1. Range(cl) \subseteq Members(p, l)
      BY <2>4 DEF Placed
    <3>2. \A d \in Members(p, l) : t.pktList[d] # <<>> => d \in Range(cl) /\ l \in Range(ll)
      <4> TAKE d \in Members(p, l)
      <4> HAVE t.pktList[d] # <<>>
      <4>1. d \in QueueChan
        BY DEF Members
      <4>2. d # c /\ s.pktList[d] # <<>>
        BY <4>1, <2>15
      <4>3. d \in Range(cl) /\ l \in Range(s.lcidList[p])
        BY <4>2, <2>7
      <4>4. cl # <<>>
        BY <4>3, <2>4, RangeEmpty
      <4> QED BY <4>3, <4>4, <2>6
    <3> QED BY <3>1, <3>2, <1>1, <1>2, <2>5, <2>14, PlacedChange
  <2> QED BY <1>3, <2>15, <2>16, <2>17 DEF Follows
<1> QED BY <1>4, <1>5

\* A channel goes, and the fragment channel of its link with it.
LEMMA ChannelDownFollows ==
  ASSUME NEW s \in Scheduler, NEW c \in Chan, NEW links,
         Placed(s), Counted(s, links), LcidOf[c] \in links
  PROVE  /\ ChannelDown(s, c) \in Scheduler /\ Placed(ChannelDown(s, c))
         /\ Counted(ChannelDown(s, c), links)
         /\ \A d \in QueueChan :
               ChannelDown(s, c).pktList[d] =
                  IF d = c \/ d = LcidOf[c] THEN <<>> ELSE s.pktList[d]
<1>1. c \notin Lcid /\ LcidOf[c] \in Lcid
  BY SchedulerAssumption
<1>2. PICK l \in Lcid : l = LcidOf[c]
  BY <1>1
<1>3. /\ LinkOf(c) = l /\ LinkOf(l) = l /\ c \in QueueChan /\ l \in QueueChan /\ c # l
  BY <1>1, <1>2 DEF LinkOf, QueueChan
<1>4. PICK u : u = ChannelDownProc(s, l)
  OBVIOUS
<1>5. PICK t : t = ChannelDownProc(u, c)
  OBVIOUS
<1>6. ChannelDown(s, c) = t
  BY <1>3, <1>4, <1>5 DEF ChannelDown
<1>7. Follows(s, u, links, l, <<>>)
  BY <1>2, <1>3, <1>4, DownFollows
<1>8. Follows(u, t, links, c, <<>>)
  <2>1. u \in Scheduler /\ Placed(u) /\ Counted(u, links)
    BY <1>7 DEF Follows
  <2> QED BY <2>1, <1>2, <1>3, <1>5, DownFollows
<1>9. \A d \in QueueChan : t.pktList[d] = IF d = c \/ d = l THEN <<>> ELSE s.pktList[d]
  <2> TAKE d \in QueueChan
  <2>1. u.pktList[l] = <<>> /\ t.pktList[c] = <<>>
    BY <1>7, <1>8 DEF Follows
  <2>2. (d # l => u.pktList[d] = s.pktList[d]) /\ (d # c => t.pktList[d] = u.pktList[d])
    BY <1>7, <1>8 DEF Follows
  <2> QED BY <2>1, <2>2
<1> QED BY <1>2, <1>6, <1>8, <1>9 DEF Follows


-----------------------------------------------------------------------------
(***************************************************************************)
(* The quotas.                                                             *)
(***************************************************************************)
\* A quota is a number, whatever the links, the queued packets and the buffers.
LEMMA QuotaType ==
  ASSUME NEW links \in Seq(Lcid), NEW queued \in [Lcid -> Nat], NEW num \in Nat,
         NEW l \in Range(links)
  PROVE  LcidQuota(links, queued, num)[l] \in Nat
<1>1. Range(links) \subseteq Lcid /\ IsFiniteSet(Range(links)) /\ Len(links) \in Nat
  BY RangeIs, FiniteSets, FS_Subset, LenProperties
<1>2. TotalQueuedPktCnt(links, queued) \in Nat
  <2> DEFINE Pkts(m) == {m} \X (1 .. queued[m])
             All == {Pkts(m) : m \in Range(links)}
  <2>1. IsFiniteSet(All)
    <3> DEFINE f == [m \in Range(links) |-> Pkts(m)]
    <3>1. f \in Surjection(Range(links), All)
      BY DEF Surjection
    <3> HIDE DEF All, f
    <3> QED BY <3>1, <1>1, FS_Surjection
  <2>2. ASSUME NEW m \in Range(links)
        PROVE  IsFiniteSet(Pkts(m))
    <3>1. queued[m] \in Int /\ 1 \in Int
      BY <1>1
    <3>2. IsFiniteSet({m})
      BY FS_Singleton
    <3>3. IsFiniteSet(1 .. queued[m])
      BY <3>1, FS_Interval
    <3> QED BY <3>2, <3>3, FS_Product
  <2>3. \A T \in All : IsFiniteSet(T)
    BY <2>2
  <2> HIDE DEF All
  <2>4. IsFiniteSet(UNION All)
    BY <2>1, <2>3, FS_UNION
  <2>5. Cardinality(UNION All) \in Nat
    BY <2>4, FS_CardinalityType
  <2> QED BY <2>5 DEF TotalQueuedPktCnt, All
<1>3. PICK total \in Nat : total = TotalQueuedPktCnt(links, queued)
  BY <1>2
<1>4. PICK pool \in Nat : pool = BonusPool(links, num)
  <2>1. PICK k \in Nat : k = Len(links) * DTAP_MIN_BUFFER_NUM
    BY <1>1 DEF DTAP_MIN_BUFFER_NUM
  <2>2. num > k => num - k \in Nat
    BY <2>1
  <2> QED BY <2>1, <2>2 DEF BonusPool
<1>5. PICK n \in Nat : n = queued[l]
  BY <1>1
<1>6. CASE total = 0
  <2>1. LcidQuota(links, queued, num) = [m \in Range(links) |-> DTAP_MIN_BUFFER_NUM]
    BY <1>3, <1>6 DEF LcidQuota
  <2> QED BY <2>1 DEF DTAP_MIN_BUFFER_NUM
<1>7. CASE total # 0
  <2>1. \E extra : LcidQuota(links, queued, num)[l] =
          1 + FloorBonus(pool, queued[l], total) + (IF l \in extra THEN 1 ELSE 0)
    BY <1>3, <1>4, <1>7 DEF LcidQuota, DTAP_MIN_BUFFER_NUM
  <2>2. FloorBonus(pool, n, total) \in Nat
    <3>1. pool * n \in Nat
      OBVIOUS
    <3>2. \A x \in Nat : x \div total \in Nat
      BY <1>7
    <3> QED BY <3>1, <3>2 DEF FloorBonus
  <2>3. PICK b \in Nat : b = FloorBonus(pool, queued[l], total)
    BY <2>2, <1>5
  <2> QED BY <2>1, <2>3
<1> QED BY <1>6, <1>7


-----------------------------------------------------------------------------
(***************************************************************************)
(* The steps.  The inductive invariant in three parts: what the controller *)
(* holds, what waits, and the rest.                                        *)
(***************************************************************************)
CreditsOK ==
    /\ bufferList \in Seq(Lcid)
    /\ quota \in [Lcid -> Nat]
    /\ sendNotAck \in [Lcid -> Nat]
    /\ gSendNotAck \in Nat
    /\ apBufferNum \in Nat
    /\ inflight \in [Lcid -> Nat]
    /\ CreditsMatchController

QueuesOK == sched \in Scheduler /\ Queues

RunOK ==
    /\ run \in [at : {"idle", "queue", "lcid"}, priority : 0 .. DTAP_PRIORITY_NORMAL + 1,
                pos : Nat \ {0}, scheduled : SUBSET Lcid]
    /\ run.at = "lcid" => run.priority \in Priority

RestOK ==
    /\ losing \in SUBSET Lcid
    /\ up \in SUBSET Chan
    /\ created \in [Chan -> Nat]
    /\ last \in [Lcid -> Packet \cup {Nothing}]
    /\ faults \in [downs : Nat, disconnects : Nat]

LEMMA IInvParts == IInv <=> CreditsOK /\ QueuesOK /\ RunOK /\ RestOK
BY DEF IInv, TypeOK, CreditsOK, QueuesOK, RunOK, RestOK

LEMMA IInvPartsNext == IInv' <=> CreditsOK' /\ QueuesOK' /\ RunOK' /\ RestOK'
BY DEF IInv, TypeOK, CreditsOK, QueuesOK, RunOK, RestOK

LEMMA CreditsSame ==
  ASSUME CreditsOK, UNCHANGED <<bufVars, inflight>>
  PROVE  CreditsOK'
BY DEF CreditsOK, bufVars, CreditsMatchController, Held

LEMMA QueuesSame ==
  ASSUME QueuesOK, UNCHANGED <<sched, bufferList, up>>
  PROVE  QueuesOK'
BY DEF QueuesOK, Queues, Connected

LEMMA RestSame ==
  ASSUME RestOK, UNCHANGED <<losing, up, created, last, faults>>
  PROVE  RestOK'
BY DEF RestOK

LEMMA RunSame ==
  ASSUME RunOK, UNCHANGED run
  PROVE  RunOK'
BY DEF RunOK

LEMMA RunFields ==
  ASSUME RunOK
  PROVE  /\ run.at \in {"idle", "queue", "lcid"} /\ run.priority \in 0 .. 4
         /\ run.pos \in Nat \ {0} /\ run.scheduled \in SUBSET Lcid
         /\ run.at = "lcid" => run.priority \in Priority
         /\ run = [at |-> run.at, priority |-> run.priority, pos |-> run.pos, scheduled |-> run.scheduled]
BY DEF RunOK, DTAP_PRIORITY_NORMAL

LEMMA IdleOK ==
  ASSUME run' = Idle \/ StartRun
  PROVE  RunOK'
<1>1. run' = [at |-> "idle", priority |-> 0, pos |-> 1, scheduled |-> {}] \/
      run' = [at |-> "queue", priority |-> 0, pos |-> 1, scheduled |-> {}]
  BY DEF Idle, StartRun
<1> QED BY <1>1 DEF RunOK, DTAP_PRIORITY_NORMAL

\* The first channel that has packets.
LEMMA PeekIs ==
  ASSUME NEW s \in Scheduler, NEW p \in Priority, NEW l \in Lcid, Placed(s), CanPeek(s, p, l)
  PROVE  LET c == PriorityQueuePeek(s, p, l)
         IN  /\ c \in QueueChan /\ c \in Members(p, l)
             /\ QueueOf(c) = p /\ LinkOf(c) = l
             /\ s.pktList[c] # <<>>
<1> DEFINE S == {c \in QueueChan : s.pktList[c] # <<>>}
           a == Among(s.channelList[p][l], S)
<1>1. s.channelList[p][l] \in Seq(QueueChan)
  BY SchedulerIs
<1>2. a \in Seq(QueueChan) /\ Range(a) = Range(s.channelList[p][l]) \cap S
  BY <1>1, AmongIs
<1>3. Range(s.channelList[p][l]) \subseteq Members(p, l)
  BY DEF Placed
<1>4. \E c \in Range(s.channelList[p][l]) : c \in S
  BY <1>3 DEF CanPeek, Members
<1>5. PriorityQueuePeek(s, p, l) = Head(a)
  BY DEF PriorityQueuePeek
<1>6. \A c \in S : c \in QueueChan /\ s.pktList[c] # <<>>
  OBVIOUS
<1> HIDE DEF S, a
<1>7. a # <<>>
  BY <1>2, <1>4, RangeEmpty
<1>8. Head(a) \in Range(a)
  <2>1. Head(a) = a[1] /\ Len(a) \in Nat /\ Len(a) # 0
    BY <1>2, <1>7, EmptySeq, LenProperties, HeadTailProperties
  <2>2. 1 \in 1 .. Len(a)
    BY <2>1
  <2> QED BY <1>2, <2>1, <2>2, RangeIs
<1>9. Head(a) \in Members(p, l) /\ Head(a) \in S
  BY <1>2, <1>3, <1>8
<1> QED BY <1>5, <1>6, <1>9 DEF Members

LEMMA AtPacketIs ==
  ASSUME QueuesOK, RunOK, NEW l \in Lcid, NEW c \in QueueChan, AtPacket(l, c)
  PROVE  /\ run.at = "lcid" /\ run.priority \in Priority
         /\ QueueOf(c) = run.priority /\ LinkOf(c) = l /\ c \in Members(run.priority, l)
         /\ sched.pktList[c] # <<>> /\ Head(sched.pktList[c]) \in Packet
         /\ l \in Range(bufferList) /\ CanSend(l)
         /\ run.pos <= Len(sched.lcidList[run.priority])
         /\ l = sched.lcidList[run.priority][run.pos]
<1>1. /\ run.at = "lcid" /\ CanSend(l) /\ CanPeek(sched, run.priority, l)
      /\ c = PriorityQueuePeek(sched, run.priority, l)
      /\ run.pos <= Len(sched.lcidList[run.priority])
      /\ l = sched.lcidList[run.priority][run.pos]
  BY DEF AtPacket, AtLink
<1>2. run.priority \in Priority
  BY <1>1, RunFields
<1>3. sched \in Scheduler /\ Placed(sched)
  BY DEF QueuesOK, Queues
<1>4. /\ QueueOf(c) = run.priority /\ LinkOf(c) = l /\ c \in Members(run.priority, l)
      /\ sched.pktList[c] # <<>>
  BY <1>1, <1>2, <1>3, PeekIs
<1>5. Head(sched.pktList[c]) \in Packet
  <2>1. sched.pktList[c] \in Seq(Packet)
    BY <1>3, SchedulerIs
  <2> QED BY <2>1, <1>4, HeadTailProperties
<1>6. l \in Range(bufferList)
  BY <1>1 DEF CanSend, Connected
<1> QED BY <1>1, <1>2, <1>4, <1>5, <1>6

\* Fragments are handed over: the counters follow, for the link and in all.
LEMMA SendDataCredits ==
  ASSUME CreditsOK, RestOK, NEW l \in Lcid, NEW n \in Nat, NEW frag \in Packet, SendData(l, n, frag)
  PROVE  /\ CreditsOK' /\ last' \in [Lcid -> Packet \cup {Nothing}]
         /\ bufferList' = bufferList /\ quota' = quota /\ apBufferNum' = apBufferNum
         /\ gSendNotAck' = gSendNotAck + n
         /\ sendNotAck'[l] = sendNotAck[l] + n
         /\ inflight'[l] = inflight[l] + n
         /\ \A m \in Lcid : m # l => /\ sendNotAck'[m] = sendNotAck[m]
                                     /\ inflight'[m] = inflight[m]
                                     /\ last'[m] = last[m]
         /\ last'[l] = IF n = 0 THEN last[l] ELSE frag
<1>1. /\ sendNotAck' = [sendNotAck EXCEPT ![l] = @ + n]
      /\ gSendNotAck' = gSendNotAck + n
      /\ inflight' = [inflight EXCEPT ![l] = @ + n]
      /\ last' = [last EXCEPT ![l] = IF n = 0 THEN @ ELSE frag]
      /\ UNCHANGED <<bufferList, quota, apBufferNum>>
  BY DEF SendData
<1>2. /\ sendNotAck \in [Lcid -> Nat] /\ inflight \in [Lcid -> Nat] /\ gSendNotAck \in Nat
      /\ last \in [Lcid -> Packet \cup {Nothing}]
  BY DEF CreditsOK, RestOK
<1>3. /\ sendNotAck' \in [Lcid -> Nat] /\ sendNotAck'[l] = sendNotAck[l] + n
      /\ \A m \in Lcid : m # l => sendNotAck'[m] = sendNotAck[m]
  BY <1>1, <1>2
<1>4. /\ inflight' \in [Lcid -> Nat] /\ inflight'[l] = inflight[l] + n
      /\ \A m \in Lcid : m # l => inflight[m] = inflight'[m]
  BY <1>1, <1>2
<1>5. /\ last' \in [Lcid -> Packet \cup {Nothing}] /\ last'[l] = IF n = 0 THEN last[l] ELSE frag
      /\ \A m \in Lcid : m # l => last'[m] = last[m]
  BY <1>1, <1>2
<1>6. SumFunction(inflight') = SumFunction(inflight) + n /\ SumFunction(inflight) \in Nat
  <2>1. /\ SumFunction(inflight) \in Nat /\ SumFunction(inflight') \in Nat
        /\ SumFunction(inflight') + inflight[l] = SumFunction(inflight) + inflight'[l]
    BY <1>2, <1>4, LinkSum
  <2>2. PICK x \in Nat : x = inflight[l]
    BY <1>2
  <2>3. PICK y \in Nat : y = SumFunction(inflight)
    BY <2>1
  <2>4. PICK z \in Nat : z = SumFunction(inflight')
    BY <2>1
  <2>5. z + x = y + (x + n)
    BY <2>1, <2>2, <2>3, <2>4, <1>4
  <2>6. z = y + n
    BY <2>5
  <2> QED BY <2>3, <2>4, <2>6
<1>7. CreditsMatchController'
  <2>1. \A m \in Lcid : sendNotAck'[m] = inflight'[m]
    BY <1>3, <1>4 DEF CreditsOK, CreditsMatchController
  <2>2. gSendNotAck' = SumFunction(inflight')
    BY <1>1, <1>6 DEF CreditsOK, CreditsMatchController, Held
  <2> QED BY <2>1, <2>2 DEF CreditsMatchController, Held
<1>8. CreditsOK'
  <2>1. gSendNotAck' \in Nat
    BY <1>1, <1>2
  <2> QED BY <1>1, <1>3, <1>4, <1>7, <2>1 DEF CreditsOK
<1> QED BY <1>1, <1>3, <1>4, <1>5, <1>8


\* The links of a queue in another order.
LEMMA RotateFollows ==
  ASSUME NEW s \in Scheduler, NEW p \in Priority, NEW S, NEW links, Placed(s), Counted(s, links),
         NEW t, t = [s EXCEPT !.lcidList[p] = Rotate(@, S)]
  PROVE  t \in Scheduler /\ Placed(t) /\ Counted(t, links) /\ t.pktList = s.pktList
<1>1. s.lcidList \in [Priority -> Seq(Lcid)] /\ s.lcidList[p] \in Seq(Lcid)
  BY SchedulerIs
<1>2. PICK r : r = Rotate(s.lcidList[p], S)
  OBVIOUS
<1>3. r \in Seq(Lcid) /\ Range(r) = Range(s.lcidList[p])
  BY <1>1, <1>2, RotateIs
<1>4. PICK ll : ll = [s.lcidList EXCEPT ![p] = r]
  OBVIOUS
<1>5. t = [pktList |-> s.pktList, lcidList |-> ll, channelList |-> s.channelList,
           lcidPktCnt |-> s.lcidPktCnt, pktCnt |-> s.pktCnt, queuedPktCnt |-> s.queuedPktCnt]
  BY <1>2, <1>4 DEF Scheduler
<1>6. ll \in [Priority -> Seq(Lcid)] /\ \A q \in Priority : Range(ll[q]) = Range(s.lcidList[q])
  BY <1>1, <1>3, <1>4
<1>7. t \in Scheduler
  BY <1>5, <1>6, SchedulerIs DEF Scheduler
<1>8. /\ t.pktList = s.pktList /\ t.lcidList = ll /\ t.channelList = s.channelList
      /\ t.lcidPktCnt = s.lcidPktCnt /\ t.pktCnt = s.pktCnt /\ t.queuedPktCnt = s.queuedPktCnt
  BY <1>5
<1>9. Placed(t)
  <2>1. \A q \in Priority, m \in Lcid : Range(t.channelList[q][m]) \subseteq Members(q, m)
    BY <1>8 DEF Placed
  <2>2. ASSUME NEW c \in QueueChan, t.pktList[c] # <<>>
        PROVE  /\ c \in Range(t.channelList[QueueOf(c)][LinkOf(c)])
               /\ LinkOf(c) \in Range(t.lcidList[QueueOf(c)])
    BY <2>2, <1>6, <1>8, ChannelIs DEF Placed
  <2> QED BY <2>1, <2>2 DEF Placed
<1>10. Counted(t, links)
  <2>1. Lengths(t) = Lengths(s)
    BY <1>8 DEF Lengths
  <2>2. /\ \A q, m : Waits(t, q, m) = Waits(s, q, m)
        /\ \A m : WaitsFor(t, m) = WaitsFor(s, m)
    BY <2>1 DEF Waits, WaitsFor
  <2> QED BY <1>8, <2>2 DEF Counted
<1> QED BY <1>7, <1>8, <1>9, <1>10

\* Channels that have fewer packets need no more channels to exist.
LEMMA QueuesNext ==
  ASSUME QueuesOK, bufferList' = bufferList, up' = up,
         sched' \in Scheduler, Placed(sched'), Counted(sched', Range(bufferList)),
         OnlyUp(sched', up)
  PROVE  QueuesOK'
BY DEF QueuesOK, Queues, Connected

LEMMA RotateQueues ==
  ASSUME QueuesOK, NEW p \in Priority, NEW S, bufferList' = bufferList, up' = up,
         sched' = [sched EXCEPT !.lcidList[p] = Rotate(@, S)]
  PROVE  QueuesOK' /\ sched'.pktList = sched.pktList
<1>1. sched \in Scheduler /\ Placed(sched) /\ Counted(sched, Range(bufferList)) /\ OnlyUp(sched, up)
  BY DEF QueuesOK, Queues
<1>2. /\ sched' \in Scheduler /\ Placed(sched') /\ Counted(sched', Range(bufferList))
      /\ sched'.pktList = sched.pktList
  BY <1>1, RotateFollows
<1>3. OnlyUp(sched', up)
  BY <1>1, <1>2 DEF OnlyUp
<1> QED BY <1>2, <1>3, QueuesNext

\* A packet of channel c is taken.
LEMMA PopQueues ==
  ASSUME QueuesOK, NEW c \in QueueChan, sched.pktList[c] # <<>>, LinkOf(c) \in Range(bufferList),
         NEW t, t = PriorityQueuePop(sched, c)
  PROVE  /\ Follows(sched, t, Range(bufferList), c, Tail(sched.pktList[c]))
         /\ t.lcidList = sched.lcidList
         /\ OnlyUp(t, up)
         /\ up \cap ChannelsOf(LinkOf(c)) # {}
<1>1. sched \in Scheduler /\ Placed(sched) /\ Counted(sched, Range(bufferList)) /\ OnlyUp(sched, up)
  BY DEF QueuesOK, Queues
<1>2. Follows(sched, t, Range(bufferList), c, Tail(sched.pktList[c])) /\ t.lcidList = sched.lcidList
  BY <1>1, PopFollows
<1>3. \A d \in QueueChan : t.pktList[d] # <<>> => sched.pktList[d] # <<>>
  BY <1>2 DEF Follows
<1>4. OnlyUp(t, up)
  BY <1>1, <1>3 DEF OnlyUp, QueueChan
<1>5. up \cap ChannelsOf(LinkOf(c)) # {}
  <2>1. CASE c \in Lcid
    BY <2>1, <1>1 DEF OnlyUp, LinkOf
  <2>2. CASE c \notin Lcid
    BY <2>2, <1>1 DEF OnlyUp, LinkOf, QueueChan, ChannelsOf
  <2> QED BY <2>1, <2>2
<1> QED BY <1>2, <1>4, <1>5

LEMMA RunEndsStep ==
  ASSUME IInv, SchedulerRunEnds
  PROVE  IInv'
<1>1. CreditsOK /\ QueuesOK /\ RunOK /\ RestOK
  BY IInvParts
<1>2. run' = Idle /\ UNCHANGED <<sched, bufVars, losing, ctrlVars, envVars>>
  BY DEF SchedulerRunEnds
<1>3. CreditsOK' /\ QueuesOK' /\ RestOK'
  BY <1>1, <1>2, CreditsSame, QueuesSame, RestSame DEF bufVars, ctrlVars, envVars
<1>4. RunOK'
  BY <1>2, IdleOK
<1> QED BY <1>3, <1>4, IInvPartsNext

LEMMA RunQueueStep ==
  ASSUME IInv, SchedulerRunQueue
  PROVE  IInv'
<1>1. CreditsOK /\ QueuesOK /\ RunOK /\ RestOK
  BY IInvParts
<1>2. UNCHANGED <<sched, bufVars, losing, ctrlVars, envVars>>
  BY DEF SchedulerRunQueue
<1>3. PICK p \in Waiting : run' = [Idle EXCEPT !.at = "lcid", !.priority = p]
  BY DEF SchedulerRunQueue
<1>4. CreditsOK' /\ QueuesOK' /\ RestOK'
  BY <1>1, <1>2, CreditsSame, QueuesSame, RestSame DEF bufVars, ctrlVars, envVars
<1>5. RunOK'
  <2>1. p \in Priority
    BY <1>1, RunFields DEF Waiting, Priority, DTAP_PRIORITY_FRAGMENT, DTAP_PRIORITY_NORMAL
  <2>2. run' = [at |-> "lcid", priority |-> p, pos |-> 1, scheduled |-> {}]
    BY <1>3 DEF Idle
  <2> QED BY <2>1, <2>2 DEF RunOK, Priority, DTAP_PRIORITY_FRAGMENT, DTAP_PRIORITY_NORMAL
<1> QED BY <1>4, <1>5, IInvPartsNext

LEMMA PriorityEndsStep ==
  ASSUME IInv, SchedulePriorityEnds
  PROVE  IInv' /\ sched'.pktList = sched.pktList
<1>1. CreditsOK /\ QueuesOK /\ RunOK /\ RestOK
  BY IInvParts
<1>2. /\ run.at = "lcid"
      /\ sched' = [sched EXCEPT !.lcidList[run.priority] = Rotate(@, run.scheduled)]
      /\ run' = [Idle EXCEPT !.at = "queue", !.priority = run.priority + 1]
      /\ UNCHANGED <<bufVars, losing, ctrlVars, envVars>>
  BY DEF SchedulePriorityEnds
<1>3. run.priority \in Priority
  BY <1>1, <1>2, RunFields
<1>4. CreditsOK' /\ RestOK'
  BY <1>1, <1>2, CreditsSame, RestSame DEF bufVars, ctrlVars, envVars
<1>5. QueuesOK' /\ sched'.pktList = sched.pktList
  BY <1>1, <1>2, <1>3, RotateQueues DEF bufVars, envVars
<1>6. RunOK'
  <2>1. run' = [at |-> "queue", priority |-> run.priority + 1, pos |-> 1, scheduled |-> {}]
    BY <1>2 DEF Idle
  <2>2. run.priority + 1 \in 0 .. 4
    BY <1>3 DEF Priority, DTAP_PRIORITY_FRAGMENT, DTAP_PRIORITY_NORMAL
  <2> QED BY <2>1, <2>2 DEF RunOK, DTAP_PRIORITY_NORMAL
<1> QED BY <1>4, <1>5, <1>6, IInvPartsNext

\* The run goes on, at this link or the next.
LEMMA RunGoesOn ==
  ASSUME RunOK, NEW l \in Lcid, NEW pos \in {run.pos, run.pos + 1},
         NEW sch \in {run.scheduled, run.scheduled \cup {l}},
         run' = [at |-> run.at, priority |-> run.priority, pos |-> pos, scheduled |-> sch]
  PROVE  RunOK'
<1>1. pos \in Nat \ {0}
  BY RunFields
<1>2. sch \in SUBSET Lcid
  BY RunFields
<1>3. run.at \in {"idle", "queue", "lcid"} /\ run.priority \in 0 .. 4 /\ (run.at = "lcid" => run.priority \in Priority)
  BY RunFields
<1> QED BY <1>1, <1>2, <1>3 DEF RunOK, DTAP_PRIORITY_NORMAL

LEMMA NextLcidStep ==
  ASSUME IInv, NEW l \in Lcid, NextLcid(l)
  PROVE  IInv'
<1>1. CreditsOK /\ QueuesOK /\ RunOK /\ RestOK
  BY IInvParts
<1>2. /\ run' = [run EXCEPT !.pos = @ + 1, !.scheduled = IF CanSend(l) THEN @ \cup {l} ELSE @]
      /\ UNCHANGED <<sched, bufVars, losing, ctrlVars, envVars>>
  BY DEF NextLcid
<1>3. CreditsOK' /\ QueuesOK' /\ RestOK'
  BY <1>1, <1>2, CreditsSame, QueuesSame, RestSame DEF bufVars, ctrlVars, envVars
<1>4. PICK sch \in {run.scheduled, run.scheduled \cup {l}} :
         run' = [run EXCEPT !.pos = run.pos + 1, !.scheduled = sch]
  BY <1>2
<1>5. run' = [at |-> run.at, priority |-> run.priority, pos |-> run.pos + 1, scheduled |-> sch]
  BY <1>1, <1>4, RunFields
<1>6. RunOK'
  BY <1>1, <1>5, RunGoesOn
<1> QED BY <1>3, <1>6, IInvPartsNext

LEMMA LcidFailsStep ==
  ASSUME IInv, NEW l \in Lcid, ScheduleLcidFails(l)
  PROVE  IInv'
<1>1. CreditsOK /\ QueuesOK /\ RunOK /\ RestOK
  BY IInvParts
<1>2. PICK c \in QueueChan :
        /\ AtPacket(l, c)
        /\ sched' = [sched EXCEPT !.lcidList[run.priority] = Rotate(@, run.scheduled \cup {l})]
        /\ run' = Idle
        /\ UNCHANGED <<bufVars, losing, ctrlVars, envVars>>
  BY DEF ScheduleLcidFails
<1>3. run.priority \in Priority
  BY <1>1, <1>2, AtPacketIs
<1>4. CreditsOK' /\ RestOK'
  BY <1>1, <1>2, CreditsSame, RestSame DEF bufVars, ctrlVars, envVars
<1>5. QueuesOK'
  BY <1>1, <1>2, <1>3, RotateQueues DEF bufVars, envVars
<1>6. RunOK'
  BY <1>2, IdleOK
<1> QED BY <1>4, <1>5, <1>6, IInvPartsNext


\* A fragment of a packet, and the fragments after the first n, are packets.
LEMMA FragmentIs ==
  ASSUME NEW pkt \in Packet, NEW n \in Nat
  PROVE  /\ [pkt EXCEPT !.idx = n] \in Packet
         /\ [pkt EXCEPT !.idx = n] = [chan |-> pkt.chan, id |-> pkt.id, idx |-> n, cnt |-> pkt.cnt]
         /\ pkt.cnt \in Nat \ {0} /\ pkt.idx \in Nat
BY DEF Packet

LEMMA RemainderIs ==
  ASSUME NEW pkt \in Packet, NEW n \in 0 .. pkt.cnt
  PROVE  /\ Remainder(pkt, n) \in Seq(Packet)
         /\ Len(Remainder(pkt, n)) = pkt.cnt - n
         /\ \A k \in 1 .. pkt.cnt - n : Remainder(pkt, n)[k] = [pkt EXCEPT !.idx = n + k]
<1>0. pkt.cnt \in Nat
  BY DEF Packet
<1>1. PICK m \in Nat : m = pkt.cnt - n
  BY <1>0
<1>2. n \in Nat
  BY <1>0
<1> DEFINE F(k) == [pkt EXCEPT !.idx = n + k]
<1>3. \A k \in 1 .. m : F(k) \in Packet
  <2>1. \A k \in 1 .. m : n + k \in Nat
    BY <1>2
  <2> QED BY <2>1, FragmentIs
<1>4. Remainder(pkt, n) = [k \in 1 .. m |-> F(k)]
  BY <1>1 DEF Remainder
<1> HIDE DEF F
<1>5. /\ Remainder(pkt, n) \in Seq(Packet)
      /\ Len(Remainder(pkt, n)) = m
      /\ \A k \in 1 .. m : Remainder(pkt, n)[k] = F(k)
  BY <1>3, <1>4
<1> QED BY <1>1, <1>5 DEF F

LEMMA SendCntsIs ==
  ASSUME NEW l, NEW cnt \in Nat, NEW n \in SendCnts(l, cnt)
  PROVE  n \in Nat /\ n \in 0 .. cnt /\ gSendNotAck + n <= apBufferNum
BY DEF SendCnts

LEMMA SendFragmentStep ==
  ASSUME IInv, NEW l \in Lcid, SendFragment(l)
  PROVE  IInv'
<1>1. CreditsOK /\ QueuesOK /\ RunOK /\ RestOK
  BY IInvParts
<1>2. PICK c \in QueueChan :
        /\ AtPacket(l, c)
        /\ SendData(l, 1, Head(sched.pktList[c]))
        /\ sched' = PriorityQueuePop(sched, c)
        /\ run' = [run EXCEPT !.scheduled = @ \cup {l}]
        /\ UNCHANGED <<losing, envVars>>
  BY DEF SendFragment
<1>3. /\ LinkOf(c) = l /\ sched.pktList[c] # <<>> /\ Head(sched.pktList[c]) \in Packet
      /\ l \in Range(bufferList)
  BY <1>1, <1>2, AtPacketIs
<1>4. CreditsOK' /\ last' \in [Lcid -> Packet \cup {Nothing}] /\ bufferList' = bufferList
  BY <1>1, <1>2, <1>3, SendDataCredits
<1>5. RestOK'
  BY <1>1, <1>2, <1>4 DEF RestOK, envVars
<1>6. QueuesOK'
  <2>1. /\ Follows(sched, sched', Range(bufferList), c, Tail(sched.pktList[c]))
        /\ OnlyUp(sched', up)
    BY <1>1, <1>2, <1>3, PopQueues
  <2> QED BY <2>1, <1>1, <1>2, <1>4, QueuesNext DEF Follows, envVars
<1>7. RunOK'
  <2>1. run' = [at |-> run.at, priority |-> run.priority, pos |-> run.pos, scheduled |-> run.scheduled \cup {l}]
    BY <1>1, <1>2, RunFields
  <2> QED BY <2>1, <1>1, RunGoesOn
<1> QED BY <1>4, <1>5, <1>6, <1>7, IInvPartsNext

\* The rest of a packet goes to the fragment channel.
LEMMA SaveQueues ==
  ASSUME QueuesOK, NEW c \in QueueChan, sched.pktList[c] # <<>>, NEW l \in Lcid, LinkOf(c) = l,
         l \in Range(bufferList), NEW rest \in Seq(Packet),
         NEW u, u = PriorityQueuePop(sched, c),
         NEW t, t = PriorityQueuePush(u, l, rest)
  PROVE  /\ Follows(u, t, Range(bufferList), l, u.pktList[l] \o rest)
         /\ SameFront(sched, t)
         /\ OnlyUp(t, up)
<1>1. /\ Follows(sched, u, Range(bufferList), c, Tail(sched.pktList[c]))
      /\ u.lcidList = sched.lcidList /\ OnlyUp(u, up) /\ up \cap ChannelsOf(l) # {}
  BY PopQueues
<1>2. u \in Scheduler /\ Placed(u) /\ Counted(u, Range(bufferList))
  BY <1>1 DEF Follows
<1>3. l \in QueueChan /\ LinkOf(l) = l /\ Connected(l)
  BY DEF QueueChan, LinkOf, Connected
<1>4. Follows(u, t, Range(bufferList), l, u.pktList[l] \o rest) /\ SameFront(u, t)
  BY <1>2, <1>3, PushFollows
<1>5. SameFront(sched, t)
  BY <1>1, <1>4 DEF SameFront
<1>6. OnlyUp(t, up)
  <2>1. \A d \in QueueChan : d # l => t.pktList[d] = u.pktList[d]
    BY <1>4 DEF Follows
  <2>2. \A d \in Chan : d \in QueueChan /\ d # l
    BY SchedulerAssumption DEF QueueChan
  <2>3. \A d \in Chan : t.pktList[d] # <<>> => d \in up
    BY <2>1, <2>2, <1>1 DEF OnlyUp
  <2>4. \A m \in Lcid : t.pktList[m] # <<>> => up \cap ChannelsOf(m) # {}
    BY <2>1, <1>1 DEF OnlyUp, QueueChan
  <2> QED BY <2>3, <2>4 DEF OnlyUp
<1> QED BY <1>4, <1>5, <1>6

LEMMA SplitStep ==
  ASSUME IInv, NEW l \in Lcid, SplitAndSend(l)
  PROVE  IInv'
<1>1. CreditsOK /\ QueuesOK /\ RunOK /\ RestOK
  BY IInvParts
<1>2. PICK c \in QueueChan :
        /\ AtPacket(l, c)
        /\ \E n \in SendCnts(l, Head(sched.pktList[c]).cnt) :
             /\ SendData(l, n, [Head(sched.pktList[c]) EXCEPT !.idx = n])
             /\ \/ /\ n = Head(sched.pktList[c]).cnt
                   /\ sched' = PriorityQueuePop(sched, c)
                   /\ run' = [run EXCEPT !.scheduled = @ \cup {l}]
                \/ /\ n < Head(sched.pktList[c]).cnt
                   /\ sched' = PriorityQueuePush(PriorityQueuePop(sched, c), l, Remainder(Head(sched.pktList[c]), n))
                   /\ run' = [run EXCEPT !.pos = @ + 1, !.scheduled = @ \cup {l}]
        /\ UNCHANGED <<losing, envVars>>
  BY DEF SplitAndSend
<1>3. /\ LinkOf(c) = l /\ sched.pktList[c] # <<>> /\ Head(sched.pktList[c]) \in Packet
      /\ l \in Range(bufferList)
  BY <1>1, <1>2, AtPacketIs
<1>4. PICK pkt \in Packet : pkt = Head(sched.pktList[c])
  BY <1>3
<1>5. PICK n \in SendCnts(l, pkt.cnt) :
        /\ SendData(l, n, [pkt EXCEPT !.idx = n])
        /\ \/ /\ n = pkt.cnt
              /\ sched' = PriorityQueuePop(sched, c)
              /\ run' = [run EXCEPT !.scheduled = @ \cup {l}]
           \/ /\ n < pkt.cnt
              /\ sched' = PriorityQueuePush(PriorityQueuePop(sched, c), l, Remainder(pkt, n))
              /\ run' = [run EXCEPT !.pos = @ + 1, !.scheduled = @ \cup {l}]
  BY <1>2, <1>4
<1>6. n \in Nat /\ n \in 0 .. pkt.cnt /\ [pkt EXCEPT !.idx = n] \in Packet
  <2>1. pkt.cnt \in Nat
    BY FragmentIs
  <2>2. n \in Nat /\ n \in 0 .. pkt.cnt
    BY <2>1, SendCntsIs
  <2> QED BY <2>2, FragmentIs
<1>7. CreditsOK' /\ last' \in [Lcid -> Packet \cup {Nothing}] /\ bufferList' = bufferList
  <2>1. SendData(l, n, [pkt EXCEPT !.idx = n])
    BY <1>5
  <2> QED BY <1>1, <1>6, <2>1, SendDataCredits
<1>8. UNCHANGED <<losing, envVars>>
  BY <1>2
<1>9. RestOK' /\ up' = up
  BY <1>1, <1>7, <1>8 DEF RestOK, envVars
<1>10. CASE n = pkt.cnt
  <2>1. sched' = PriorityQueuePop(sched, c) /\ run' = [run EXCEPT !.scheduled = @ \cup {l}]
    BY <1>5, <1>6, <1>10
  <2>2. QueuesOK'
    <3>1. /\ Follows(sched, sched', Range(bufferList), c, Tail(sched.pktList[c]))
          /\ OnlyUp(sched', up)
      BY <1>1, <1>3, <2>1, PopQueues
    <3> QED BY <3>1, <1>1, <1>7, <1>9, QueuesNext DEF Follows
  <2>3. RunOK'
    <3>1. run' = [at |-> run.at, priority |-> run.priority, pos |-> run.pos, scheduled |-> run.scheduled \cup {l}]
      BY <1>1, <2>1, RunFields
    <3> QED BY <3>1, <1>1, RunGoesOn
  <2> QED BY <2>2, <2>3, <1>7, <1>9, IInvPartsNext
<1>11. CASE n # pkt.cnt
  <2>1. /\ sched' = PriorityQueuePush(PriorityQueuePop(sched, c), l, Remainder(pkt, n))
        /\ run' = [run EXCEPT !.pos = @ + 1, !.scheduled = @ \cup {l}]
    BY <1>5, <1>11
  <2>2. QueuesOK'
    <3>1. Remainder(pkt, n) \in Seq(Packet)
      BY <1>6, RemainderIs
    <3>2. PICK u : u = PriorityQueuePop(sched, c)
      OBVIOUS
    <3>3. Follows(u, sched', Range(bufferList), l, u.pktList[l] \o Remainder(pkt, n)) /\ OnlyUp(sched', up)
      BY <1>1, <1>3, <2>1, <3>1, <3>2, SaveQueues
    <3> QED BY <3>3, <1>1, <1>7, <1>9, QueuesNext DEF Follows
  <2>3. RunOK'
    <3>1. run' = [at |-> run.at, priority |-> run.priority, pos |-> run.pos + 1, scheduled |-> run.scheduled \cup {l}]
      BY <1>1, <2>1, RunFields
    <3> QED BY <3>1, <1>1, RunGoesOn
  <2> QED BY <2>2, <2>3, <1>7, <1>9, IInvPartsNext
<1> QED BY <1>10, <1>11

LEMMA SaveFailsStep ==
  ASSUME IInv, NEW l \in Lcid, SaveFragmentDataFails(l)
  PROVE  IInv'
<1>1. CreditsOK /\ QueuesOK /\ RunOK /\ RestOK
  BY IInvParts
<1>2. PICK c \in QueueChan :
        /\ AtPacket(l, c)
        /\ \E n \in SendCnts(l, Head(sched.pktList[c]).cnt) \ {Head(sched.pktList[c]).cnt} :
              SendData(l, n, [Head(sched.pktList[c]) EXCEPT !.idx = n])
        /\ sched' = [PriorityQueuePop(sched, c) EXCEPT !.lcidList[run.priority] = Rotate(@, run.scheduled \cup {l})]
        /\ run' = Idle
        /\ UNCHANGED <<losing, envVars>>
  BY DEF SaveFragmentDataFails
<1>3. /\ LinkOf(c) = l /\ sched.pktList[c] # <<>> /\ Head(sched.pktList[c]) \in Packet
      /\ l \in Range(bufferList) /\ run.priority \in Priority
  BY <1>1, <1>2, AtPacketIs
<1>4. PICK pkt \in Packet : pkt = Head(sched.pktList[c])
  BY <1>3
<1>5. PICK n \in SendCnts(l, pkt.cnt) : SendData(l, n, [pkt EXCEPT !.idx = n])
  BY <1>2, <1>4
<1>6. n \in Nat /\ [pkt EXCEPT !.idx = n] \in Packet
  <2>1. pkt.cnt \in Nat
    BY FragmentIs
  <2>2. n \in Nat
    BY <2>1, SendCntsIs
  <2> QED BY <2>2, FragmentIs
<1>7. CreditsOK' /\ last' \in [Lcid -> Packet \cup {Nothing}] /\ bufferList' = bufferList
  BY <1>1, <1>5, <1>6, SendDataCredits
<1>8. RestOK' /\ up' = up
  BY <1>1, <1>2, <1>7 DEF RestOK, envVars
<1>9. QueuesOK'
  <2>1. PICK u : u = PriorityQueuePop(sched, c)
    OBVIOUS
  <2>2. Follows(sched, u, Range(bufferList), c, Tail(sched.pktList[c])) /\ OnlyUp(u, up)
    BY <1>1, <1>3, <2>1, PopQueues
  <2>3. u \in Scheduler /\ Placed(u) /\ Counted(u, Range(bufferList))
    BY <2>2 DEF Follows
  <2> DEFINE p == run.priority
             S == run.scheduled \cup {l}
  <2>4. p \in Priority /\ sched' = [u EXCEPT !.lcidList[p] = Rotate(@, S)]
    BY <1>2, <1>3, <2>1
  <2> HIDE DEF p, S
  <2>5. /\ sched' \in Scheduler /\ Placed(sched') /\ Counted(sched', Range(bufferList))
        /\ sched'.pktList = u.pktList
    BY <2>3, <2>4, RotateFollows
  <2>6. OnlyUp(sched', up)
    BY <2>2, <2>5 DEF OnlyUp
  <2> QED BY <2>5, <2>6, <1>1, <1>7, <1>8, QueuesNext
<1>10. RunOK'
  BY <1>2, IdleOK
<1> QED BY <1>7, <1>8, <1>9, <1>10, IInvPartsNext


LEMMA RecalcType ==
  ASSUME NEW links \in Seq(Lcid), NEW s \in Scheduler, NEW num \in Nat
  PROVE  LET share == LcidQuota(links, s.queuedPktCnt, num)
         IN  [l \in Lcid |-> IF l \in Range(links) THEN share[l] ELSE 0] \in [Lcid -> Nat]
<1>1. s.queuedPktCnt \in [Lcid -> Nat]
  BY SchedulerIs
<1>2. \A l \in Range(links) : LcidQuota(links, s.queuedPktCnt, num)[l] \in Nat
  BY <1>1, QuotaType
<1> QED BY <1>2

\* The controller gives n buffers of link l back.
LEMMA CreditsReturned ==
  ASSUME CreditsOK, NEW l \in Lcid, NEW n \in Nat, n <= inflight[l],
         inflight' = [inflight EXCEPT ![l] = inflight[l] - n],
         sendNotAck' = [sendNotAck EXCEPT ![l] = inflight[l] - n],
         gSendNotAck' = DTAP_SCHED_SUB(gSendNotAck, n)
  PROVE  /\ inflight' \in [Lcid -> Nat] /\ sendNotAck' \in [Lcid -> Nat] /\ gSendNotAck' \in Nat
         /\ CreditsMatchController'
         /\ SumFunction(inflight) \in Nat /\ SumFunction(inflight') = SumFunction(inflight) - n
<1>1. /\ sendNotAck \in [Lcid -> Nat] /\ inflight \in [Lcid -> Nat] /\ gSendNotAck \in Nat
      /\ \A m \in Lcid : sendNotAck[m] = inflight[m]
      /\ gSendNotAck = SumFunction(inflight)
  BY DEF CreditsOK, CreditsMatchController, Held
<1>2. PICK x \in Nat : x = inflight[l] /\ x - n \in Nat /\ n <= x
  BY <1>1
<1>3. inflight' \in [Lcid -> Nat] /\ inflight'[l] = x - n /\ \A m \in Lcid : m # l => inflight[m] = inflight'[m]
  BY <1>1, <1>2
<1>4. sendNotAck' \in [Lcid -> Nat] /\ sendNotAck'[l] = x - n /\ \A m \in Lcid : m # l => sendNotAck'[m] = sendNotAck[m]
  BY <1>1, <1>2
<1>5. /\ SumFunction(inflight) \in Nat /\ SumFunction(inflight') \in Nat
      /\ inflight[l] <= SumFunction(inflight)
      /\ SumFunction(inflight') + inflight[l] = SumFunction(inflight) + inflight'[l]
  BY <1>1, <1>3, LinkSum
<1>6. PICK y \in Nat : y = SumFunction(inflight)
  BY <1>5
<1>7. PICK z \in Nat : z = SumFunction(inflight')
  BY <1>5
<1>8. z + x = y + (x - n) /\ x <= y
  BY <1>2, <1>3, <1>5, <1>6, <1>7
<1>9. z = y - n /\ n <= y
  BY <1>2, <1>8
<1>10. gSendNotAck' = z
  <2>1. DTAP_SCHED_SUB(y, n) = y - n
    BY <1>9, SchedSub
  <2>2. gSendNotAck' = DTAP_SCHED_SUB(y, n)
    BY <1>1, <1>6
  <2> QED BY <2>1, <2>2, <1>9
<1>11. CreditsMatchController'
  <2>1. \A m \in Lcid : sendNotAck'[m] = inflight'[m]
    BY <1>1, <1>3, <1>4
  <2> QED BY <2>1, <1>7, <1>10 DEF CreditsMatchController, Held
<1> QED BY <1>3, <1>4, <1>6, <1>7, <1>9, <1>10, <1>11

\* Nothing waits for a link without channels.
LEMMA NothingWaits ==
  ASSUME NEW s \in Scheduler, NEW U, OnlyUp(s, U), NEW l \in Lcid, U \cap ChannelsOf(l) = {}
  PROVE  WaitsFor(s, l) = 0 /\ \A p \in Priority : Clear(s, p, l)
<1>1. ASSUME NEW p \in Priority
      PROVE  Clear(s, p, l)
  <2> SUFFICES ASSUME NEW c \in Members(p, l)
               PROVE  s.pktList[c] = <<>>
    BY DEF Clear
  <2>1. c \in QueueChan /\ LinkOf(c) = l
    BY DEF Members
  <2>2. CASE c \in Lcid
    BY <2>1, <2>2 DEF LinkOf, OnlyUp
  <2>3. CASE c \notin Lcid
    BY <2>1, <2>3 DEF LinkOf, OnlyUp, QueueChan, ChannelsOf
  <2> QED BY <2>2, <2>3
<1> DEFINE f == [p \in Priority |-> Waits(s, p, l)]
<1>2. \A p \in Priority : f[p] = 0 /\ f[p] \in Nat
  BY <1>1, WaitsNothing
<1>3. WaitsFor(s, l) = SumFunctionOnSet(f, Priority)
  BY WaitsForType
<1> HIDE DEF f
<1>4. SumFunctionOnSet(f, Priority) = 0
  BY <1>2, FiniteSets, SumZero
<1> QED BY <1>1, <1>3, <1>4

LEMMA DataSendStep ==
  ASSUME IInv, NEW c \in Chan, DataSendWithPriority(c)
  PROVE  IInv'
<1>1. CreditsOK /\ QueuesOK /\ RunOK /\ RestOK
  BY IInvParts
<1>2. c \in QueueChan /\ c \notin Lcid /\ LcidOf[c] \in Lcid /\ LinkOf(c) = LcidOf[c]
  BY SchedulerAssumption DEF QueueChan, LinkOf
<1> DEFINE Pkt(cnt) == [chan |-> c, id |-> created[c] + 1, idx |-> 0, cnt |-> cnt]
<1>3. PICK cnt \in FragmentCnts :
        /\ c \in up
        /\ sched' = PriorityQueuePush(sched, c, <<Pkt(cnt)>>)
        /\ created' = [created EXCEPT ![c] = @ + 1]
        /\ \/ RecalcLcidQuota(bufferList, PriorityQueuePush(sched, c, <<Pkt(cnt)>>), apBufferNum)
           \/ UNCHANGED quota
        /\ StartRun
        /\ UNCHANGED <<bufferList, sendNotAck, gSendNotAck, apBufferNum, losing, ctrlVars, up, faults>>
  BY DEF DataSendWithPriority
<1>4. Pkt(cnt) \in Packet /\ created' \in [Chan -> Nat]
  <2>1. created \in [Chan -> Nat] /\ cnt \in Nat \ {0}
    BY <1>1, SchedulerAssumption DEF RestOK
  <2> QED BY <2>1, <1>3 DEF Packet
<1>5. <<Pkt(cnt)>> \in Seq(Packet)
  BY <1>4
<1> HIDE DEF Pkt
<1>6. Connected(LinkOf(c))
  BY <1>1, <1>2, <1>3 DEF QueuesOK, Queues
<1>7. sched \in Scheduler /\ Placed(sched) /\ Counted(sched, Range(bufferList)) /\ OnlyUp(sched, up)
  BY <1>1 DEF QueuesOK, Queues
<1>8. Follows(sched, sched', Range(bufferList), c, sched.pktList[c] \o <<Pkt(cnt)>>)
  BY <1>2, <1>3, <1>5, <1>6, <1>7, PushFollows
<1>9. QueuesOK'
  <2>1. OnlyUp(sched', up)
    <3>1. \A d \in QueueChan : d # c => sched'.pktList[d] = sched.pktList[d]
      BY <1>8 DEF Follows
    <3>2. \A d \in Chan : sched'.pktList[d] # <<>> => d \in up
      BY <3>1, <1>3, <1>7 DEF OnlyUp, QueueChan
    <3>3. \A m \in Lcid : sched'.pktList[m] # <<>> => up \cap ChannelsOf(m) # {}
      BY <3>1, <1>2, <1>7 DEF OnlyUp, QueueChan
    <3> QED BY <3>2, <3>3 DEF OnlyUp
  <2> QED BY <2>1, <1>1, <1>3, <1>8, QueuesNext DEF Follows
<1>10. CreditsOK'
  <2>1. quota' \in [Lcid -> Nat]
    <3>1. CASE UNCHANGED quota
      BY <3>1, <1>1 DEF CreditsOK
    <3>2. CASE RecalcLcidQuota(bufferList, sched', apBufferNum)
      <4>1. bufferList \in Seq(Lcid) /\ apBufferNum \in Nat /\ sched' \in Scheduler
        BY <1>1, <1>8 DEF CreditsOK, Follows
      <4>2. LET share == LcidQuota(bufferList, sched'.queuedPktCnt, apBufferNum)
            IN  [l \in Lcid |-> IF l \in Range(bufferList) THEN share[l] ELSE 0] \in [Lcid -> Nat]
        BY <4>1, RecalcType
      <4> QED BY <3>2, <4>2 DEF RecalcLcidQuota
    <3> QED BY <3>1, <3>2, <1>3
  <2> QED BY <2>1, <1>1, <1>3 DEF CreditsOK, CreditsMatchController, Held, ctrlVars
<1>11. RestOK'
  BY <1>1, <1>3, <1>4 DEF RestOK, ctrlVars
<1>12. RunOK'
  BY <1>3, IdleOK
<1> QED BY <1>9, <1>10, <1>11, <1>12, IInvPartsNext

LEMMA SendCompleteStep ==
  ASSUME IInv, NEW l \in Lcid, SendCompleteCbk(l)
  PROVE  IInv' /\ SumFunction(inflight) \in Nat /\ SumFunction(inflight') \in Nat /\ SumFunction(inflight') <= SumFunction(inflight)
<1>1. CreditsOK /\ QueuesOK /\ RunOK /\ RestOK
  BY IInvParts
<1>2. PICK n \in 1 .. inflight[l] :
        /\ inflight' = [inflight EXCEPT ![l] = @ - n]
        /\ gSendNotAck' = DTAP_SCHED_SUB(gSendNotAck, n)
        /\ sendNotAck' = [sendNotAck EXCEPT ![l] = DTAP_SCHED_SUB(@, n)]
        /\ RecalcLcidQuota(bufferList, sched, apBufferNum)
        /\ StartRun
        /\ UNCHANGED <<sched, bufferList, apBufferNum, losing, last, envVars>>
  BY DEF SendCompleteCbk
<1>3. /\ sendNotAck \in [Lcid -> Nat] /\ inflight \in [Lcid -> Nat]
      /\ sendNotAck[l] = inflight[l] /\ bufferList \in Seq(Lcid) /\ apBufferNum \in Nat
  BY <1>1 DEF CreditsOK, CreditsMatchController
<1>4. n \in Nat /\ n <= inflight[l]
  BY <1>3
<1>5. sendNotAck' = [sendNotAck EXCEPT ![l] = inflight[l] - n]
  <2>1. PICK x \in Nat : x = inflight[l]
    BY <1>3
  <2>2. DTAP_SCHED_SUB(x, n) = x - n
    BY <1>4, <2>1, SchedSub
  <2> QED BY <1>2, <1>3, <2>1, <2>2
<1>6. /\ inflight' \in [Lcid -> Nat] /\ sendNotAck' \in [Lcid -> Nat] /\ gSendNotAck' \in Nat
      /\ CreditsMatchController'
      /\ SumFunction(inflight) \in Nat /\ SumFunction(inflight') = SumFunction(inflight) - n
  BY <1>1, <1>2, <1>4, <1>5, CreditsReturned
<1>7. quota' \in [Lcid -> Nat]
  <2>1. sched \in Scheduler
    BY <1>1 DEF QueuesOK
  <2>2. LET share == LcidQuota(bufferList, sched.queuedPktCnt, apBufferNum)
        IN  [m \in Lcid |-> IF m \in Range(bufferList) THEN share[m] ELSE 0] \in [Lcid -> Nat]
    BY <1>3, <2>1, RecalcType
  <2> QED BY <1>2, <2>2 DEF RecalcLcidQuota
<1>8. CreditsOK'
  BY <1>2, <1>3, <1>6, <1>7 DEF CreditsOK
<1>9. QueuesOK' /\ RestOK'
  BY <1>1, <1>2, QueuesSame, RestSame DEF envVars
<1>10. RunOK'
  BY <1>2, IdleOK
<1>11. gSendNotAck' = SumFunction(inflight')
  BY <1>6 DEF CreditsMatchController, Held
<1>12. SumFunction(inflight') \in Nat /\ SumFunction(inflight') <= SumFunction(inflight)
  BY <1>4, <1>6, <1>11
<1> QED BY <1>6, <1>8, <1>9, <1>10, <1>12, IInvPartsNext


LEMMA SetApBufferNumStep ==
  ASSUME IInv, NEW num \in ApBufferNums, SetApBufferNum(num)
  PROVE  IInv'
<1>1. CreditsOK /\ QueuesOK /\ RunOK /\ RestOK
  BY IInvParts
<1>2. /\ apBufferNum' = num /\ RecalcLcidQuota(bufferList, sched, num)
      /\ UNCHANGED <<sched, bufferList, sendNotAck, gSendNotAck, run, losing, ctrlVars, envVars>>
  BY DEF SetApBufferNum
<1>3. num \in Nat
  BY SchedulerAssumption
<1>4. quota' \in [Lcid -> Nat]
  <2>1. sched \in Scheduler /\ bufferList \in Seq(Lcid)
    BY <1>1 DEF QueuesOK, CreditsOK
  <2>2. LET share == LcidQuota(bufferList, sched.queuedPktCnt, num)
        IN  [m \in Lcid |-> IF m \in Range(bufferList) THEN share[m] ELSE 0] \in [Lcid -> Nat]
    BY <1>3, <2>1, RecalcType
  <2> QED BY <1>2, <2>2 DEF RecalcLcidQuota
<1>5. CreditsOK'
  BY <1>1, <1>2, <1>3, <1>4 DEF CreditsOK, CreditsMatchController, Held, ctrlVars
<1>6. QueuesOK' /\ RestOK' /\ RunOK'
  BY <1>1, <1>2, QueuesSame, RestSame, RunSame DEF envVars, ctrlVars
<1> QED BY <1>5, <1>6, IInvPartsNext

LEMMA LinkLostStep ==
  ASSUME IInv, NEW l \in Lcid, LinkLost(l)
  PROVE  IInv'
<1>1. CreditsOK /\ QueuesOK /\ RunOK /\ RestOK
  BY IInvParts
<1>2. /\ faults' = [faults EXCEPT !.disconnects = @ + 1] /\ losing' = {l}
      /\ UNCHANGED <<sched, bufVars, run, ctrlVars, up, created>>
  BY DEF LinkLost
<1>3. CreditsOK' /\ QueuesOK' /\ RunOK'
  BY <1>1, <1>2, CreditsSame, QueuesSame, RunSame DEF bufVars, ctrlVars
<1>4. faults' \in [downs : Nat, disconnects : Nat]
  BY <1>1, <1>2 DEF RestOK
<1>5. RestOK'
  BY <1>1, <1>2, <1>4 DEF RestOK, ctrlVars
<1> QED BY <1>3, <1>5, IInvPartsNext

\* A channel and the fragments of its link are gone.
LEMMA DownQueues ==
  ASSUME QueuesOK, NEW c \in Chan, c \in up, sched' = ChannelDown(sched, c), up' = up \ {c},
         bufferList' = bufferList
  PROVE  /\ QueuesOK'
         /\ \A d \in QueueChan :
               sched'.pktList[d] = IF d = c \/ d = LcidOf[c] THEN <<>> ELSE sched.pktList[d]
<1>1. sched \in Scheduler /\ Placed(sched) /\ Counted(sched, Range(bufferList)) /\ OnlyUp(sched, up)
  BY DEF QueuesOK, Queues
<1>2. LcidOf[c] \in Range(bufferList)
  BY DEF QueuesOK, Queues, Connected
<1>3. /\ sched' \in Scheduler /\ Placed(sched') /\ Counted(sched', Range(bufferList))
      /\ \A d \in QueueChan :
            sched'.pktList[d] = IF d = c \/ d = LcidOf[c] THEN <<>> ELSE sched.pktList[d]
  BY <1>1, <1>2, ChannelDownFollows
<1>4. OnlyUp(sched', up')
  <2>1. \A d \in Chan : sched'.pktList[d] # <<>> => d \in up'
    BY <1>1, <1>3 DEF OnlyUp, QueueChan
  <2>2. ASSUME NEW m \in Lcid, sched'.pktList[m] # <<>>
        PROVE  up' \cap ChannelsOf(m) # {}
    <3>1. m \in QueueChan
      BY DEF QueueChan
    <3>2. m # LcidOf[c] /\ sched.pktList[m] # <<>>
      BY <3>1, <2>2, <1>3
    <3>3. PICK d \in up \cap ChannelsOf(m) : TRUE
      BY <3>2, <1>1 DEF OnlyUp
    <3>4. d # c
      BY <3>2, <3>3 DEF ChannelsOf
    <3> QED BY <3>3, <3>4
  <2> QED BY <2>1, <2>2 DEF OnlyUp
<1>5. \A d \in up' : LcidOf[d] \in Range(bufferList')
  BY DEF QueuesOK, Queues, Connected
<1> QED BY <1>3, <1>4, <1>5 DEF QueuesOK, Queues, Connected

LEMMA ReleaseChannelStep ==
  ASSUME IInv, NEW c \in Chan, ReleaseChannel(c)
  PROVE  IInv'
<1>1. CreditsOK /\ QueuesOK /\ RunOK /\ RestOK
  BY IInvParts
<1>2. /\ c \in up /\ sched' = ChannelDown(sched, c) /\ up' = up \ {c}
      /\ UNCHANGED <<bufVars, run, losing, ctrlVars, created, faults>>
  BY DEF ReleaseChannel
<1>3. QueuesOK'
  BY <1>1, <1>2, DownQueues DEF bufVars
<1>4. CreditsOK' /\ RunOK'
  BY <1>1, <1>2, CreditsSame, RunSame DEF bufVars, ctrlVars
<1>5. RestOK'
  BY <1>1, <1>2 DEF RestOK, ctrlVars
<1> QED BY <1>3, <1>4, <1>5, IInvPartsNext

LEMMA ChannelDelStep ==
  ASSUME IInv, NEW c \in Chan, ChannelDel(c)
  PROVE  IInv'
<1>1. CreditsOK /\ QueuesOK /\ RunOK /\ RestOK
  BY IInvParts
<1>2. /\ c \in up /\ sched' = ChannelDown(sched, c) /\ up' = up \ {c}
      /\ faults' = [faults EXCEPT !.downs = @ + 1]
      /\ UNCHANGED <<bufVars, run, losing, ctrlVars, created>>
  BY DEF ChannelDel
<1>3. QueuesOK'
  BY <1>1, <1>2, DownQueues DEF bufVars
<1>4. CreditsOK' /\ RunOK'
  BY <1>1, <1>2, CreditsSame, RunSame DEF bufVars, ctrlVars
<1>5. faults' \in [downs : Nat, disconnects : Nat]
  BY <1>1, <1>2 DEF RestOK
<1>6. RestOK'
  BY <1>1, <1>2, <1>5 DEF RestOK, ctrlVars
<1> QED BY <1>3, <1>4, <1>6, IInvPartsNext

LEMMA ChannelAddStep ==
  ASSUME IInv, NEW c \in Chan, ChannelAdd(c)
  PROVE  IInv'
<1>1. CreditsOK /\ QueuesOK /\ RunOK /\ RestOK
  BY IInvParts
<1>2. /\ Connected(LcidOf[c]) /\ up' = up \cup {c}
      /\ UNCHANGED <<sched, bufVars, run, losing, ctrlVars, created, faults>>
  BY DEF ChannelAdd
<1>3. CreditsOK' /\ RunOK'
  BY <1>1, <1>2, CreditsSame, RunSame DEF bufVars, ctrlVars
<1>4. RestOK'
  BY <1>1, <1>2 DEF RestOK, ctrlVars
<1>5. QueuesOK'
  <2>1. OnlyUp(sched, up) /\ OnlyUp(sched, up')
    BY <1>1, <1>2 DEF QueuesOK, Queues, OnlyUp
  <2>2. \A d \in up' : LcidOf[d] \in Range(bufferList)
    BY <1>1, <1>2 DEF QueuesOK, Queues, Connected
  <2> QED BY <2>1, <2>2, <1>1, <1>2 DEF QueuesOK, Queues, Connected, bufVars
<1> QED BY <1>3, <1>4, <1>5, IInvPartsNext

LEMMA DLIConnectStep ==
  ASSUME IInv, NEW l \in Lcid, DLIConnectCbk(l)
  PROVE  IInv'
<1>1. CreditsOK /\ QueuesOK /\ RunOK /\ RestOK
  BY IInvParts
<1>2. /\ ~Connected(l)
      /\ up' = up \cup ChannelsOf(l)
      /\ bufferList' = Append(bufferList, l)
      /\ RecalcLcidQuota(bufferList', sched, apBufferNum)
      /\ UNCHANGED <<sched, sendNotAck, gSendNotAck, apBufferNum, run, losing, ctrlVars, created, faults>>
  BY DEF DLIConnectCbk
<1>3. bufferList \in Seq(Lcid) /\ apBufferNum \in Nat /\ sched \in Scheduler
  BY <1>1 DEF CreditsOK, QueuesOK
<1>4. bufferList' \in Seq(Lcid) /\ Range(bufferList') = Range(bufferList) \cup {l}
  BY <1>2, <1>3, RangeAppend
<1>5. CreditsOK'
  <2>1. quota' \in [Lcid -> Nat]
    <3>1. LET share == LcidQuota(bufferList', sched.queuedPktCnt, apBufferNum)
          IN  [m \in Lcid |-> IF m \in Range(bufferList') THEN share[m] ELSE 0] \in [Lcid -> Nat]
      BY <1>3, <1>4, RecalcType
    <3> QED BY <1>2, <3>1 DEF RecalcLcidQuota
  <2> QED BY <2>1, <1>1, <1>2, <1>4 DEF CreditsOK, CreditsMatchController, Held, ctrlVars
<1>6. QueuesOK'
  <2>1. Placed(sched) /\ Counted(sched, Range(bufferList)) /\ OnlyUp(sched, up) /\ \A c \in up : Connected(LcidOf[c])
    BY <1>1 DEF QueuesOK, Queues
  <2>2. up \cap ChannelsOf(l) = {}
    BY <2>1, <1>2 DEF ChannelsOf
  <2>3. WaitsFor(sched, l) = 0
    BY <2>1, <2>2, <1>3, NothingWaits
  <2>4. Counted(sched, Range(bufferList'))
    <3>1. \A m \in Lcid : sched.queuedPktCnt[m] = IF m \in Range(bufferList) THEN WaitsFor(sched, m) ELSE 0
      BY <2>1 DEF Counted
    <3>2. l \notin Range(bufferList)
      BY <1>2 DEF Connected
    <3>3. \A m \in Lcid : sched.queuedPktCnt[m] = IF m \in Range(bufferList') THEN WaitsFor(sched, m) ELSE 0
      BY <3>1, <3>2, <1>4, <2>3
    <3> QED BY <2>1, <3>3 DEF Counted
  <2>5. OnlyUp(sched, up')
    BY <2>1, <1>2 DEF OnlyUp
  <2>6. \A c \in up' : LcidOf[c] \in Range(bufferList')
    BY <2>1, <1>2, <1>4 DEF ChannelsOf, Connected
  <2> QED BY <2>1, <2>4, <2>5, <2>6, <1>2, <1>3 DEF QueuesOK, Queues, Connected
<1>7. RestOK' /\ RunOK'
  BY <1>1, <1>2, RunSame DEF RestOK, ctrlVars, ChannelsOf
<1> QED BY <1>5, <1>6, <1>7, IInvPartsNext

LEMMA DLIDisconnectStep ==
  ASSUME IInv, NEW l \in Lcid, DLIDisconnectCbk(l)
  PROVE  /\ IInv' /\ SumFunction(inflight) \in Nat /\ SumFunction(inflight') \in Nat
         /\ SumFunction(inflight') <= SumFunction(inflight)
         /\ sched'.pktList = sched.pktList
<1>1. CreditsOK /\ QueuesOK /\ RunOK /\ RestOK
  BY IInvParts
<1>2. /\ up \cap ChannelsOf(l) = {}
      /\ losing' = {}
      /\ gSendNotAck' = DTAP_SCHED_SUB(gSendNotAck, sendNotAck[l])
      /\ bufferList' = Without(bufferList, l)
      /\ sendNotAck' = [sendNotAck EXCEPT ![l] = 0]
      /\ sched' = [sched EXCEPT !.queuedPktCnt[l] = 0]
      /\ RecalcLcidQuota(bufferList', sched', apBufferNum)
      /\ inflight' = [inflight EXCEPT ![l] = 0]
      /\ last' = [last EXCEPT ![l] = Nothing]
      /\ UNCHANGED <<apBufferNum, run, envVars>>
  BY DEF DLIDisconnectCbk
<1>3. /\ bufferList \in Seq(Lcid) /\ apBufferNum \in Nat /\ sched \in Scheduler
      /\ inflight \in [Lcid -> Nat] /\ sendNotAck[l] = inflight[l]
  BY <1>1 DEF CreditsOK, QueuesOK, CreditsMatchController
<1>4. bufferList' \in Seq(Lcid) /\ Range(bufferList') = Range(bufferList) \ {l}
  BY <1>2, <1>3, WithoutIs
<1>5. PICK x \in Nat : x = inflight[l]
  BY <1>3
<1>6. /\ inflight' \in [Lcid -> Nat] /\ sendNotAck' \in [Lcid -> Nat] /\ gSendNotAck' \in Nat
      /\ CreditsMatchController'
      /\ SumFunction(inflight) \in Nat /\ SumFunction(inflight') = SumFunction(inflight) - x
  <2>1. x <= inflight[l] /\ inflight[l] - x = 0
    BY <1>5
  <2>2. /\ inflight' = [inflight EXCEPT ![l] = inflight[l] - x]
        /\ sendNotAck' = [sendNotAck EXCEPT ![l] = inflight[l] - x]
    BY <1>2, <2>1
  <2>3. gSendNotAck' = DTAP_SCHED_SUB(gSendNotAck, x)
    BY <1>2, <1>3, <1>5
  <2> QED BY <1>1, <2>1, <2>2, <2>3, CreditsReturned
<1>7. PICK qc : qc = [sched.queuedPktCnt EXCEPT ![l] = 0]
  OBVIOUS
<1>8. sched' = [pktList |-> sched.pktList, lcidList |-> sched.lcidList, channelList |-> sched.channelList,
                lcidPktCnt |-> sched.lcidPktCnt, pktCnt |-> sched.pktCnt, queuedPktCnt |-> qc]
  BY <1>2, <1>3, <1>7 DEF Scheduler
<1>9. qc \in [Lcid -> Nat] /\ qc[l] = 0 /\ \A m \in Lcid : m # l => qc[m] = sched.queuedPktCnt[m]
  BY <1>3, <1>7, SchedulerIs
<1>10. sched' \in Scheduler
  BY <1>3, <1>8, <1>9, SchedulerIs DEF Scheduler
<1>11. /\ sched'.pktList = sched.pktList /\ sched'.lcidList = sched.lcidList
       /\ sched'.channelList = sched.channelList /\ sched'.lcidPktCnt = sched.lcidPktCnt
       /\ sched'.pktCnt = sched.pktCnt /\ sched'.queuedPktCnt = qc
  BY <1>8
<1>12. CreditsOK'
  <2>1. quota' \in [Lcid -> Nat]
    <3>1. LET share == LcidQuota(bufferList', sched'.queuedPktCnt, apBufferNum)
          IN  [m \in Lcid |-> IF m \in Range(bufferList') THEN share[m] ELSE 0] \in [Lcid -> Nat]
      BY <1>3, <1>4, <1>10, RecalcType
    <3> QED BY <1>2, <3>1 DEF RecalcLcidQuota
  <2> QED BY <2>1, <1>1, <1>2, <1>4, <1>6 DEF CreditsOK
<1>13. QueuesOK'
  <2>1. Placed(sched) /\ Counted(sched, Range(bufferList)) /\ OnlyUp(sched, up) /\ \A c \in up : Connected(LcidOf[c])
    BY <1>1 DEF QueuesOK, Queues
  <2>2. Placed(sched') /\ OnlyUp(sched', up)
    BY <2>1, <1>11 DEF Placed, OnlyUp
  <2>3. Lengths(sched') = Lengths(sched)
    BY <1>11 DEF Lengths
  <2>4. /\ \A q, m : Waits(sched', q, m) = Waits(sched, q, m)
        /\ \A m : WaitsFor(sched', m) = WaitsFor(sched, m)
    BY <2>3 DEF Waits, WaitsFor
  <2>5. Counted(sched', Range(bufferList'))
    <3>1. \A m \in Lcid : sched.queuedPktCnt[m] = IF m \in Range(bufferList) THEN WaitsFor(sched, m) ELSE 0
      BY <2>1 DEF Counted
    <3>2. \A m \in Lcid : qc[m] = IF m \in Range(bufferList') THEN WaitsFor(sched, m) ELSE 0
      BY <3>1, <1>4, <1>9
    <3> QED BY <2>1, <2>4, <3>2, <1>11 DEF Counted
  <2>6. \A c \in up : LcidOf[c] \in Range(bufferList')
    <3> TAKE c \in up
    <3>1. c \in Chan /\ LcidOf[c] \in Range(bufferList)
      BY <1>1, <2>1 DEF RestOK, Connected
    <3>2. LcidOf[c] # l
      BY <3>1, <1>2 DEF ChannelsOf
    <3> QED BY <3>1, <3>2, <1>4
  <2>7. up' = up
    BY <1>2 DEF envVars
  <2> QED BY <2>2, <2>5, <2>6, <2>7, <1>10 DEF QueuesOK, Queues, Connected
<1>14. RestOK' /\ RunOK'
  <2>1. last' \in [Lcid -> Packet \cup {Nothing}]
    BY <1>1, <1>2 DEF RestOK
  <2> QED BY <2>1, <1>1, <1>2, RunSame DEF RestOK, envVars
<1>15. gSendNotAck' = SumFunction(inflight')
  BY <1>6 DEF CreditsMatchController, Held
<1>16. SumFunction(inflight') \in Nat /\ SumFunction(inflight') <= SumFunction(inflight)
  BY <1>6, <1>15
<1> QED BY <1>6, <1>11, <1>12, <1>13, <1>14, <1>16, IInvPartsNext


LEMMA InitIInv == Init => IInv
<1> SUFFICES ASSUME Init
             PROVE  IInv
  OBVIOUS
<1>1. sched = [pktList |-> [c \in QueueChan |-> <<>>],
               lcidList |-> [p \in Priority |-> <<>>],
               channelList |-> [p \in Priority |-> [l \in Lcid |-> <<>>]],
               lcidPktCnt |-> [p \in Priority |-> [l \in Lcid |-> 0]],
               pktCnt |-> [p \in Priority |-> 0],
               queuedPktCnt |-> [l \in Lcid |-> 0]]
  BY DEF Init
<1>2. /\ bufferList = <<>> /\ quota = [l \in Lcid |-> 0] /\ sendNotAck = [l \in Lcid |-> 0]
      /\ gSendNotAck = 0 /\ apBufferNum = 1 /\ run = Idle /\ losing = {} /\ up = {}
      /\ created = [c \in Chan |-> 0] /\ inflight = [l \in Lcid |-> 0]
      /\ last = [l \in Lcid |-> Nothing] /\ faults = [downs |-> 0, disconnects |-> 0]
  BY DEF Init, DTAP_MIN_BUFFER_NUM
<1>3. SumFunction([l \in Lcid |-> 0]) = 0
  <2> DEFINE f == [l \in Lcid |-> 0]
  <2>1. DOMAIN f = Lcid /\ \A l \in Lcid : f[l] = 0 /\ f[l] \in Nat
    OBVIOUS
  <2> HIDE DEF f
  <2>2. SumFunctionOnSet(f, Lcid) = 0
    BY <2>1, FiniteSets, SumZero
  <2>3. SumFunction(f) = 0
    BY <2>1, <2>2 DEF SumFunction
  <2> QED BY <2>3 DEF f
<1>4. CreditsOK
  <2>1. /\ \A l \in Lcid : sendNotAck[l] = inflight[l]
        /\ gSendNotAck = SumFunction(inflight)
    BY <1>2, <1>3
  <2> QED BY <2>1, <1>2 DEF CreditsOK, CreditsMatchController, Held
<1>5. RunOK
  BY <1>2 DEF RunOK, Idle, DTAP_PRIORITY_NORMAL
<1>6. RestOK
  BY <1>2 DEF RestOK
<1>7. QueuesOK
  <2>1. sched \in Scheduler
    <3>1. [c \in QueueChan |-> <<>>] \in [QueueChan -> Seq(Packet)]
      OBVIOUS
    <3>2. [p \in Priority |-> <<>>] \in [Priority -> Seq(Lcid)]
      OBVIOUS
    <3>3. [p \in Priority |-> [l \in Lcid |-> <<>>]] \in [Priority -> [Lcid -> Seq(QueueChan)]]
      OBVIOUS
    <3> QED BY <1>1, <3>1, <3>2, <3>3 DEF Scheduler
  <2>2. \A c \in QueueChan : sched.pktList[c] = <<>>
    BY <1>1
  <2>3. Range(<<>>) = {}
    BY DEF Range
  <2>4. Placed(sched)
    <3>1. \A p \in Priority, l \in Lcid : Range(sched.channelList[p][l]) \subseteq Members(p, l)
      <4>1. \A p \in Priority, l \in Lcid : sched.channelList[p][l] = <<>>
        BY <1>1
      <4> QED BY <4>1, <2>3
    <3> QED BY <3>1, <2>2 DEF Placed
  <2>5. \A p \in Priority, l \in Lcid : Waits(sched, p, l) = 0
    <3> TAKE p \in Priority, l \in Lcid
    <3>1. Clear(sched, p, l)
      BY <2>2 DEF Clear, Members
    <3> QED BY <3>1, <2>1, WaitsNothing
  <2>6. Counted(sched, Range(bufferList))
    <3>1. \A p \in Priority : sched.pktCnt[p] = SumFunction(sched.lcidPktCnt[p])
      BY <1>1, <1>3
    <3>2. \A p \in Priority, l \in Lcid : sched.lcidPktCnt[p][l] = Waits(sched, p, l)
      <4>1. \A p \in Priority, l \in Lcid : sched.lcidPktCnt[p][l] = 0
        BY <1>1
      <4> QED BY <4>1, <2>5
    <3>3. \A l \in Lcid : l \notin Range(bufferList) /\ sched.queuedPktCnt[l] = 0
      BY <1>1, <1>2, <2>3
    <3> QED BY <3>1, <3>2, <3>3 DEF Counted
  <2>7. OnlyUp(sched, up)
    BY <2>2 DEF OnlyUp, QueueChan
  <2> QED BY <2>1, <2>4, <2>6, <2>7, <1>2 DEF QueuesOK, Queues
<1> QED BY <1>4, <1>5, <1>6, <1>7, IInvParts

\* Every step preserves the invariant.
LEMMA NextIInv ==
  ASSUME IInv, [Next]_vars
  PROVE  IInv'
<1>1. CASE UNCHANGED vars
  <2>1. CreditsOK /\ QueuesOK /\ RunOK /\ RestOK
    BY IInvParts
  <2>2. CreditsOK' /\ QueuesOK' /\ RunOK' /\ RestOK'
    BY <1>1, <2>1, CreditsSame, QueuesSame, RunSame, RestSame DEF vars, bufVars, ctrlVars, envVars
  <2> QED BY <2>2, IInvPartsNext
<1>2. CASE RunStep
  <2>1. CASE SchedulerRunEnds
    BY <2>1, RunEndsStep
  <2>2. CASE SchedulerRunQueue
    BY <2>2, RunQueueStep
  <2>3. CASE SchedulePriorityEnds
    BY <2>3, PriorityEndsStep
  <2>4. ASSUME NEW l \in Lcid,
               NextLcid(l) \/ SendFragment(l) \/ SplitAndSend(l) \/ ScheduleLcidFails(l) \/ SaveFragmentDataFails(l)
        PROVE  IInv'
    BY <2>4, NextLcidStep, SendFragmentStep, SplitStep, LcidFailsStep, SaveFailsStep
  <2> QED BY <1>2, <2>1, <2>2, <2>3, <2>4 DEF RunStep
<1>3. CASE LossStep
  BY <1>3, ReleaseChannelStep, DLIDisconnectStep DEF LossStep
<1>4. ASSUME NEW c \in Chan, DataSendWithPriority(c) \/ ChannelDel(c) \/ ChannelAdd(c)
      PROVE  IInv'
  BY <1>4, DataSendStep, ChannelDelStep, ChannelAddStep
<1>5. ASSUME NEW l \in Lcid, SendCompleteCbk(l) \/ DLIConnectCbk(l) \/ LinkLost(l)
      PROVE  IInv'
  BY <1>5, SendCompleteStep, DLIConnectStep, LinkLostStep
<1>6. ASSUME NEW num \in ApBufferNums, SetApBufferNum(num)
      PROVE  IInv'
  BY <1>6, SetApBufferNumStep
<1> QED BY <1>1, <1>2, <1>3, <1>4, <1>5, <1>6 DEF Next

\* The inductive invariant: the types, exact counters of what the controller holds and of what
\* waits, and packets only on channels that exist, on the lists that lead to them.
THEOREM Inductive == Spec => []IInv
<1>1. IInv /\ [Next]_vars => IInv'
  BY NextIInv
<1> QED BY InitIInv, <1>1, PTL DEF Spec

\* Every counter, list and flag of the scheduler keeps its type; no subtraction goes below
\* zero and every quota that DTAP_RecalcLcidQuota computes is a number.
THEOREM TypeCorrect == Spec => []TypeOK
<1>1. IInv => TypeOK
  BY DEF IInv
<1> QED BY Inductive, <1>1, PTL

\* sendNotAckPktCnt of every link is what the controller holds for it and g_sendNotAckPktCnt
\* what it holds in all, over sending, completion, refusal, loss and return of links.
THEOREM CreditsAlwaysMatch == Spec => []CreditsMatchController
<1>1. IInv => CreditsMatchController
  BY DEF IInv
<1> QED BY Inductive, <1>1, PTL

LEMMA AccountingFromIInv == IInv => QueueAccounting
<1> SUFFICES ASSUME IInv
             PROVE  QueueAccounting
  OBVIOUS
<1>1. /\ Placed(sched) /\ Counted(sched, Range(bufferList)) /\ bufferList \in Seq(Lcid)
  BY DEF IInv, Queues, TypeOK
<1>2. \A p, l : WaitingPkts(p, l) = Waits(sched, p, l)
  BY DEF WaitingPkts, Waits, Lengths, Members
<1>3. \A l : SumFunction([p \in Priority |-> WaitingPkts(p, l)]) = WaitsFor(sched, l)
  BY <1>2 DEF WaitsFor
<1>4. \A p \in Priority :
        /\ sched.pktCnt[p] = SumFunction(sched.lcidPktCnt[p])
        /\ \A l \in Lcid : sched.lcidPktCnt[p][l] = WaitingPkts(p, l)
  BY <1>1, <1>2 DEF Counted
<1>5. \A l \in Range(bufferList) :
        sched.queuedPktCnt[l] = SumFunction([p \in Priority |-> WaitingPkts(p, l)])
  <2> TAKE l \in Range(bufferList)
  <2>1. l \in Lcid
    BY <1>1, RangeIs
  <2> QED BY <2>1, <1>1, <1>3 DEF Counted
<1>6. \A c \in QueueChan : sched.pktList[c] # <<>> =>
        /\ c \in Range(sched.channelList[QueueOf(c)][LinkOf(c)])
        /\ LinkOf(c) \in Range(sched.lcidList[QueueOf(c)])
  BY <1>1 DEF Placed
<1> QED BY <1>4, <1>5, <1>6 DEF QueueAccounting

\* The counters of link nodes, queues and buffer nodes are exact, and a packet that waits is
\* on the lists that DTAP_SchedulerRun walks.
THEOREM QueuesAlwaysAccounted == Spec => []QueueAccounting
BY Inductive, AccountingFromIInv, PTL

\* What a step hands over fits into the free buffers of the controller.
Fits == SumFunction(inflight') > Held => SumFunction(inflight') <= apBufferNum

LEMMA SentFits ==
  ASSUME IInv, NEW l \in Lcid, NEW n \in Nat, NEW frag \in Packet, SendData(l, n, frag),
         gSendNotAck + n <= apBufferNum
  PROVE  Fits
<1>1. CreditsOK /\ RestOK
  BY IInvParts
<1>2. CreditsOK' /\ gSendNotAck' = gSendNotAck + n
  BY <1>1, SendDataCredits
<1>3. gSendNotAck' = SumFunction(inflight')
  BY <1>2 DEF CreditsOK, CreditsMatchController, Held
<1> QED BY <1>2, <1>3 DEF Fits

LEMMA NextFits ==
  ASSUME IInv, [Next]_vars
  PROVE  Fits
<1>1. CreditsOK /\ QueuesOK /\ RunOK /\ RestOK
  BY IInvParts
<1>2. Held \in Nat /\ gSendNotAck \in Nat /\ apBufferNum \in Nat /\ Held = SumFunction(inflight)
  BY <1>1 DEF CreditsOK, CreditsMatchController, Held
<1>3. ASSUME UNCHANGED inflight
      PROVE  Fits
  BY <1>2, <1>3 DEF Fits
<1>4. ASSUME NEW l \in Lcid, SendFragment(l)
      PROVE  Fits
  <2>1. PICK c \in QueueChan : AtPacket(l, c) /\ SendData(l, 1, Head(sched.pktList[c]))
    BY <1>4 DEF SendFragment
  <2>2. Head(sched.pktList[c]) \in Packet /\ CanSend(l)
    BY <1>1, <2>1, AtPacketIs
  <2>3. gSendNotAck + 1 <= apBufferNum /\ 1 \in Nat
    BY <1>2, <2>2 DEF CanSend
  <2> QED BY <2>1, <2>2, <2>3, SentFits
<1>5. ASSUME NEW l \in Lcid, SplitAndSend(l) \/ SaveFragmentDataFails(l)
      PROVE  Fits
  <2>1. PICK c \in QueueChan :
          /\ AtPacket(l, c)
          /\ \E n \in SendCnts(l, Head(sched.pktList[c]).cnt) :
               SendData(l, n, [Head(sched.pktList[c]) EXCEPT !.idx = n])
    BY <1>5 DEF SplitAndSend, SaveFragmentDataFails
  <2>2. PICK pkt \in Packet : pkt = Head(sched.pktList[c])
    BY <1>1, <2>1, AtPacketIs
  <2>3. PICK n \in SendCnts(l, pkt.cnt) : SendData(l, n, [pkt EXCEPT !.idx = n])
    BY <2>1, <2>2
  <2>4. pkt.cnt \in Nat
    BY DEF Packet
  <2>5. n \in Nat /\ gSendNotAck + n <= apBufferNum
    BY <2>4, SendCntsIs
  <2>6. [pkt EXCEPT !.idx = n] \in Packet
    BY <2>5, FragmentIs
  <2> QED BY <2>3, <2>5, <2>6, SentFits
<1>6. ASSUME NEW l \in Lcid, SendCompleteCbk(l) \/ DLIDisconnectCbk(l)
      PROVE  Fits
  <2>1. /\ SumFunction(inflight) \in Nat /\ SumFunction(inflight') \in Nat
        /\ SumFunction(inflight') <= SumFunction(inflight)
    BY <1>6, SendCompleteStep, DLIDisconnectStep
  <2> QED BY <2>1, <1>2 DEF Fits
<1>7. CASE UNCHANGED vars
  BY <1>3, <1>7 DEF vars, ctrlVars
<1>8. CASE RunStep
  <2>1. CASE SchedulerRunEnds \/ SchedulerRunQueue \/ SchedulePriorityEnds
    BY <1>3, <2>1 DEF SchedulerRunEnds, SchedulerRunQueue, SchedulePriorityEnds, ctrlVars
  <2>2. ASSUME NEW l \in Lcid, NextLcid(l) \/ ScheduleLcidFails(l)
        PROVE  Fits
    BY <1>3, <2>2 DEF NextLcid, ScheduleLcidFails, ctrlVars
  <2> QED BY <1>4, <1>5, <1>8, <2>1, <2>2 DEF RunStep
<1>9. ASSUME NEW c \in Chan, ReleaseChannel(c) \/ DataSendWithPriority(c) \/ ChannelDel(c) \/ ChannelAdd(c)
      PROVE  Fits
  BY <1>3, <1>9 DEF ReleaseChannel, DataSendWithPriority, ChannelDel, ChannelAdd, ctrlVars
<1>10. ASSUME NEW l \in Lcid, DLIConnectCbk(l) \/ LinkLost(l)
      PROVE  Fits
  BY <1>3, <1>10 DEF DLIConnectCbk, LinkLost, ctrlVars
<1>11. ASSUME NEW num \in ApBufferNums, SetApBufferNum(num)
      PROVE  Fits
  BY <1>3, <1>11 DEF SetApBufferNum, ctrlVars
<1> QED BY <1>6, <1>7, <1>8, <1>9, <1>10, <1>11 DEF Next, LossStep

\* A fragment is only handed to DLI while the controller has a free buffer, however quotas
\* and buffer numbers change between the runs of the scheduler.
THEOREM ControllerNeverOverrun == Spec => NeverOverrun
<1>1. IInv /\ [Next]_vars => [Fits]_vars
  BY NextFits
<1> QED BY Inductive, <1>1, PTL DEF Spec, NeverOverrun, Fits


-----------------------------------------------------------------------------
(***************************************************************************)
(* The order.  When DLI takes what there is room for and memory suffices,  *)
(* the scheduler passes a link only when the link has nothing it could     *)
(* send.                                                                   *)
(***************************************************************************)
LEMMA ClearIs ==
  ASSUME IInv, NEW q \in Priority, NEW l \in Lcid
  PROVE  /\ sched.pktCnt[q] = 0 => Clear(sched, q, l)
         /\ ~CanPeek(sched, q, l) => Clear(sched, q, l)
         /\ l \notin Range(sched.lcidList[q]) => Clear(sched, q, l)
<1>1. sched \in Scheduler /\ Placed(sched) /\ Counted(sched, Range(bufferList))
  BY DEF IInv, TypeOK, Queues
<1>2. sched.lcidPktCnt[q] \in [Lcid -> Nat] /\ sched.pktCnt[q] \in Nat
  BY <1>1, SchedulerIs
<1>3. sched.lcidPktCnt[q][l] = 0 => Clear(sched, q, l)
  <2>1. sched.lcidPktCnt[q][l] = Waits(sched, q, l)
    BY <1>1 DEF Counted
  <2> QED BY <2>1, <1>1, WaitsNothing
<1>4. sched.lcidPktCnt[q][l] <= sched.pktCnt[q]
  <2>1. sched.pktCnt[q] = SumFunction(sched.lcidPktCnt[q])
    BY <1>1 DEF Counted
  <2>2. sched.lcidPktCnt[q][l] <= SumFunction(sched.lcidPktCnt[q])
    BY <1>2, LinkSum
  <2> QED BY <2>1, <2>2
<1>5. sched.pktCnt[q] = 0 => Clear(sched, q, l)
  <2> HAVE sched.pktCnt[q] = 0
  <2>1. PICK x \in Nat : x = sched.lcidPktCnt[q][l]
    BY <1>2
  <2>2. x = 0
    BY <2>1, <1>4
  <2> QED BY <2>1, <2>2, <1>3
<1>6. \A c \in Members(q, l) : sched.pktList[c] # <<>> =>
        c \in Range(sched.channelList[q][l]) /\ l \in Range(sched.lcidList[q])
  BY <1>1 DEF Placed, Members
<1>7. ~CanPeek(sched, q, l) => Clear(sched, q, l)
  <2> HAVE ~CanPeek(sched, q, l)
  <2>1. CASE sched.lcidPktCnt[q][l] = 0
    BY <2>1, <1>3
  <2>2. CASE ~ \E c \in Range(sched.channelList[q][l]) : sched.pktList[c] # <<>>
    BY <2>2, <1>6 DEF Clear
  <2> QED BY <2>1, <2>2 DEF CanPeek
<1>8. l \notin Range(sched.lcidList[q]) => Clear(sched, q, l)
  BY <1>6 DEF Clear
<1> QED BY <1>5, <1>7, <1>8

\* Steps at which the scheduler does not run.
LEMMA IdlePassed ==
  ASSUME run' = Idle \/ StartRun
  PROVE  Passed'
<1>1. run'.at # "lcid" /\ (run'.at # "idle" => run'.priority = 0)
  BY DEF Idle, StartRun
<1>2. \A q \in Priority : ~(q < 0)
  BY DEF Priority, DTAP_PRIORITY_FRAGMENT, DTAP_PRIORITY_NORMAL
<1> QED BY <1>1, <1>2 DEF Passed

LEMMA IdleSplit ==
  ASSUME Split, sched'.pktList = sched.pktList
  PROVE  Split'
BY DEF Split

LEMMA RunQueuePassed ==
  ASSUME OInv, SchedulerRunQueue
  PROVE  Passed'
<1>1. UNCHANGED <<sched, bufVars>> /\ run.at = "queue"
  BY DEF SchedulerRunQueue
<1>2. PICK p \in Waiting : (\A o \in Waiting : p <= o) /\ run' = [Idle EXCEPT !.at = "lcid", !.priority = p]
  BY DEF SchedulerRunQueue
<1>3. run'.at = "lcid" /\ run'.priority = p /\ run'.pos = 1
  BY <1>2 DEF Idle
<1>4. \A l \in Lcid : CanSend(l)' <=> CanSend(l)
  BY <1>1 DEF CanSend, Connected, bufVars
<1>5. IInv /\ Passed /\ run.priority \in 0 .. 4
  BY IInvParts, RunFields DEF OInv
<1>6. ASSUME NEW q \in Priority, NEW l \in Lcid, q < p, CanSend(l)
      PROVE  Clear(sched, q, l)
  <2>1. CASE q < run.priority
    BY <2>1, <1>1, <1>5, <1>6 DEF Passed
  <2>2. CASE ~(q < run.priority)
    <3>1. q \in run.priority .. DTAP_PRIORITY_NORMAL
      BY <2>2, <1>5 DEF Priority, DTAP_PRIORITY_FRAGMENT, DTAP_PRIORITY_NORMAL
    <3>2. q \notin Waiting
      <4>1. q \in Nat /\ p \in Nat
        BY <3>1, <1>5 DEF Waiting, DTAP_PRIORITY_NORMAL
      <4> QED BY <4>1, <1>2, <1>6
    <3>3. sched.pktCnt[q] = 0
      BY <3>1, <3>2 DEF Waiting
    <3> QED BY <3>3, <1>5, ClearIs
  <2> QED BY <2>1, <2>2
<1>7. \A q \in Priority, l \in Lcid : q < run'.priority /\ CanSend(l)' => Clear(sched', q, l)
  BY <1>1, <1>3, <1>4, <1>6
<1>8. sched' = sched
  BY <1>1
<1>9. \A i \in 1 .. Len(sched'.lcidList[run'.priority]) : ~(i < run'.pos)
  BY <1>3
<1> QED BY <1>7, <1>8, <1>9, <1>3 DEF Passed

LEMMA PriorityEndsPassed ==
  ASSUME OInv, SchedulePriorityEnds
  PROVE  Passed' /\ Split'
<1>1. /\ run.at = "lcid" /\ run.pos > Len(sched.lcidList[run.priority])
      /\ run' = [Idle EXCEPT !.at = "queue", !.priority = run.priority + 1]
      /\ UNCHANGED bufVars
  BY DEF SchedulePriorityEnds
<1>2. IInv /\ Passed /\ Split
  BY DEF OInv
<1>3. sched'.pktList = sched.pktList
  BY <1>2, PriorityEndsStep
<1>4. RunOK /\ QueuesOK
  BY <1>2, IInvParts
<1>5. PICK p \in Priority : p = run.priority
  BY <1>1, <1>4, RunFields
<1>6. run'.at = "queue" /\ run'.priority = p + 1
  BY <1>1, <1>5 DEF Idle
<1>7. ASSUME NEW q \in Priority, NEW l \in Lcid, q < p + 1, CanSend(l)
      PROVE  Clear(sched, q, l)
  <2>1. CASE q < p
    BY <2>1, <1>1, <1>2, <1>5, <1>7 DEF Passed
  <2>2. CASE q = p
    <3>1. CASE l \in Range(sched.lcidList[p])
      <4>1. sched.lcidList[p] \in Seq(Lcid)
        BY <1>4, SchedulerIs DEF QueuesOK
      <4>2. PICK i \in 1 .. Len(sched.lcidList[p]) : sched.lcidList[p][i] = l
        BY <3>1, <4>1, RangeIs
      <4>3. i < run.pos
        <5>1. Len(sched.lcidList[p]) \in Nat /\ run.pos \in Nat
          BY <4>1, <1>4, RunFields, LenProperties
        <5> QED BY <5>1, <1>1, <1>5
      <4> QED BY <4>2, <4>3, <2>2, <1>1, <1>2, <1>5, <1>7 DEF Passed
    <3>2. CASE l \notin Range(sched.lcidList[p])
      BY <3>2, <2>2, <1>2, ClearIs
    <3> QED BY <3>1, <3>2
  <2>3. q < p \/ q = p
    BY <1>7 DEF Priority, DTAP_PRIORITY_FRAGMENT, DTAP_PRIORITY_NORMAL
  <2> QED BY <2>1, <2>2, <2>3
<1>8. \A l \in Lcid : CanSend(l)' <=> CanSend(l)
  BY <1>1 DEF CanSend, Connected, bufVars
<1>9. \A q \in Priority, l \in Lcid : q < run'.priority /\ CanSend(l)' => Clear(sched', q, l)
  BY <1>3, <1>6, <1>7, <1>8 DEF Clear
<1>10. Passed'
  BY <1>6, <1>9 DEF Passed
<1> QED BY <1>2, <1>3, <1>10, IdleSplit

LEMMA NextLcidPassed ==
  ASSUME OInv, NEW l \in Lcid, NextLcid(l)
  PROVE  Passed'
<1>1. /\ AtLink(l) /\ (~CanSend(l) \/ ~CanPeek(sched, run.priority, l))
      /\ run' = [run EXCEPT !.pos = @ + 1, !.scheduled = IF CanSend(l) THEN @ \cup {l} ELSE @]
      /\ UNCHANGED <<sched, bufVars>>
  BY DEF NextLcid
<1>2. IInv /\ Passed
  BY DEF OInv
<1>3. RunOK
  BY <1>2, IInvParts
<1>4. run.at = "lcid" /\ l = sched.lcidList[run.priority][run.pos]
  BY <1>1 DEF AtLink
<1>5. run.priority \in Priority /\ run.pos \in Nat
  BY <1>3, <1>4, RunFields
<1>6. run'.at = run.at /\ run'.priority = run.priority /\ run'.pos = run.pos + 1
  BY <1>1, <1>3, RunFields
<1>7. \A m : CanSend(m)' <=> CanSend(m)
  BY <1>1 DEF CanSend, Connected, bufVars
<1>8. CanSend(l) => Clear(sched, run.priority, l)
  BY <1>1, <1>2, <1>5, ClearIs
<1>9. ASSUME NEW i \in 1 .. Len(sched.lcidList[run.priority]), i < run.pos + 1,
             CanSend(sched.lcidList[run.priority][i])
      PROVE  Clear(sched, run.priority, sched.lcidList[run.priority][i])
  <2>1. CASE i = run.pos
    BY <2>1, <1>4, <1>8, <1>9
  <2>2. CASE i < run.pos
    BY <2>2, <1>2, <1>4, <1>9 DEF Passed
  <2> QED BY <2>1, <2>2, <1>5, <1>9
<1>10. \A q \in Priority, m \in Lcid : q < run.priority /\ CanSend(m) => Clear(sched, q, m)
  BY <1>2, <1>4 DEF Passed
<1>11. sched' = sched
  BY <1>1
<1> QED BY <1>4, <1>6, <1>7, <1>9, <1>10, <1>11 DEF Passed

\* The run goes on with the same link or the next one, nobody gets more room, and what was
\* clear stays clear for the links that have room.
LEMMA AdvancePassed ==
  ASSUME OInv, NEW l \in Lcid, run.at = "lcid", run'.at = "lcid", run'.priority = run.priority,
         run.pos <= Len(sched.lcidList[run.priority]), l = sched.lcidList[run.priority][run.pos],
         SameFront(sched, sched'),
         \/ run'.pos = run.pos
         \/ run'.pos = run.pos + 1 /\ ~CanSend(l)',
         \A m \in Lcid : CanSend(m)' =>
            CanSend(m) /\ \A q \in Priority : Clear(sched, q, m) => Clear(sched', q, m)
  PROVE  Passed'
<1>1. Passed /\ RunOK /\ QueuesOK
  BY IInvParts DEF OInv
<1>2. PICK p \in Priority : p = run.priority
  BY <1>1, RunFields
<1>3. PICK k \in Nat : k = run.pos
  BY <1>1, RunFields
<1>4. sched.lcidList[p] \in Seq(Lcid) /\ Len(sched.lcidList[p]) \in Nat
  BY <1>1, SchedulerIs, LenProperties DEF QueuesOK
<1>5. \A q \in Priority, m \in Lcid : q < p /\ CanSend(m)' => Clear(sched', q, m)
  BY <1>1, <1>2 DEF Passed
<1>6. ASSUME NEW i \in 1 .. Len(sched'.lcidList[p]), i < run'.pos, CanSend(sched.lcidList[p][i])'
      PROVE  Clear(sched', p, sched'.lcidList[p][i])
  <2>1. i \in Nat /\ 1 <= i /\ i <= k
    BY <1>3, <1>6
  <2>2. i \in 1 .. Len(sched.lcidList[p])
    BY <2>1, <1>2, <1>3, <1>4
  <2>3. sched'.lcidList[p][i] = sched.lcidList[p][i]
    BY <2>2 DEF SameFront
  <2>4. PICK m \in Lcid : m = sched.lcidList[p][i]
    BY <2>2, <1>4, ElementOfSeq
  <2>5. CanSend(m)'
    BY <1>6, <2>3, <2>4
  <2>6. i < k
    <3>1. CASE run'.pos = run.pos
      BY <3>1, <1>3, <1>6
    <3>2. CASE run'.pos = run.pos + 1 /\ ~CanSend(l)'
      <4>1. i # k
        <5>1. m # l
          BY <3>2, <2>5
        <5>2. l = sched.lcidList[p][k]
          BY <1>2, <1>3
        <5> QED BY <5>1, <5>2, <2>4
      <4> QED BY <4>1, <2>1
    <3> QED BY <3>1, <3>2
  <2>7. Clear(sched, p, m)
    BY <1>1, <1>2, <1>3, <2>2, <2>4, <2>5, <2>6 DEF Passed
  <2> QED BY <2>3, <2>4, <2>5, <2>7
<1> QED BY <1>2, <1>5, <1>6 DEF Passed

\* What is handed over leaves no link more room.
LEMMA SentRoom ==
  ASSUME CreditsOK, RestOK, NEW l \in Lcid, NEW n \in Nat, NEW frag \in Packet, SendData(l, n, frag)
  PROVE  /\ \A m \in Lcid : CanSend(m)' => CanSend(m)
         /\ (sendNotAck[l] + n = quota[l] \/ gSendNotAck + n = apBufferNum) => ~CanSend(l)'
<1>1. /\ CreditsOK' /\ bufferList' = bufferList /\ quota' = quota /\ apBufferNum' = apBufferNum
      /\ gSendNotAck' = gSendNotAck + n
      /\ sendNotAck'[l] = sendNotAck[l] + n
      /\ \A m \in Lcid : m # l => sendNotAck'[m] = sendNotAck[m]
  BY SendDataCredits
<1>2. /\ gSendNotAck \in Nat /\ apBufferNum \in Nat
      /\ \A m \in Lcid : sendNotAck[m] \in Nat /\ quota[m] \in Nat
  BY DEF CreditsOK
<1>3. ASSUME NEW m \in Lcid, CanSend(m)'
      PROVE  CanSend(m)
  <2>1. Connected(m) /\ gSendNotAck + n < apBufferNum /\ sendNotAck'[m] < quota[m]
    BY <1>1, <1>3 DEF CanSend, Connected
  <2>2. sendNotAck[m] < quota[m]
    BY <2>1, <1>1, <1>2
  <2> QED BY <2>1, <2>2, <1>2 DEF CanSend
<1>4. (sendNotAck[l] + n = quota[l] \/ gSendNotAck + n = apBufferNum) => ~CanSend(l)'
  BY <1>1, <1>2 DEF CanSend
<1> QED BY <1>3, <1>4

\* A packet is taken: what was clear stays clear, and channels keep to their kind of packet.
LEMMA PopOrder ==
  ASSUME Split, sched \in Scheduler, NEW c \in QueueChan, sched.pktList[c] # <<>>, NEW t, NEW links,
         Follows(sched, t, links, c, Tail(sched.pktList[c]))
  PROVE  /\ \A q \in Priority, m \in Lcid : Clear(sched, q, m) => Clear(t, q, m)
         /\ \A d \in Chan : \A i \in 1 .. Len(t.pktList[d]) : t.pktList[d][i].idx = 0
         /\ \A m \in Lcid : \A i \in 1 .. Len(t.pktList[m]) : t.pktList[m][i].idx # 0
<1>1. t.pktList[c] = Tail(sched.pktList[c]) /\ \A d \in QueueChan : d # c => t.pktList[d] = sched.pktList[d]
  BY DEF Follows
<1>2. ASSUME NEW q \in Priority, NEW m \in Lcid, Clear(sched, q, m)
      PROVE  Clear(t, q, m)
  BY <1>1, <1>2 DEF Clear, Members
<1>3. \A i \in 1 .. Len(t.pktList[c]) : \E j \in 1 .. Len(sched.pktList[c]) : t.pktList[c][i] = sched.pktList[c][j]
  <2>1. sched.pktList[c] \in Seq(Packet)
    BY SchedulerIs
  <2>2. PICK s \in Seq(Packet) : s = sched.pktList[c]
    BY <2>1
  <2>3. s # <<>>
    BY <2>2
  <2>4. /\ Len(Tail(s)) = Len(s) - 1 /\ Len(s) \in Nat
        /\ \A i \in 1 .. Len(Tail(s)) : Tail(s)[i] = s[i + 1]
    BY <2>3, HeadTailProperties
  <2>5. \A i \in 1 .. Len(Tail(s)) : i + 1 \in 1 .. Len(s)
    BY <2>4
  <2> QED BY <1>1, <2>2, <2>4, <2>5
<1>4. \A d \in Chan : \A i \in 1 .. Len(t.pktList[d]) : t.pktList[d][i].idx = 0
  <2> TAKE d \in Chan
  <2>1. CASE d = c
    <3> TAKE i \in 1 .. Len(t.pktList[d])
    <3>1. PICK j \in 1 .. Len(sched.pktList[c]) : t.pktList[c][i] = sched.pktList[c][j]
      BY <2>1, <1>3
    <3>2. sched.pktList[c][j].idx = 0
      BY <2>1, <3>1 DEF Split
    <3> QED BY <2>1, <3>1, <3>2
  <2>2. CASE d # c
    BY <2>2, <1>1 DEF Split, QueueChan
  <2> QED BY <2>1, <2>2
<1>5. \A m \in Lcid : \A i \in 1 .. Len(t.pktList[m]) : t.pktList[m][i].idx # 0
  <2> TAKE m \in Lcid
  <2>1. CASE m = c
    <3> TAKE i \in 1 .. Len(t.pktList[m])
    <3>1. PICK j \in 1 .. Len(sched.pktList[c]) : t.pktList[c][i] = sched.pktList[c][j]
      BY <2>1, <1>3
    <3>2. sched.pktList[c][j].idx # 0
      BY <2>1, <3>1 DEF Split
    <3> QED BY <2>1, <3>1, <3>2
  <2>2. CASE m # c
    BY <2>2, <1>1 DEF Split, QueueChan
  <2> QED BY <2>1, <2>2
<1> QED BY <1>2, <1>4, <1>5

\* The same front of the lists.
LEMMA SameLists ==
  ASSUME NEW s \in Scheduler, NEW t, t.lcidList = s.lcidList
  PROVE  SameFront(s, t)
<1>1. \A q \in Priority : Len(s.lcidList[q]) \in Nat
  BY SchedulerIs, LenProperties
<1> QED BY <1>1 DEF SameFront

LEMMA SendFragmentOrder ==
  ASSUME OInv, NEW l \in Lcid, SendFragment(l)
  PROVE  Passed' /\ Split'
<1>1. CreditsOK /\ QueuesOK /\ RunOK /\ RestOK /\ Split
  BY IInvParts DEF OInv
<1>2. PICK c \in QueueChan :
        /\ AtPacket(l, c)
        /\ SendData(l, 1, Head(sched.pktList[c]))
        /\ sched' = PriorityQueuePop(sched, c)
        /\ run' = [run EXCEPT !.scheduled = @ \cup {l}]
  BY DEF SendFragment
<1>3. /\ run.at = "lcid" /\ run.pos <= Len(sched.lcidList[run.priority])
      /\ l = sched.lcidList[run.priority][run.pos]
      /\ LinkOf(c) = l /\ sched.pktList[c] # <<>> /\ Head(sched.pktList[c]) \in Packet
      /\ l \in Range(bufferList)
  BY <1>1, <1>2, AtPacketIs
<1>4. \A m \in Lcid : CanSend(m)' => CanSend(m)
  BY <1>1, <1>2, <1>3, SentRoom
<1>5. Follows(sched, sched', Range(bufferList), c, Tail(sched.pktList[c])) /\ sched'.lcidList = sched.lcidList
  BY <1>1, <1>2, <1>3, PopQueues
<1>6. sched \in Scheduler
  BY <1>1 DEF QueuesOK
<1>7. /\ \A q \in Priority, m \in Lcid : Clear(sched, q, m) => Clear(sched', q, m)
      /\ \A d \in Chan : \A i \in 1 .. Len(sched'.pktList[d]) : sched'.pktList[d][i].idx = 0
      /\ \A m \in Lcid : \A i \in 1 .. Len(sched'.pktList[m]) : sched'.pktList[m][i].idx # 0
  BY <1>1, <1>3, <1>5, <1>6, PopOrder
<1>8. run'.at = "lcid" /\ run'.priority = run.priority /\ run'.pos = run.pos
  BY <1>1, <1>2, <1>3, RunFields
<1>9. SameFront(sched, sched')
  BY <1>5, <1>6, SameLists
<1>10. Passed'
  BY <1>3, <1>4, <1>7, <1>8, <1>9, AdvancePassed
<1> QED BY <1>7, <1>10 DEF Split

\* A packet is split: n of its fragments are sent, and the rest, if there is one, is saved.
Splits(l, c, pkt, n) ==
    /\ AtPacket(l, c)
    /\ pkt = Head(sched.pktList[c]) /\ pkt.idx = 0
    /\ n \in 0 .. pkt.cnt
    /\ SendData(l, n, [pkt EXCEPT !.idx = n])
    /\ n = pkt.cnt =>
          /\ sched' = PriorityQueuePop(sched, c)
          /\ run' = [run EXCEPT !.scheduled = @ \cup {l}]
    /\ n # pkt.cnt =>
          /\ sched' = PriorityQueuePush(PriorityQueuePop(sched, c), l, Remainder(pkt, n))
          /\ run' = [run EXCEPT !.pos = @ + 1, !.scheduled = @ \cup {l}]
          /\ sendNotAck[l] + n = quota[l] \/ gSendNotAck + n = apBufferNum \/ MayFail
    /\ UNCHANGED <<losing, envVars>>

LEMMA SplitsIs ==
  ASSUME IInv, NEW l \in Lcid, SplitAndSend(l)
  PROVE  \E c \in QueueChan, pkt \in Packet, n \in Nat : Splits(l, c, pkt, n)
<1>1. CreditsOK /\ QueuesOK /\ RunOK /\ RestOK
  BY IInvParts
<1>2. PICK c \in QueueChan :
        /\ AtPacket(l, c)
        /\ Head(sched.pktList[c]).idx = 0
        /\ \E n \in SendCnts(l, Head(sched.pktList[c]).cnt) :
             /\ SendData(l, n, [Head(sched.pktList[c]) EXCEPT !.idx = n])
             /\ \/ /\ n = Head(sched.pktList[c]).cnt
                   /\ sched' = PriorityQueuePop(sched, c)
                   /\ run' = [run EXCEPT !.scheduled = @ \cup {l}]
                \/ /\ n < Head(sched.pktList[c]).cnt
                   /\ sched' = PriorityQueuePush(PriorityQueuePop(sched, c), l, Remainder(Head(sched.pktList[c]), n))
                   /\ run' = [run EXCEPT !.pos = @ + 1, !.scheduled = @ \cup {l}]
        /\ UNCHANGED <<losing, envVars>>
  BY DEF SplitAndSend
<1>3. PICK pkt \in Packet : pkt = Head(sched.pktList[c])
  BY <1>1, <1>2, AtPacketIs
<1>4. PICK n \in SendCnts(l, pkt.cnt) :
        /\ SendData(l, n, [pkt EXCEPT !.idx = n])
        /\ \/ /\ n = pkt.cnt
              /\ sched' = PriorityQueuePop(sched, c)
              /\ run' = [run EXCEPT !.scheduled = @ \cup {l}]
           \/ /\ n < pkt.cnt
              /\ sched' = PriorityQueuePush(PriorityQueuePop(sched, c), l, Remainder(pkt, n))
              /\ run' = [run EXCEPT !.pos = @ + 1, !.scheduled = @ \cup {l}]
  BY <1>2, <1>3
<1>5. pkt.cnt \in Nat
  BY FragmentIs
<1>6. n \in Nat /\ n \in 0 .. pkt.cnt
  BY <1>5, SendCntsIs
<1>7. n # pkt.cnt => sendNotAck[l] + n = quota[l] \/ gSendNotAck + n = apBufferNum \/ MayFail
  BY DEF SendCnts
<1>8. n = pkt.cnt =>
        /\ sched' = PriorityQueuePop(sched, c)
        /\ run' = [run EXCEPT !.scheduled = @ \cup {l}]
  BY <1>4, <1>5, <1>6
<1>9. n # pkt.cnt =>
        /\ sched' = PriorityQueuePush(PriorityQueuePop(sched, c), l, Remainder(pkt, n))
        /\ run' = [run EXCEPT !.pos = @ + 1, !.scheduled = @ \cup {l}]
  BY <1>4
<1>10. Splits(l, c, pkt, n)
  BY <1>2, <1>3, <1>4, <1>6, <1>7, <1>8, <1>9 DEF Splits
<1> QED BY <1>6, <1>10

\* The packet comes from a channel of its own, and the rest goes to the fragment channel.
LEMMA SplitsLists ==
  ASSUME OInv, NEW l \in Lcid, NEW c \in QueueChan, NEW pkt \in Packet, NEW n \in Nat, Splits(l, c, pkt, n)
  PROVE  /\ c \in Chan /\ c # l /\ LinkOf(c) = l /\ sched.pktList[c] # <<>>
         /\ sched'.pktList[c] = Tail(sched.pktList[c])
         /\ sched'.pktList[l] = IF n = pkt.cnt THEN sched.pktList[l] ELSE sched.pktList[l] \o Remainder(pkt, n)
         /\ \A d \in QueueChan : d # c /\ d # l => sched'.pktList[d] = sched.pktList[d]
         /\ SameFront(sched, sched')
<1>1. QueuesOK /\ RunOK /\ Split /\ sched \in Scheduler
  BY IInvParts DEF OInv, QueuesOK
<1>2. AtPacket(l, c) /\ pkt = Head(sched.pktList[c]) /\ pkt.idx = 0 /\ n \in 0 .. pkt.cnt
  BY DEF Splits
<1>3. LinkOf(c) = l /\ sched.pktList[c] # <<>> /\ l \in Range(bufferList)
  BY <1>1, <1>2, AtPacketIs
<1>4. c \in Chan /\ c # l
  <2>1. PICK s \in Seq(Packet) : s = sched.pktList[c]
    BY <1>1, SchedulerIs
  <2>2. s # <<>> /\ pkt = Head(s)
    BY <2>1, <1>2, <1>3
  <2>3. Len(s) \in Nat \ {0} /\ Head(s) = s[1]
    BY <2>1, <2>2, EmptySeq, HeadTailProperties
  <2>4. 1 \in 1 .. Len(s) /\ s[1].idx = 0
    BY <2>2, <2>3, <1>2
  <2>5. c \notin Lcid
    BY <2>1, <2>4, <1>1 DEF Split
  <2> QED BY <2>5 DEF QueueChan
<1>5. PICK u : u = PriorityQueuePop(sched, c)
  OBVIOUS
<1>6. Follows(sched, u, Range(bufferList), c, Tail(sched.pktList[c])) /\ u.lcidList = sched.lcidList
  BY <1>1, <1>3, <1>5, PopQueues
<1>7. /\ u.pktList[c] = Tail(sched.pktList[c])
      /\ \A d \in QueueChan : d # c => u.pktList[d] = sched.pktList[d]
      /\ l \in QueueChan /\ u.pktList[l] = sched.pktList[l]
  BY <1>4, <1>6 DEF Follows, QueueChan
<1>8. CASE n = pkt.cnt
  <2>1. sched' = u
    BY <1>5, <1>8 DEF Splits
  <2>2. SameFront(sched, sched')
    BY <2>1, <1>1, <1>6, SameLists
  <2> QED BY <2>1, <2>2, <1>3, <1>4, <1>7, <1>8
<1>9. CASE n # pkt.cnt
  <2>1. sched' = PriorityQueuePush(u, l, Remainder(pkt, n))
    BY <1>5, <1>9 DEF Splits
  <2>2. Remainder(pkt, n) \in Seq(Packet)
    BY <1>2, RemainderIs
  <2>3. Follows(u, sched', Range(bufferList), l, u.pktList[l] \o Remainder(pkt, n)) /\ SameFront(sched, sched')
    BY <1>1, <1>3, <1>5, <2>1, <2>2, SaveQueues
  <2>4. /\ sched'.pktList[l] = u.pktList[l] \o Remainder(pkt, n)
        /\ \A d \in QueueChan : d # l => sched'.pktList[d] = u.pktList[d]
    BY <2>3 DEF Follows
  <2> QED BY <2>3, <2>4, <1>3, <1>4, <1>7, <1>9
<1> QED BY <1>8, <1>9

LEMMA SplitOrder ==
  ASSUME OInv, ~MayFail, NEW l \in Lcid, SplitAndSend(l)
  PROVE  Passed' /\ Split'
<1>1. CreditsOK /\ QueuesOK /\ RunOK /\ RestOK /\ Split /\ sched \in Scheduler
  BY IInvParts DEF OInv, QueuesOK
<1>2. PICK c \in QueueChan, pkt \in Packet, n \in Nat : Splits(l, c, pkt, n)
  BY SplitsIs DEF OInv
<1>3. /\ c \in Chan /\ c # l /\ LinkOf(c) = l /\ sched.pktList[c] # <<>>
      /\ sched'.pktList[c] = Tail(sched.pktList[c])
      /\ sched'.pktList[l] = IF n = pkt.cnt THEN sched.pktList[l] ELSE sched.pktList[l] \o Remainder(pkt, n)
      /\ \A d \in QueueChan : d # c /\ d # l => sched'.pktList[d] = sched.pktList[d]
      /\ SameFront(sched, sched')
  BY <1>2, SplitsLists
<1>4. AtPacket(l, c) /\ n \in 0 .. pkt.cnt /\ SendData(l, n, [pkt EXCEPT !.idx = n])
  BY <1>2 DEF Splits
<1>5. /\ run.at = "lcid" /\ run.pos <= Len(sched.lcidList[run.priority])
      /\ l = sched.lcidList[run.priority][run.pos]
  BY <1>1, <1>4, AtPacketIs
<1>6. /\ \A m \in Lcid : CanSend(m)' => CanSend(m)
      /\ (sendNotAck[l] + n = quota[l] \/ gSendNotAck + n = apBufferNum) => ~CanSend(l)'
  <2>1. PICK frag \in Packet : frag = [pkt EXCEPT !.idx = n]
    BY FragmentIs
  <2>2. SendData(l, n, frag)
    BY <2>1, <1>4
  <2> QED BY <2>2, <1>1, SentRoom
<1>7. n # pkt.cnt => ~CanSend(l)'
  BY <1>2, <1>6 DEF Splits
<1>8. ASSUME NEW m \in Lcid, CanSend(m)', NEW q \in Priority, Clear(sched, q, m)
      PROVE  Clear(sched', q, m)
  <2> SUFFICES ASSUME NEW d \in Members(q, m)
               PROVE  sched'.pktList[d] = <<>>
    BY DEF Clear
  <2>1. d \in QueueChan /\ LinkOf(d) = m /\ sched.pktList[d] = <<>>
    BY <1>8 DEF Clear, Members
  <2>2. d # c
    BY <2>1, <1>3
  <2>3. CASE d = l
    <3>1. m = l
      BY <2>1, <2>3 DEF LinkOf
    <3>2. n = pkt.cnt
      BY <3>1, <1>7, <1>8
    <3> QED BY <3>2, <2>1, <2>3, <1>3
  <2>4. CASE d # l
    BY <2>1, <2>2, <2>4, <1>3
  <2> QED BY <2>3, <2>4
<1>9. /\ run'.at = "lcid" /\ run'.priority = run.priority
      /\ run'.pos = run.pos \/ (run'.pos = run.pos + 1 /\ ~CanSend(l)')
  <2>1. CASE n = pkt.cnt
    <3>1. run' = [run EXCEPT !.scheduled = @ \cup {l}]
      BY <2>1, <1>2 DEF Splits
    <3> QED BY <3>1, <1>1, <1>5, RunFields
  <2>2. CASE n # pkt.cnt
    <3>1. run' = [run EXCEPT !.pos = @ + 1, !.scheduled = @ \cup {l}]
      BY <2>2, <1>2 DEF Splits
    <3>2. run'.at = "lcid" /\ run'.priority = run.priority /\ run'.pos = run.pos + 1
      BY <3>1, <1>1, <1>5, RunFields
    <3> QED BY <3>2, <2>2, <1>7
  <2> QED BY <2>1, <2>2
<1>10. Passed'
  BY <1>3, <1>5, <1>6, <1>8, <1>9, AdvancePassed
<1>11. ASSUME NEW d \in Chan, NEW i \in 1 .. Len(sched'.pktList[d])
       PROVE  sched'.pktList[d][i].idx = 0
  <2>1. d \in QueueChan /\ d # l
    BY SchedulerAssumption DEF QueueChan
  <2>2. CASE d = c
    <3>1. PICK s \in Seq(Packet) : s = sched.pktList[c]
      BY <1>1, SchedulerIs
    <3>2. /\ Len(Tail(s)) = Len(s) - 1 /\ Len(s) \in Nat
          /\ \A k \in 1 .. Len(Tail(s)) : Tail(s)[k] = s[k + 1]
      BY <3>1, <1>3, HeadTailProperties
    <3>3. i \in 1 .. Len(Tail(s)) /\ i + 1 \in 1 .. Len(s)
      BY <3>1, <3>2, <2>2, <1>3, <1>11
    <3>4. sched'.pktList[d][i] = sched.pktList[c][i + 1]
      BY <3>1, <3>2, <3>3, <2>2, <1>3
    <3> QED BY <3>1, <3>3, <3>4, <1>1, <1>3 DEF Split
  <2>3. CASE d # c
    BY <2>1, <2>3, <1>1, <1>3, <1>11 DEF Split
  <2> QED BY <2>2, <2>3
<1>12. ASSUME NEW m \in Lcid, NEW i \in 1 .. Len(sched'.pktList[m])
       PROVE  sched'.pktList[m][i].idx # 0
  <2>1. m \in QueueChan /\ m # c
    BY <1>3, SchedulerAssumption DEF QueueChan
  <2>2. CASE m # l \/ n = pkt.cnt
    BY <2>1, <2>2, <1>1, <1>3, <1>12 DEF Split
  <2>3. CASE m = l /\ n # pkt.cnt
    <3>1. PICK s \in Seq(Packet) : s = sched.pktList[l]
      BY <2>1, <2>3, <1>1, SchedulerIs
    <3>2. PICK r \in Seq(Packet) : r = Remainder(pkt, n)
      BY <1>4, RemainderIs
    <3>3. sched'.pktList[m] = s \o r
      BY <2>3, <3>1, <3>2, <1>3
    <3>4. /\ Len(s) \in Nat /\ Len(r) \in Nat /\ i \in 1 .. Len(s) + Len(r)
          /\ (s \o r)[i] = IF i <= Len(s) THEN s[i] ELSE r[i - Len(s)]
      BY <3>3, <1>12, ConcatProperties, LenProperties
    <3>5. CASE i <= Len(s)
      <4>1. i \in 1 .. Len(s)
        BY <3>4, <3>5
      <4> QED BY <4>1, <3>1, <3>3, <3>4, <3>5, <1>1 DEF Split
    <3>6. CASE ~(i <= Len(s))
      <4>1. PICK k \in Nat \ {0} : k = i - Len(s) /\ k <= Len(r)
        BY <3>4, <3>6
      <4>2. /\ Len(r) = pkt.cnt - n
            /\ \A j \in 1 .. pkt.cnt - n : r[j] = [pkt EXCEPT !.idx = n + j]
        BY <3>2, <1>4, RemainderIs
      <4>3. k \in 1 .. pkt.cnt - n
        BY <4>1, <4>2, <3>4
      <4>4. r[k] = [pkt EXCEPT !.idx = n + k]
        BY <4>2, <4>3
      <4>5. n + k \in Nat /\ n + k # 0
        BY <4>1
      <4>6. r[k].idx = n + k
        BY <4>4, <4>5, FragmentIs
      <4> QED BY <4>1, <4>5, <4>6, <3>3, <3>4, <3>6
    <3> QED BY <3>5, <3>6
  <2> QED BY <2>2, <2>3
<1> QED BY <1>10, <1>11, <1>12 DEF Split

\* The worker thread runs the scheduler, or deals with the loss of a link, or is free.
LEMMA AloneNext ==
  ASSUME OInv, [Next]_vars
  PROVE  Alone'
<1>1. Alone
  BY DEF OInv
<1>2. CASE UNCHANGED vars
  BY <1>1, <1>2 DEF Alone, vars
<1>3. CASE RunStep
  <2>1. run.at # "idle" /\ losing' = losing
    BY <1>3 DEF RunStep, SchedulerRunEnds, SchedulerRunQueue, SchedulePriorityEnds, NextLcid, SendFragment,
                SplitAndSend, ScheduleLcidFails, SaveFragmentDataFails, AtPacket, AtLink
  <2> QED BY <2>1, <1>1 DEF Alone
<1>4. CASE LossStep
  <2>1. run' = run /\ (losing' = losing \/ losing' = {})
    BY <1>4 DEF LossStep, ReleaseChannel, DLIDisconnectCbk
  <2> QED BY <2>1, <1>1 DEF Alone
<1>5. ASSUME NEW c \in Chan, DataSendWithPriority(c) \/ ChannelDel(c) \/ ChannelAdd(c)
      PROVE  Alone'
  <2>1. losing' = {}
    BY <1>5 DEF DataSendWithPriority, ChannelDel, ChannelAdd, Ready
  <2> QED BY <2>1 DEF Alone
<1>6. ASSUME NEW l \in Lcid, SendCompleteCbk(l) \/ DLIConnectCbk(l)
      PROVE  Alone'
  <2>1. losing' = {}
    BY <1>6 DEF SendCompleteCbk, DLIConnectCbk, Ready
  <2> QED BY <2>1 DEF Alone
<1>7. ASSUME NEW l \in Lcid, LinkLost(l)
      PROVE  Alone'
  <2>1. losing' = {l} /\ run' = Idle
    BY <1>7 DEF LinkLost, Ready
  <2> QED BY <2>1 DEF Alone, Idle
<1>8. ASSUME NEW num \in ApBufferNums, SetApBufferNum(num)
      PROVE  Alone'
  <2>1. losing' = {}
    BY <1>8 DEF SetApBufferNum, Ready
  <2> QED BY <2>1 DEF Alone
<1> QED BY <1>2, <1>3, <1>4, <1>5, <1>6, <1>7, <1>8 DEF Next

\* A packet that is sent is not split yet.
LEMMA DataSendLists ==
  ASSUME IInv, NEW c \in Chan, DataSendWithPriority(c)
  PROVE  \E pkt \in Packet :
            /\ pkt.idx = 0
            /\ sched'.pktList[c] = sched.pktList[c] \o <<pkt>>
            /\ \A d \in QueueChan : d # c => sched'.pktList[d] = sched.pktList[d]
<1>1. QueuesOK /\ RestOK
  BY IInvParts
<1>2. c \in QueueChan /\ LinkOf(c) = LcidOf[c]
  BY SchedulerAssumption DEF QueueChan, LinkOf
<1> DEFINE Pkt(cnt) == [chan |-> c, id |-> created[c] + 1, idx |-> 0, cnt |-> cnt]
<1>3. PICK cnt \in FragmentCnts : c \in up /\ sched' = PriorityQueuePush(sched, c, <<Pkt(cnt)>>)
  BY DEF DataSendWithPriority
<1>4. Pkt(cnt) \in Packet /\ Pkt(cnt).idx = 0
  <2>1. created \in [Chan -> Nat] /\ cnt \in Nat \ {0}
    BY <1>1, SchedulerAssumption DEF RestOK
  <2> QED BY <2>1 DEF Packet
<1>5. <<Pkt(cnt)>> \in Seq(Packet)
  BY <1>4
<1> HIDE DEF Pkt
<1>6. Connected(LinkOf(c)) /\ sched \in Scheduler /\ Placed(sched) /\ Counted(sched, Range(bufferList))
  BY <1>1, <1>2, <1>3 DEF QueuesOK, Queues
<1>7. Follows(sched, sched', Range(bufferList), c, sched.pktList[c] \o <<Pkt(cnt)>>)
  BY <1>2, <1>3, <1>5, <1>6, PushFollows
<1> QED BY <1>4, <1>7 DEF Follows

LEMMA DataSendOrder ==
  ASSUME OInv, NEW c \in Chan, DataSendWithPriority(c)
  PROVE  Passed' /\ Split'
<1>1. Split /\ sched \in Scheduler
  BY DEF OInv, IInv, TypeOK
<1>2. PICK pkt \in Packet :
        /\ pkt.idx = 0
        /\ sched'.pktList[c] = sched.pktList[c] \o <<pkt>>
        /\ \A d \in QueueChan : d # c => sched'.pktList[d] = sched.pktList[d]
  BY DataSendLists DEF OInv
<1>3. Passed'
  BY IdlePassed DEF DataSendWithPriority
<1>4. ASSUME NEW d \in Chan, NEW i \in 1 .. Len(sched'.pktList[d])
      PROVE  sched'.pktList[d][i].idx = 0
  <2>1. d \in QueueChan
    BY DEF QueueChan
  <2>2. CASE d # c
    BY <2>1, <2>2, <1>1, <1>2, <1>4 DEF Split
  <2>3. CASE d = c
    <3>1. PICK s \in Seq(Packet) : s = sched.pktList[c]
      BY <2>1, <2>3, <1>1, SchedulerIs
    <3>2. PICK r : r = <<pkt>>
      OBVIOUS
    <3>3. r \in Seq(Packet) /\ Len(r) = 1 /\ r[1] = pkt
      <4>1. <<pkt>> \in Seq(Packet) /\ Len(<<pkt>>) = 1 /\ <<pkt>>[1] = pkt
        OBVIOUS
      <4> QED BY <4>1, <3>2
    <3>4. sched'.pktList[d] = s \o r
      BY <2>3, <3>1, <3>2, <1>2
    <3>5. /\ Len(s) \in Nat /\ i \in 1 .. Len(s) + 1
          /\ (s \o r)[i] = IF i <= Len(s) THEN s[i] ELSE r[i - Len(s)]
      BY <3>3, <3>4, <1>4, ConcatProperties, LenProperties
    <3>6. CASE i <= Len(s)
      <4>1. i \in 1 .. Len(s)
        BY <3>5, <3>6
      <4> QED BY <4>1, <3>1, <3>4, <3>5, <3>6, <1>1 DEF Split
    <3>7. CASE ~(i <= Len(s))
      <4>1. i - Len(s) = 1
        BY <3>5, <3>7
      <4> QED BY <4>1, <3>3, <3>4, <3>5, <3>7, <1>2
    <3> QED BY <3>6, <3>7
  <2> QED BY <2>2, <2>3
<1>5. ASSUME NEW m \in Lcid, NEW i \in 1 .. Len(sched'.pktList[m])
      PROVE  sched'.pktList[m][i].idx # 0
  <2>1. m \in QueueChan /\ m # c
    BY SchedulerAssumption DEF QueueChan
  <2> QED BY <2>1, <1>1, <1>2, <1>5 DEF Split
<1> QED BY <1>3, <1>4, <1>5 DEF Split

LEMMA DownSplit ==
  ASSUME OInv, NEW c \in Chan, c \in up, sched' = ChannelDown(sched, c), up' = up \ {c},
         bufferList' = bufferList
  PROVE  Split'
<1>1. QueuesOK /\ Split
  BY IInvParts DEF OInv
<1>2. \A d \in QueueChan : sched'.pktList[d] = <<>> \/ sched'.pktList[d] = sched.pktList[d]
  BY <1>1, DownQueues
<1>3. ASSUME NEW d \in QueueChan, NEW i \in 1 .. Len(sched'.pktList[d])
      PROVE  sched'.pktList[d] = sched.pktList[d]
  <2>1. sched'.pktList[d] # <<>>
    BY <1>3
  <2> QED BY <2>1, <1>2
<1>4. \A d \in Chan : \A i \in 1 .. Len(sched'.pktList[d]) : sched'.pktList[d][i].idx = 0
  BY <1>1, <1>3 DEF Split, QueueChan
<1>5. \A m \in Lcid : \A i \in 1 .. Len(sched'.pktList[m]) : sched'.pktList[m][i].idx # 0
  BY <1>1, <1>3 DEF Split, QueueChan
<1> QED BY <1>4, <1>5 DEF Split

LEMMA NextOInv ==
  ASSUME ~MayFail, OInv, [Next]_vars
  PROVE  OInv'
<1>1. IInv' /\ Alone'
  BY NextIInv, AloneNext DEF OInv
<1>2. IInv /\ Alone /\ Split /\ Passed
  BY DEF OInv
<1>3. ASSUME UNCHANGED sched
      PROVE  Split'
  BY <1>2, <1>3 DEF Split
<1>4. CASE UNCHANGED vars
  <2>1. Passed'
    BY <1>2, <1>4 DEF Passed, vars, bufVars, CanSend, Connected
  <2> QED BY <2>1, <1>1, <1>3, <1>4 DEF OInv, vars
<1>5. CASE RunStep
  <2>1. CASE SchedulerRunEnds
    BY <2>1, <1>1, <1>3, IdlePassed DEF SchedulerRunEnds, OInv
  <2>2. CASE SchedulerRunQueue
    <3>1. UNCHANGED sched
      BY <2>2 DEF SchedulerRunQueue
    <3> QED BY <3>1, <2>2, <1>1, <1>3, RunQueuePassed DEF OInv
  <2>3. CASE SchedulePriorityEnds
    BY <2>3, <1>1, PriorityEndsPassed DEF OInv
  <2>4. ASSUME NEW l \in Lcid, NextLcid(l)
        PROVE  OInv'
    <3>1. UNCHANGED sched
      BY <2>4 DEF NextLcid
    <3> QED BY <3>1, <2>4, <1>1, <1>3, NextLcidPassed DEF OInv
  <2>5. ASSUME NEW l \in Lcid, SendFragment(l) \/ SplitAndSend(l)
        PROVE  OInv'
    BY <2>5, <1>1, SendFragmentOrder, SplitOrder DEF OInv
  <2>6. ASSUME NEW l \in Lcid, ScheduleLcidFails(l) \/ SaveFragmentDataFails(l)
        PROVE  FALSE
    BY <2>6 DEF ScheduleLcidFails, SaveFragmentDataFails
  <2> QED BY <1>5, <2>1, <2>2, <2>3, <2>4, <2>5, <2>6 DEF RunStep
<1>6. ASSUME losing # {}, run' = run
      PROVE  Passed'
  <2>1. run'.at = "idle"
    BY <1>2, <1>6 DEF Alone
  <2> QED BY <2>1 DEF Passed
<1>7. ASSUME NEW c \in Chan, ReleaseChannel(c)
      PROVE  OInv'
  <2>1. Passed'
    BY <1>6, <1>7 DEF ReleaseChannel
  <2>2. Split'
    BY <1>7, DownSplit DEF ReleaseChannel, bufVars
  <2> QED BY <2>1, <2>2, <1>1 DEF OInv
<1>8. ASSUME NEW l \in Lcid, DLIDisconnectCbk(l)
      PROVE  OInv'
  <2>1. Passed'
    BY <1>6, <1>8 DEF DLIDisconnectCbk
  <2>2. Split'
    BY <1>2, <1>8, DLIDisconnectStep, IdleSplit
  <2> QED BY <2>1, <2>2, <1>1 DEF OInv
<1>9. ASSUME NEW c \in Chan, DataSendWithPriority(c)
      PROVE  OInv'
  BY <1>9, <1>1, DataSendOrder DEF OInv
<1>10. ASSUME NEW c \in Chan, ChannelDel(c)
       PROVE  OInv'
  <2>1. Passed'
    BY <1>10, IdlePassed DEF ChannelDel, Ready
  <2>2. Split'
    BY <1>10, DownSplit DEF ChannelDel, bufVars
  <2> QED BY <2>1, <2>2, <1>1 DEF OInv
<1>11. ASSUME NEW c \in Chan, ChannelAdd(c)
       PROVE  OInv'
  BY <1>11, <1>1, <1>3, IdlePassed DEF ChannelAdd, Ready, OInv
<1>12. ASSUME NEW l \in Lcid, SendCompleteCbk(l)
       PROVE  OInv'
  BY <1>12, <1>1, <1>3, IdlePassed DEF SendCompleteCbk, OInv
<1>13. ASSUME NEW l \in Lcid, DLIConnectCbk(l) \/ LinkLost(l)
       PROVE  OInv'
  BY <1>13, <1>1, <1>3, IdlePassed DEF DLIConnectCbk, LinkLost, Ready, OInv
<1>14. ASSUME NEW num \in ApBufferNums, SetApBufferNum(num)
       PROVE  OInv'
  BY <1>14, <1>1, <1>3, IdlePassed DEF SetApBufferNum, Ready, OInv
<1> QED BY <1>4, <1>5, <1>7, <1>8, <1>9, <1>10, <1>11, <1>12, <1>13, <1>14 DEF Next, LossStep

LEMMA InitOInv == Init => OInv
<1> SUFFICES ASSUME Init
             PROVE  OInv
  OBVIOUS
<1>1. IInv /\ run = Idle /\ losing = {}
  BY InitIInv DEF Init
<1>2. run.at = "idle"
  BY <1>1 DEF Idle
<1>3. Passed /\ Alone
  BY <1>1, <1>2 DEF Passed, Alone
<1>4. \A c \in QueueChan : sched.pktList[c] = <<>>
  BY DEF Init
<1>5. \A c \in QueueChan : ~ \E i \in 1 .. Len(sched.pktList[c]) : TRUE
  BY <1>4
<1>6. Split
  BY <1>5 DEF Split, QueueChan
<1> QED BY <1>1, <1>3, <1>6 DEF OInv

\* Only a step that sends for link l adds to what the controller holds for it.
LEMMA WhoSends ==
  ASSUME IInv, [Next]_vars, NEW l \in Lcid, inflight'[l] > inflight[l]
  PROVE  SendFragment(l) \/ SplitAndSend(l) \/ SaveFragmentDataFails(l)
<1>1. inflight \in [Lcid -> Nat]
  BY DEF IInv, TypeOK
<1>2. PICK x \in Nat : x = inflight[l]
  BY <1>1
<1>3. inflight' # inflight
  BY <1>2
<1>4. ASSUME NEW m \in Lcid, SendFragment(m) \/ SplitAndSend(m) \/ SaveFragmentDataFails(m)
      PROVE  m = l
  <2>1. \E n, frag : SendData(m, n, frag)
    BY <1>4 DEF SendFragment, SplitAndSend, SaveFragmentDataFails
  <2>2. \E n : inflight' = [inflight EXCEPT ![m] = @ + n]
    BY <2>1 DEF SendData
  <2>3. m # l => inflight'[l] = inflight[l]
    BY <2>2, <1>1
  <2> QED BY <2>3, <1>2
<1>5. ASSUME NEW m \in Lcid, SendCompleteCbk(m)
      PROVE  FALSE
  <2>1. PICK n \in 1 .. inflight[m] : inflight' = [inflight EXCEPT ![m] = @ - n]
    BY <1>5 DEF SendCompleteCbk
  <2>2. n \in Nat
    BY <1>1
  <2>3. CASE m = l
    <3>1. inflight'[l] = x - n
      BY <2>1, <2>3, <1>1, <1>2
    <3> QED BY <3>1, <2>2, <1>2
  <2>4. CASE m # l
    <3>1. inflight'[l] = x
      BY <2>1, <2>4, <1>1, <1>2
    <3> QED BY <3>1, <1>2
  <2> QED BY <2>3, <2>4
<1>6. ASSUME NEW m \in Lcid, DLIDisconnectCbk(m)
      PROVE  FALSE
  <2>1. inflight' = [inflight EXCEPT ![m] = 0]
    BY <1>6 DEF DLIDisconnectCbk
  <2>2. inflight'[l] = 0 \/ inflight'[l] = x
    BY <2>1, <1>1, <1>2
  <2> QED BY <2>2, <1>2
<1>7. CASE UNCHANGED vars
  BY <1>3, <1>7 DEF vars, ctrlVars
<1>8. CASE RunStep
  <2>1. ~(SchedulerRunEnds \/ SchedulerRunQueue \/ SchedulePriorityEnds)
    BY <1>3 DEF SchedulerRunEnds, SchedulerRunQueue, SchedulePriorityEnds, ctrlVars
  <2>2. \A m \in Lcid : ~(NextLcid(m) \/ ScheduleLcidFails(m))
    BY <1>3 DEF NextLcid, ScheduleLcidFails, ctrlVars
  <2>3. PICK m \in Lcid : SendFragment(m) \/ SplitAndSend(m) \/ SaveFragmentDataFails(m)
    BY <1>8, <2>1, <2>2 DEF RunStep
  <2>4. m = l
    BY <1>4, <2>3
  <2> QED BY <2>3, <2>4
<1>9. ASSUME NEW c \in Chan, ReleaseChannel(c) \/ DataSendWithPriority(c) \/ ChannelDel(c) \/ ChannelAdd(c)
      PROVE  FALSE
  BY <1>3, <1>9 DEF ReleaseChannel, DataSendWithPriority, ChannelDel, ChannelAdd, ctrlVars
<1>10. ASSUME NEW m \in Lcid, DLIConnectCbk(m) \/ LinkLost(m)
      PROVE  FALSE
  BY <1>3, <1>10 DEF DLIConnectCbk, LinkLost, ctrlVars
<1>11. ASSUME NEW num \in ApBufferNums, SetApBufferNum(num)
      PROVE  FALSE
  BY <1>3, <1>11 DEF SetApBufferNum, ctrlVars
<1> QED BY <1>5, <1>6, <1>7, <1>8, <1>9, <1>10, <1>11 DEF Next, LossStep

\* What a step hands over leaves nothing more urgent of the same link behind.
Urgent ==
    \A l \in Lcid : inflight'[l] > inflight[l] =>
        \A c \in QueueChan : LinkOf(c) = l /\ QueueOf(c) < run.priority => sched.pktList[c] = <<>>

LEMMA NextUrgent ==
  ASSUME OInv, [Next]_vars
  PROVE  Urgent
<1> SUFFICES ASSUME NEW l \in Lcid, inflight'[l] > inflight[l],
                    NEW c \in QueueChan, LinkOf(c) = l, QueueOf(c) < run.priority
             PROVE  sched.pktList[c] = <<>>
  BY DEF Urgent
<1>1. IInv /\ QueuesOK /\ RunOK /\ Passed
  BY IInvParts DEF OInv
<1>2. SendFragment(l) \/ SplitAndSend(l) \/ SaveFragmentDataFails(l)
  BY <1>1, WhoSends
<1>3. PICK d \in QueueChan : AtPacket(l, d)
  BY <1>2 DEF SendFragment, SplitAndSend, SaveFragmentDataFails
<1>4. run.at = "lcid" /\ CanSend(l)
  BY <1>1, <1>3, AtPacketIs
<1>5. QueueOf(c) \in Priority
  BY ChannelIs
<1>6. Clear(sched, QueueOf(c), l)
  BY <1>1, <1>4, <1>5 DEF Passed
<1> QED BY <1>6 DEF Clear, Members

\* When DLI takes every fragment there is room for and memory suffices, a packet is only
\* handed over when no packet of a more urgent queue waits for the same link: a run of
\* DTAP_SchedulerRun leaves a queue only when its links have nothing they could send.
THEOREM UrgentIsFirst ==
  ASSUME ~MayFail
  PROVE  Spec => UrgentFirst
<1>1. OInv /\ [Next]_vars => OInv'
  BY NextOInv
<1>2. OInv /\ [Next]_vars => [Urgent]_vars
  BY NextUrgent
<1>3. Spec => []OInv
  BY InitOInv, <1>1, PTL DEF Spec
<1> QED BY <1>2, <1>3, PTL DEF Spec, UrgentFirst, Urgent

-----------------------------------------------------------------------------
(***************************************************************************)
(* The fragments.  When moreover no channel is released on its own, which  *)
(* throws the fragments of all channels of its link away, the fragments    *)
(* that wait for a link are the rest of the packet begun last.             *)
(***************************************************************************)
LEMMA RestEmpty ==
  ASSUME NEW x, x.idx \in Nat, x.idx = x.cnt
  PROVE  RestOf(x, <<>>)
BY DEF RestOf

LEMMA RestTail ==
  ASSUME NEW x \in Packet \cup {Nothing}, NEW s \in Seq(Packet), s # <<>>, RestOf(x, s)
  PROVE  /\ Head(s) = [x EXCEPT !.idx = @ + 1]
         /\ RestOf(Head(s), Tail(s))
<1>1. Len(s) \in Nat \ {0} /\ Head(s) = s[1]
  BY EmptySeq, HeadTailProperties
<1>2. /\ Tail(s) \in Seq(Packet) /\ Len(Tail(s)) = Len(s) - 1
      /\ \A k \in 1 .. Len(Tail(s)) : Tail(s)[k] = s[k + 1]
  BY HeadTailProperties
<1>3. x \in Packet
  <2>1. x # Nothing
    <3>1. Nothing.idx = 0 /\ Nothing.cnt = 0
      BY DEF Nothing
    <3> QED BY <3>1, <1>1 DEF RestOf
  <2> QED BY <2>1
<1>4. PICK i \in Nat : i = x.idx
  BY <1>3 DEF Packet
<1>5. PICK n \in Nat : n = x.cnt
  BY <1>3 DEF Packet
<1>6. \A k \in Nat : /\ [x EXCEPT !.idx = k] = [chan |-> x.chan, id |-> x.id, idx |-> k, cnt |-> x.cnt]
                     /\ [x EXCEPT !.idx = k] \in Packet
  BY <1>3, FragmentIs
<1>7. \A k \in 1 .. Len(s) : s[k] = [chan |-> x.chan, id |-> x.id, idx |-> i + k, cnt |-> x.cnt]
  <2> TAKE k \in 1 .. Len(s)
  <2>1. i + k \in Nat
    BY <1>1
  <2>2. s[k] = [x EXCEPT !.idx = i + k]
    BY <1>4 DEF RestOf
  <2> QED BY <2>1, <2>2, <1>6
<1>8. s[1] = [chan |-> x.chan, id |-> x.id, idx |-> i + 1, cnt |-> x.cnt]
  BY <1>1, <1>7
<1>9. Head(s) = [x EXCEPT !.idx = @ + 1]
  <2>1. [x EXCEPT !.idx = @ + 1] = [x EXCEPT !.idx = i + 1]
    BY <1>4
  <2>2. i + 1 \in Nat
    OBVIOUS
  <2> QED BY <2>1, <2>2, <1>1, <1>6, <1>8
<1>10. PICK h \in Packet : h = Head(s)
  BY HeadTailProperties
<1>11. h.idx = i + 1 /\ h.cnt = x.cnt /\ h.chan = x.chan /\ h.id = x.id
  BY <1>1, <1>8, <1>10
<1>12. h.idx + Len(Tail(s)) = h.cnt
  <2>1. i + Len(s) = n
    BY <1>4, <1>5 DEF RestOf
  <2> QED BY <2>1, <1>1, <1>2, <1>5, <1>11
<1>13. ASSUME NEW k \in 1 .. Len(Tail(s))
       PROVE  Tail(s)[k] = [h EXCEPT !.idx = h.idx + k]
  <2>1. k \in Nat /\ k + 1 \in 1 .. Len(s)
    BY <1>1, <1>2
  <2>2. PICK j \in Nat : j = i + (k + 1)
    BY <2>1
  <2>3. Tail(s)[k] = [chan |-> x.chan, id |-> x.id, idx |-> j, cnt |-> x.cnt]
    BY <2>1, <2>2, <1>2, <1>7
  <2>4. h.idx + k = j
    BY <2>1, <2>2, <1>11
  <2>5. [h EXCEPT !.idx = j] = [chan |-> h.chan, id |-> h.id, idx |-> j, cnt |-> h.cnt]
    BY FragmentIs
  <2> QED BY <2>3, <2>4, <2>5, <1>11
<1>14. RestOf(h, Tail(s))
  BY <1>12, <1>13 DEF RestOf
<1> QED BY <1>9, <1>10, <1>14

LEMMA RestRemainder ==
  ASSUME NEW pkt \in Packet, NEW n \in 0 .. pkt.cnt
  PROVE  /\ RestOf([pkt EXCEPT !.idx = n], Remainder(pkt, n))
         /\ n = pkt.cnt => RestOf([pkt EXCEPT !.idx = n], <<>>)
<1>1. pkt.cnt \in Nat /\ n \in Nat
  BY DEF Packet
<1>2. PICK x \in Packet : x = [pkt EXCEPT !.idx = n]
  BY <1>1, FragmentIs
<1>3. x = [chan |-> pkt.chan, id |-> pkt.id, idx |-> n, cnt |-> pkt.cnt]
  BY <1>1, <1>2, FragmentIs
<1>4. x.idx = n /\ x.cnt = pkt.cnt /\ x.chan = pkt.chan /\ x.id = pkt.id
  BY <1>3
<1>5. PICK r : r = Remainder(pkt, n)
  OBVIOUS
<1>6. /\ Len(r) = pkt.cnt - n
      /\ \A k \in 1 .. pkt.cnt - n : r[k] = [pkt EXCEPT !.idx = n + k]
  BY <1>5, RemainderIs
<1>7. x.idx + Len(r) = x.cnt
  BY <1>1, <1>4, <1>6
<1>8. ASSUME NEW k \in 1 .. Len(r)
      PROVE  r[k] = [x EXCEPT !.idx = x.idx + k]
  <2>1. k \in 1 .. pkt.cnt - n
    BY <1>6
  <2>2. PICK j \in Nat : j = n + k
    BY <1>1, <2>1
  <2>3. r[k] = [pkt EXCEPT !.idx = j]
    BY <2>1, <2>2, <1>6
  <2>4. /\ [pkt EXCEPT !.idx = j] = [chan |-> pkt.chan, id |-> pkt.id, idx |-> j, cnt |-> pkt.cnt]
        /\ [x EXCEPT !.idx = j] = [chan |-> x.chan, id |-> x.id, idx |-> j, cnt |-> x.cnt]
    BY FragmentIs
  <2>5. x.idx + k = j
    BY <2>2, <1>4
  <2> QED BY <2>3, <2>4, <2>5, <1>4
<1>9. RestOf(x, r)
  BY <1>7, <1>8 DEF RestOf
<1>10. n = pkt.cnt => RestOf(x, <<>>)
  BY <1>1, <1>4, RestEmpty
<1> QED BY <1>2, <1>5, <1>9, <1>10

\* A fragment that is sent is the next one of the packet begun last.
LEMMA SendFragmentRest ==
  ASSUME FInv, NEW l \in Lcid, SendFragment(l)
  PROVE  RestWaits' /\ last'[l] = [last[l] EXCEPT !.idx = @ + 1]
<1>1. /\ CreditsOK /\ QueuesOK /\ RunOK /\ RestOK /\ Split /\ Alone /\ RestWaits
      /\ sched \in Scheduler /\ last[l] \in Packet \cup {Nothing}
  BY IInvParts DEF FInv, OInv, QueuesOK, RestOK
<1>2. PICK c \in QueueChan :
        /\ AtPacket(l, c)
        /\ Head(sched.pktList[c]).idx # 0
        /\ SendData(l, 1, Head(sched.pktList[c]))
        /\ sched' = PriorityQueuePop(sched, c)
        /\ losing' = losing
  BY DEF SendFragment
<1>3. /\ run.at = "lcid" /\ LinkOf(c) = l /\ sched.pktList[c] # <<>>
      /\ Head(sched.pktList[c]) \in Packet /\ l \in Range(bufferList)
  BY <1>1, <1>2, AtPacketIs
<1>4. losing = {}
  BY <1>1, <1>3 DEF Alone
<1>5. PICK s \in Seq(Packet) : s = sched.pktList[c]
  BY <1>1, SchedulerIs
<1>6. c = l
  <2>1. Len(s) \in Nat \ {0} /\ Head(s) = s[1]
    BY <1>3, <1>5, EmptySeq, HeadTailProperties
  <2>2. 1 \in 1 .. Len(s) /\ s[1].idx # 0
    BY <2>1, <1>2, <1>5
  <2>3. c \notin Chan
    BY <2>2, <1>1, <1>5 DEF Split
  <2> QED BY <2>3, <1>3 DEF QueueChan, LinkOf
<1>7. RestOf(last[l], s)
  BY <1>1, <1>4, <1>5, <1>6 DEF RestWaits
<1>8. Head(s) = [last[l] EXCEPT !.idx = @ + 1] /\ RestOf(Head(s), Tail(s))
  BY <1>1, <1>3, <1>5, <1>7, RestTail
<1>9. last'[l] = Head(s) /\ \A m \in Lcid : m # l => last'[m] = last[m]
  <2>1. PICK h \in Packet : h = Head(sched.pktList[c])
    BY <1>3
  <2>2. SendData(l, 1, h) /\ 1 \in Nat /\ 1 # 0
    BY <2>1, <1>2
  <2>3. last'[l] = (IF 1 = 0 THEN last[l] ELSE h) /\ \A m \in Lcid : m # l => last'[m] = last[m]
    BY <1>1, <2>2, SendDataCredits
  <2> QED BY <2>1, <2>2, <2>3, <1>5
<1>10. Follows(sched, sched', Range(bufferList), c, Tail(sched.pktList[c]))
  BY <1>1, <1>2, <1>3, PopQueues
<1>11. sched'.pktList[l] = Tail(s) /\ \A m \in Lcid : m # l => sched'.pktList[m] = sched.pktList[m]
  BY <1>5, <1>6, <1>10 DEF Follows, QueueChan
<1>12. ASSUME NEW m \in Lcid
       PROVE  RestOf(last'[m], sched'.pktList[m])
  <2>1. CASE m = l
    BY <2>1, <1>8, <1>9, <1>11
  <2>2. CASE m # l
    BY <2>2, <1>1, <1>4, <1>9, <1>11 DEF RestWaits
  <2> QED BY <2>1, <2>2
<1> QED BY <1>8, <1>9, <1>12 DEF RestWaits

\* A packet is only begun when no fragments wait for the link.
LEMMA SplitRest ==
  ASSUME FInv, ~MayFail, NEW l \in Lcid, SplitAndSend(l)
  PROVE  RestWaits' /\ last[l].idx = last[l].cnt
<1>1. /\ IInv /\ CreditsOK /\ QueuesOK /\ RunOK /\ RestOK /\ Passed /\ Alone /\ RestWaits /\ OInv
      /\ sched \in Scheduler /\ last[l] \in Packet \cup {Nothing}
  BY IInvParts DEF FInv, OInv, QueuesOK, RestOK
<1>2. PICK c \in QueueChan, pkt \in Packet, n \in Nat : Splits(l, c, pkt, n)
  BY <1>1, SplitsIs
<1>3. /\ c \in Chan /\ c # l /\ LinkOf(c) = l
      /\ sched'.pktList[l] = IF n = pkt.cnt THEN sched.pktList[l] ELSE sched.pktList[l] \o Remainder(pkt, n)
      /\ \A d \in QueueChan : d # c /\ d # l => sched'.pktList[d] = sched.pktList[d]
  BY <1>1, <1>2, SplitsLists
<1>4. /\ AtPacket(l, c) /\ n \in 0 .. pkt.cnt /\ SendData(l, n, [pkt EXCEPT !.idx = n]) /\ losing' = losing
      /\ n # pkt.cnt => sendNotAck[l] + n = quota[l] \/ gSendNotAck + n = apBufferNum \/ MayFail
  BY <1>2 DEF Splits
<1>5. run.at = "lcid" /\ CanSend(l) /\ run.priority = QueueOf(c)
  BY <1>1, <1>4, AtPacketIs
<1>6. losing = {}
  BY <1>1, <1>5 DEF Alone
<1>7. sched.pktList[l] = <<>>
  <2>1. QueueOf(c) = PriorityOf[c] /\ PriorityOf[c] \in Priority \ {DTAP_PRIORITY_FRAGMENT}
    BY <1>3, SchedulerAssumption DEF QueueOf
  <2>2. 0 \in Priority /\ 0 < run.priority
    BY <2>1, <1>5 DEF Priority, DTAP_PRIORITY_FRAGMENT, DTAP_PRIORITY_NORMAL
  <2>3. Clear(sched, 0, l)
    BY <2>2, <1>1, <1>5 DEF Passed
  <2>4. l \in Members(0, l)
    BY DEF Members, QueueChan, LinkOf, QueueOf, DTAP_PRIORITY_FRAGMENT
  <2> QED BY <2>3, <2>4 DEF Clear
<1>8. last[l].idx = last[l].cnt
  <2>1. RestOf(last[l], <<>>)
    BY <1>1, <1>6, <1>7 DEF RestWaits
  <2>2. last[l].idx \in Nat
    BY <1>1 DEF Packet, Nothing
  <2> QED BY <2>1, <2>2 DEF RestOf
<1>9. n # 0
  <2>1. /\ gSendNotAck \in Nat /\ apBufferNum \in Nat /\ sendNotAck[l] \in Nat /\ quota[l] \in Nat
        /\ gSendNotAck < apBufferNum /\ sendNotAck[l] < quota[l]
    BY <1>1, <1>5 DEF CreditsOK, CanSend
  <2>2. pkt.cnt # 0
    BY DEF Packet
  <2> QED BY <2>1, <2>2, <1>4
<1>10. last'[l] = [pkt EXCEPT !.idx = n] /\ \A m \in Lcid : m # l => last'[m] = last[m]
  <2>1. PICK frag \in Packet : frag = [pkt EXCEPT !.idx = n]
    BY FragmentIs
  <2>2. SendData(l, n, frag)
    BY <2>1, <1>4
  <2>3. last'[l] = (IF n = 0 THEN last[l] ELSE frag) /\ \A m \in Lcid : m # l => last'[m] = last[m]
    BY <2>2, <1>1, SendDataCredits
  <2> QED BY <2>1, <2>3, <1>9
<1>11. RestOf([pkt EXCEPT !.idx = n], sched'.pktList[l])
  <2>1. CASE n = pkt.cnt
    <3>1. sched'.pktList[l] = <<>>
      BY <2>1, <1>3, <1>7
    <3> QED BY <3>1, <2>1, <1>4, RestRemainder
  <2>2. CASE n # pkt.cnt
    <3>1. Remainder(pkt, n) \in Seq(Packet)
      BY <1>4, RemainderIs
    <3>2. <<>> \o Remainder(pkt, n) = Remainder(pkt, n)
      BY <3>1
    <3>3. sched'.pktList[l] = Remainder(pkt, n)
      BY <2>2, <3>2, <1>3, <1>7
    <3> QED BY <3>3, <1>4, RestRemainder
  <2> QED BY <2>1, <2>2
<1>12. ASSUME NEW m \in Lcid
       PROVE  RestOf(last'[m], sched'.pktList[m])
  <2>1. CASE m = l
    BY <2>1, <1>10, <1>11
  <2>2. CASE m # l
    <3>1. m \in QueueChan /\ m # c
      BY <1>3, SchedulerAssumption DEF QueueChan
    <3> QED BY <3>1, <2>2, <1>1, <1>3, <1>6, <1>10 DEF RestWaits
  <2> QED BY <2>1, <2>2
<1> QED BY <1>8, <1>12 DEF RestWaits

LEMMA NextFInv ==
  ASSUME ~MayFail, MaxDown = 0, FInv, [Next]_vars
  PROVE  FInv'
<1>1. OInv' /\ OInv /\ IInv /\ Alone /\ RestWaits /\ QueuesOK /\ RestOK
  BY NextOInv, IInvParts DEF FInv, OInv
<1> SUFFICES RestWaits'
  BY <1>1 DEF FInv
<1>2. ASSUME \A l \in Lcid : sched'.pktList[l] = sched.pktList[l], last' = last, losing \subseteq losing'
      PROVE  RestWaits'
  BY <1>1, <1>2 DEF RestWaits
<1>3. CASE UNCHANGED vars
  BY <1>2, <1>3 DEF vars, ctrlVars
<1>4. CASE RunStep
  <2>1. CASE SchedulerRunEnds \/ SchedulerRunQueue
    BY <2>1, <1>2 DEF SchedulerRunEnds, SchedulerRunQueue, ctrlVars
  <2>2. CASE SchedulePriorityEnds
    <3>1. sched'.pktList = sched.pktList
      BY <2>2, <1>1, PriorityEndsStep
    <3> QED BY <3>1, <2>2, <1>2 DEF SchedulePriorityEnds, ctrlVars
  <2>3. ASSUME NEW l \in Lcid, NextLcid(l)
        PROVE  RestWaits'
    BY <2>3, <1>2 DEF NextLcid, ctrlVars
  <2>4. ASSUME NEW l \in Lcid, SendFragment(l) \/ SplitAndSend(l)
        PROVE  RestWaits'
    BY <2>4, SendFragmentRest, SplitRest
  <2>5. ASSUME NEW l \in Lcid, ScheduleLcidFails(l) \/ SaveFragmentDataFails(l)
        PROVE  FALSE
    BY <2>5 DEF ScheduleLcidFails, SaveFragmentDataFails
  <2> QED BY <1>4, <2>1, <2>2, <2>3, <2>4, <2>5 DEF RunStep
<1>5. ASSUME NEW c \in Chan, ReleaseChannel(c)
      PROVE  RestWaits'
  <2>1. /\ LcidOf[c] \in losing /\ c \in up /\ sched' = ChannelDown(sched, c) /\ up' = up \ {c}
        /\ bufferList' = bufferList /\ losing' = losing /\ last' = last
    BY <1>5 DEF ReleaseChannel, bufVars, ctrlVars
  <2>2. \A d \in QueueChan :
          sched'.pktList[d] = IF d = c \/ d = LcidOf[c] THEN <<>> ELSE sched.pktList[d]
    BY <2>1, <1>1, DownQueues
  <2>3. ASSUME NEW l \in Lcid, l \notin losing
        PROVE  sched'.pktList[l] = sched.pktList[l]
    <3>1. l \in QueueChan /\ l # c /\ l # LcidOf[c]
      BY <2>1, <2>3, SchedulerAssumption DEF QueueChan
    <3> QED BY <3>1, <2>2
  <2> QED BY <2>1, <2>3, <1>1 DEF RestWaits
<1>6. ASSUME NEW l \in Lcid, DLIDisconnectCbk(l)
      PROVE  RestWaits'
  <2>1. l \in losing /\ up \cap ChannelsOf(l) = {} /\ losing' = {} /\ last' = [last EXCEPT ![l] = Nothing]
    BY <1>6 DEF DLIDisconnectCbk
  <2>2. sched'.pktList = sched.pktList
    BY <1>1, <1>6, DLIDisconnectStep
  <2>3. sched.pktList[l] = <<>>
    BY <2>1, <1>1 DEF QueuesOK, Queues, OnlyUp
  <2>4. last'[l] = Nothing /\ \A m \in Lcid : m # l => last'[m] = last[m]
    BY <2>1, <1>1 DEF RestOK
  <2>5. RestOf(Nothing, <<>>)
    <3>1. Nothing.idx = 0 /\ Nothing.cnt = 0
      BY DEF Nothing
    <3> QED BY <3>1, RestEmpty
  <2>6. ASSUME NEW m \in Lcid
        PROVE  RestOf(last'[m], sched'.pktList[m])
    <3>1. CASE m = l
      BY <3>1, <2>2, <2>3, <2>4, <2>5
    <3>2. CASE m # l
      <4>1. m \notin losing
        BY <3>2, <2>1, <1>1 DEF Alone
      <4> QED BY <4>1, <3>2, <2>2, <2>4, <1>1 DEF RestWaits
    <3> QED BY <3>1, <3>2
  <2> QED BY <2>6 DEF RestWaits
<1>7. ASSUME NEW c \in Chan, DataSendWithPriority(c)
      PROVE  RestWaits'
  <2>1. \A d \in QueueChan : d # c => sched'.pktList[d] = sched.pktList[d]
    BY <1>1, <1>7, DataSendLists
  <2>2. \A l \in Lcid : l \in QueueChan /\ l # c
    BY SchedulerAssumption DEF QueueChan
  <2> QED BY <2>1, <2>2, <1>2, <1>7 DEF DataSendWithPriority, ctrlVars
<1>8. ASSUME NEW c \in Chan, ChannelDel(c)
      PROVE  FALSE
  <2>1. faults.downs \in Nat /\ faults.downs < 0
    BY <1>1, <1>8 DEF RestOK, ChannelDel
  <2> QED BY <2>1
<1>9. ASSUME NEW c \in Chan, ChannelAdd(c)
      PROVE  RestWaits'
  BY <1>2, <1>9 DEF ChannelAdd, ctrlVars
<1>10. ASSUME NEW l \in Lcid, SendCompleteCbk(l) \/ DLIConnectCbk(l) \/ LinkLost(l)
       PROVE  RestWaits'
  BY <1>2, <1>10 DEF SendCompleteCbk, DLIConnectCbk, LinkLost, Ready, ctrlVars
<1>11. ASSUME NEW num \in ApBufferNums, SetApBufferNum(num)
       PROVE  RestWaits'
  BY <1>2, <1>11 DEF SetApBufferNum, ctrlVars
<1> QED BY <1>3, <1>4, <1>5, <1>6, <1>7, <1>8, <1>9, <1>10, <1>11 DEF Next, LossStep

LEMMA InitFInv == Init => FInv
<1> SUFFICES ASSUME Init
             PROVE  FInv
  OBVIOUS
<1>1. \A l \in Lcid : last[l] = Nothing /\ sched.pktList[l] = <<>>
  BY DEF Init, QueueChan
<1>2. Nothing.idx = 0 /\ Nothing.cnt = 0
  BY DEF Nothing
<1>3. RestOf(Nothing, <<>>)
  BY <1>2, RestEmpty
<1> QED BY <1>1, <1>3, InitOInv DEF FInv, RestWaits

\* What a step hands over begins a packet after the end of the one before, or goes on with it.
Contiguous ==
    \A l \in Lcid : inflight'[l] > inflight[l] =>
        \/ last[l].idx = last[l].cnt
        \/ last'[l] = [last[l] EXCEPT !.idx = @ + 1]

LEMMA NextContiguous ==
  ASSUME ~MayFail, FInv, [Next]_vars
  PROVE  Contiguous
<1> SUFFICES ASSUME NEW l \in Lcid, inflight'[l] > inflight[l]
             PROVE  \/ last[l].idx = last[l].cnt
                    \/ last'[l] = [last[l] EXCEPT !.idx = @ + 1]
  BY DEF Contiguous
<1>1. SendFragment(l) \/ SplitAndSend(l) \/ SaveFragmentDataFails(l)
  BY WhoSends DEF FInv, OInv
<1>2. CASE SendFragment(l)
  BY <1>2, SendFragmentRest
<1>3. CASE SplitAndSend(l)
  BY <1>3, SplitRest
<1>4. ~SaveFragmentDataFails(l)
  BY DEF SaveFragmentDataFails
<1> QED BY <1>1, <1>2, <1>3, <1>4

\* When DLI takes every fragment there is room for, memory suffices and no channel is released
\* on its own, the fragments of a link reach the controller packet after packet, none left
\* out and none of another packet between them, over full buffers, changing quotas and the
\* loss and return of links.
THEOREM FragmentsStayTogether ==
  ASSUME ~MayFail, MaxDown = 0
  PROVE  Spec => FragmentsContiguous
<1>1. FInv /\ [Next]_vars => FInv'
  BY NextFInv
<1>2. FInv /\ [Next]_vars => [Contiguous]_vars
  BY NextContiguous
<1>3. Spec => []FInv
  BY InitFInv, <1>1, PTL DEF Spec
<1> QED BY <1>2, <1>3, PTL DEF Spec, FragmentsContiguous, Contiguous

=============================================================================
