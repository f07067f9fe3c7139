------------------------ MODULE DtapUnreliableProofs ------------------------
(***************************************************************************)
(* The modes of DTAP that do not retransmit, for every cache size, reorder *)
(* timeout, width of the sequence numbers and depth of the link, with the  *)
(* timers and tasks of earlier channels under way.                         *)
(*                                                                         *)
(* The invariant follows the list of stream mode by distances: the number  *)
(* of steps from the expected one.  As long as the list spans less than    *)
(* half a turn the distances order it as DTAP_IsFrameSeqSmaller does, and  *)
(* as long as the link is not deeper than half a turn they count messages. *)
(***************************************************************************)
EXTENDS DtapUnreliable, DtapSeqProofs, FiniteSetTheorems

(***************************************************************************)
(* The inductive invariant.                                                *)
(***************************************************************************)
\* The messages of the first k nodes of a list.
Msgs(rx, k) == [i \in 1 .. k |-> rx[i].msg]

\* The list of stream mode lies less than half a turn of the numbers from the one that is
\* expected, in the order of the distances.
Sorted(c) ==
    /\ c.expectedSeq \in SeqNum
    /\ \A i \in 1 .. Len(c.rxList) : Behind(c.expectedSeq, c.rxList[i].seq) < SignMask
    /\ \A i, j \in 1 .. Len(c.rxList) : i < j =>
         Behind(c.expectedSeq, c.rxList[i].seq) < Behind(c.expectedSeq, c.rxList[j].seq)

\* None of the list is the expected one.
Gap(c) == \A i \in 1 .. Len(c.rxList) : c.rxList[i].seq # c.expectedSeq

Elements(g) == {g[i] : i \in 1 .. Len(g)}

\* T is what was accepted: g was handed over, the rest is held.
Kept(c, g, T) == T = Elements(g) \cup {c.rxList[i].msg : i \in 1 .. Len(c.rxList)}

\* The number of x is the one the sender gave to the message: n messages were sent, the last
\* one with the number q.
OnLine(x, n, q) == x.msg <= n /\ SeqAdd(x.seq, n - x.msg) = q

\* The expected number follows that of the last message handed over, and the list holds later
\* messages in their order.
InLine(c, g, n, q) ==
    /\ \E l \in Frame :
         /\ OnLine(l, n, q) /\ c.expectedSeq = GetNextFrameSeq(l.seq)
         /\ g # <<>> /\ g[Len(g)] = l.msg
         /\ \A i \in 1 .. Len(c.rxList) : l.msg < c.rxList[i].msg
    /\ \A i \in 1 .. Len(c.rxList) : OnLine(c.rxList[i], n, q)
    /\ \A i, j \in 1 .. Len(c.rxList) : i < j => c.rxList[i].msg < c.rxList[j].msg
    /\ \A i, j \in 1 .. Len(g) : i < j => g[i] < g[j]

\* A channel of stream mode that has heard from its peer.
Flows(c, g, T, n, q) ==
    /\ c \in Channel /\ Len(c.rxList) <= CacheMax + 1 /\ c.mode = "stream"
    /\ g \in Seq(Msg)
    /\ Sorted(c)
    /\ Kept(c, g, T)
    /\ Depth <= SignMask => InLine(c, g, n, q)

Silent(c, g, T) ==
    /\ c \in Channel /\ c.mode = "stream"
    /\ c.expectedSeq = SEQ_INIT /\ c.rxList = <<>>
    /\ g = <<>> /\ T = {}

\* The link holds frames of this channel that are not older than its depth.
Link ==
    /\ ch = NoChan => net = {}
    /\ ch # NoChan /\ ch.mode = "stream" => \A f \in net : OnLine(f, sent, txSeq)
    /\ \A f \in net : f.msg + Depth > sent \/ f.msg = sent

\* An armed timer.
Timer == [id : Nat \ {NoTimer}, at : 0 .. Never]

\* A channel of stream mode between two events.
Streaming(c, g, T, n, q) ==
    \/ Silent(c, g, T)
    \/ Flows(c, g, T, n, q) /\ Gap(c)

\* A channel of basic mode: t was accepted, g handed over, and the rest waits in order.
Cached(c, g, t) ==
    /\ t = g \o Msgs(c.rxList, Len(c.rxList))
    /\ c.isReady => c.rxList = <<>>

Typed ==
    /\ TypeOK /\ timers \in SUBSET Timer /\ IsFiniteSet(timers)
    /\ sent \in 0 .. MaxMsg /\ clock \in 0 .. MaxClock
    /\ got \in Seq(Msg) /\ taken \in Seq(Msg)

IInv ==
    /\ Typed
    /\ Link
    /\ ch.mode = "stream" => Streaming(ch, got, Elements(taken), sent, txSeq)
    /\ ch.mode = "basic" => Cached(ch, got, taken)

-----------------------------------------------------------------------------
(***************************************************************************)
(* Distances between sequence numbers.                                     *)
(***************************************************************************)
\* A distance is less than one turn, and zero only from a number to itself.
LEMMA BehindType ==
  ASSUME NEW a \in SeqNum, NEW x \in SeqNum
  PROVE  /\ Behind(a, x) \in 0 .. SeqMod - 1
         /\ Behind(a, x) = 0 <=> a = x
BY SeqModFacts DEF Behind

\* Different numbers are at different distances.
LEMMA BehindDiffers ==
  ASSUME NEW a \in SeqNum, NEW x \in SeqNum, NEW y \in SeqNum, x # y
  PROVE  Behind(a, x) # Behind(a, y)
BY SeqModFacts DEF Behind

\* DTAP_IsFrameSeqSmaller refuses what lies half a turn or more ahead.
LEMMA NotSmaller ==
  ASSUME NEW a \in SeqNum, NEW x \in SeqNum
  PROVE  ~IsFrameSeqSmaller(x, a) <=> Behind(a, x) < SignMask
<1>1. IsFrameSeqSmaller(x, a) <=> (IF x >= a THEN x - a ELSE x - a + SeqMod) >= SignMask
  BY SmallerValue
<1> QED BY <1>1, SeqModFacts DEF Behind

\* DTAP_IsFrameSeqSmaller is the order of distances of less than half a turn.
LEMMA BehindSmaller ==
  ASSUME NEW a \in SeqNum, NEW x \in SeqNum, NEW y \in SeqNum,
         Behind(a, x) < SignMask, Behind(a, y) < SignMask
  PROVE  IsFrameSeqSmaller(x, y) <=> Behind(a, x) < Behind(a, y)
<1>1. IsFrameSeqSmaller(x, y) <=> (IF x >= y THEN x - y ELSE x - y + SeqMod) >= SignMask
  BY SmallerValue
<1> QED BY <1>1, SeqModFacts DEF Behind

\* The distance from the number after x.
LEMMA BehindNext ==
  ASSUME NEW a \in SeqNum, NEW x \in SeqNum, NEW y \in SeqNum, Behind(a, x) < Behind(a, y)
  PROVE  /\ GetNextFrameSeq(x) \in SeqNum
         /\ Behind(GetNextFrameSeq(x), y) = Behind(a, y) - Behind(a, x) - 1
<1>1. /\ GetNextFrameSeq(x) \in SeqNum
      /\ GetNextFrameSeq(x) = IF x + 1 < SeqMod THEN x + 1 ELSE x + 1 - SeqMod
  <2>1. 1 \in 0 .. SeqMod
    BY SeqModFacts
  <2> QED BY <2>1, NextIsSeqAdd, SeqAddValue
<1> QED BY <1>1, SeqModFacts DEF Behind

\* The number k further on lies k ahead.
LEMMA BehindAdd ==
  ASSUME NEW a \in SeqNum, NEW k \in 0 .. SeqMod - 1
  PROVE  SeqAdd(a, k) \in SeqNum /\ Behind(a, SeqAdd(a, k)) = k
<1>1. k \in 0 .. SeqMod /\ k \in Nat
  BY SeqModFacts
<1>2. SeqAdd(a, k) \in SeqNum /\ SeqAdd(a, k) = IF a + k < SeqMod THEN a + k ELSE a + k - SeqMod
  BY <1>1, SeqAddValue, SeqAddType
<1> QED BY <1>2, SeqModFacts DEF Behind

\* The constants.
LEMMA MsgFacts ==
  /\ MaxMsg \in Nat /\ MaxMsg <= SeqMod + 1 /\ Depth \in Nat /\ CacheMax \in Nat
  /\ CacheMax + 1 < SignMask /\ ReorderTimeout \in Nat /\ MaxClock \in Nat
  /\ Msg = 1 .. MaxMsg /\ Never = MaxClock + ReorderTimeout + 1
  /\ 0 \in SeqNum /\ SEQ_INIT \notin SeqNum
BY UnreliableAssumption, SeqModFacts DEF Msg, Never

\* Between two messages with the sender's numbers, a distance of less than half a turn is
\* the number of messages in between, unless the later one is older by as much.
LEMMA LineDistance ==
  ASSUME NEW n \in 0 .. MaxMsg, NEW q \in SeqNum,
         NEW a \in SeqNum, NEW i \in Msg, NEW x \in SeqNum, NEW j \in Msg,
         OnLine([seq |-> a, msg |-> i], n, q), OnLine([seq |-> x, msg |-> j], n, q),
         Behind(GetNextFrameSeq(a), x) < SignMask, j + SignMask >= i + 1
  PROVE  j = i + 1 + Behind(GetNextFrameSeq(a), x)
<1>0. i \in Nat /\ j \in Nat /\ 1 <= i /\ 1 <= j /\ j <= MaxMsg /\ n \in Nat /\ n <= MaxMsg
  BY MsgFacts
<1>1. i <= n /\ j <= n /\ SeqAdd(a, n - i) = q /\ SeqAdd(x, n - j) = q
  BY DEF OnLine
<1>2. n - i \in 0 .. SeqMod /\ n - j \in 0 .. SeqMod
  BY <1>0, <1>1, MsgFacts, SeqModFacts
<1>3. /\ q = IF a + (n - i) < SeqMod THEN a + (n - i) ELSE a + (n - i) - SeqMod
      /\ q = IF x + (n - j) < SeqMod THEN x + (n - j) ELSE x + (n - j) - SeqMod
  BY <1>1, <1>2, SeqAddValue
<1>4. PICK b \in SeqNum : b = GetNextFrameSeq(a) /\ b = IF a + 1 < SeqMod THEN a + 1 ELSE a + 1 - SeqMod
  <2>1. 1 \in 0 .. SeqMod
    BY SeqModFacts
  <2> QED BY <2>1, NextIsSeqAdd, SeqAddValue
<1>5. Behind(b, x) < SignMask
  BY <1>4
<1>6. j = i + 1 + Behind(b, x)
  BY <1>0, <1>1, <1>3, <1>4, <1>5, MsgFacts, SeqModFacts DEF Behind
<1> QED BY <1>4, <1>6

-----------------------------------------------------------------------------
(***************************************************************************)
(* Lists.                                                                  *)
(***************************************************************************)
\* The longest prefix of a list whose positions are in P, as the loops of the code find it.
LEMMA MaxPrefix ==
  ASSUME NEW len \in Nat, NEW P \in SUBSET (1 .. len)
  PROVE  LET m == Max({k \in 0 .. len : \A i \in 1 .. k : i \in P})
         IN  m \in 0 .. len /\ (\A i \in 1 .. m : i \in P) /\ (m < len => m + 1 \notin P)
<1> DEFINE S == {k \in 0 .. len : \A i \in 1 .. k : i \in P}
<1>1. PICK n \in 0 .. len : (\A j \in 1 .. n : j \in P) /\ (n < len => (n + 1) \notin P)
  BY LongestPrefix
<1>2. n \in S
  BY <1>1
<1>3. \A y \in S : n >= y
  <2> SUFFICES ASSUME NEW y \in S, ~(n >= y) PROVE FALSE
    OBVIOUS
  <2>1. y \in 0 .. len /\ n + 1 \in 1 .. y /\ n < len
    OBVIOUS
  <2> QED BY <2>1, <1>1
<1>4. S \in SUBSET Nat
  OBVIOUS
<1> HIDE DEF S
<1>5. Max(S) \in S /\ \A y \in S : Max(S) >= y
  BY <1>2, <1>3 DEF Max
<1>6. Max(S) >= n /\ n >= Max(S) /\ Max(S) \in Nat
  BY <1>2, <1>3, <1>4, <1>5
<1>7. Max(S) = n
  BY <1>6
<1> QED BY <1>1, <1>7 DEF S

\* The least element of a set of naturals, as Min picks it.
LEMMA MinNat ==
  ASSUME NEW S \in SUBSET Nat, S # {}
  PROVE  Min(S) \in S /\ \A k \in S : Min(S) <= k
<1>1. \E m \in S : \A k \in S : m <= k
  BY LeastNat
<1> QED BY <1>1 DEF Min

\* InsertStreamRxNode puts x before the first node that is not older.
LEMMA InsertNode ==
  ASSUME NEW rx \in Seq(RxNode), NEW x \in RxNode
  PROVE  /\ InsertStreamRxNode(rx, x) \in Seq(RxNode)
         /\ Len(InsertStreamRxNode(rx, x)) = Len(rx) + 1
         /\ \E k \in 0 .. Len(rx) :
              /\ \A j \in 1 .. k : ~IsFrameSeqSmaller(x.seq, rx[j].seq)
              /\ k < Len(rx) => IsFrameSeqSmaller(x.seq, rx[k + 1].seq)
              /\ \A i \in 1 .. Len(rx) + 1 :
                   InsertStreamRxNode(rx, x)[i] =
                     IF i <= k THEN rx[i] ELSE IF i = k + 1 THEN x ELSE rx[i - 1]
<1>1. PICK len \in Nat : len = Len(rx) /\ DOMAIN rx = 1 .. len
  BY LenProperties
<1> DEFINE S == {i \in DOMAIN rx : IsFrameSeqSmaller(x.seq, rx[i].seq)} \cup {Len(rx) + 1}
           m == Min(S)
           k == m - 1
<1>2. S \in SUBSET Nat /\ S # {}
  BY <1>1
<1>3. m \in S /\ \A i \in S : m <= i
  BY <1>2, MinNat
<1> HIDE DEF m
<1>4. k \in 0 .. len /\ m \in Nat /\ m = k + 1
  BY <1>1, <1>3
<1>5. \A j \in 1 .. k : ~IsFrameSeqSmaller(x.seq, rx[j].seq)
  BY <1>1, <1>3, <1>4
<1>6. k < len => IsFrameSeqSmaller(x.seq, rx[k + 1].seq)
  BY <1>1, <1>3, <1>4
<1>7. InsertStreamRxNode(rx, x) = Seqs!InsertAt(rx, m, x)
  BY DEF InsertStreamRxNode, m
<1>8. Seqs!InsertAt(rx, m, x) = InsertAfter(rx, k, x)
  BY <1>4 DEF Seqs!InsertAt, InsertAfter
<1> HIDE DEF k
<1>9. k \in 0 .. Len(rx)
  BY <1>1, <1>4
<1>10. /\ InsertAfter(rx, k, x) \in Seq(RxNode) /\ Len(InsertAfter(rx, k, x)) = Len(rx) + 1
       /\ \A i \in 1 .. Len(rx) + 1 :
            InsertAfter(rx, k, x)[i] =
              IF i <= k THEN rx[i] ELSE IF i = k + 1 THEN x ELSE rx[i - 1]
  BY <1>9, Inserted
<1> QED BY <1>1, <1>5, <1>6, <1>7, <1>8, <1>9, <1>10

\* The messages of a prefix of a list.
LEMMA MsgsType ==
  ASSUME NEW rx \in Seq(RxNode), NEW k \in 0 .. Len(rx)
  PROVE  /\ Msgs(rx, k) \in Seq(Msg) /\ Len(Msgs(rx, k)) = k
         /\ \A i \in 1 .. k : Msgs(rx, k)[i] = rx[i].msg
<1>1. k \in Nat /\ \A i \in 1 .. k : rx[i] \in RxNode
  BY ElementOfSeq, LenProperties
<1>2. Msgs(rx, k) \in [1 .. k -> Msg]
  BY <1>1 DEF Msgs, RxNode
<1> QED BY <1>1, <1>2, FunctionIsSeq DEF Msgs

\* Two sequences of messages joined.
LEMMA Joined ==
  ASSUME NEW g \in Seq(Msg), NEW m \in Seq(Msg)
  PROVE  \E h \in Seq(Msg) :
           /\ h = g \o m /\ Len(h) = Len(g) + Len(m)
           /\ \A i \in 1 .. Len(g) + Len(m) : h[i] = IF i <= Len(g) THEN g[i] ELSE m[i - Len(g)]
<1> DEFINE j == g \o m
<1>1. /\ j \in Seq(Msg) /\ Len(j) = Len(g) + Len(m)
      /\ \A i \in 1 .. Len(g) + Len(m) : j[i] = IF i <= Len(g) THEN g[i] ELSE m[i - Len(g)]
  BY ConcatProperties
<1>2. j = g \o m
  OBVIOUS
<1> HIDE DEF j
<1> QED BY <1>1, <1>2

-----------------------------------------------------------------------------
(***************************************************************************)
(* Handing over the first nodes of the list.                               *)
(***************************************************************************)
\* The list of a typed channel.
LEMMA Nodes ==
  ASSUME NEW c \in Channel
  PROVE  /\ c.rxList \in Seq(RxNode) /\ Len(c.rxList) \in Nat
         /\ DOMAIN c.rxList = 1 .. Len(c.rxList)
         /\ \A i \in 1 .. Len(c.rxList) :
              /\ c.rxList[i] \in RxNode /\ c.rxList[i].seq \in SeqNum /\ c.rxList[i].msg \in Msg
<1>1. c.rxList \in Seq(RxNode)
  BY DEF Channel
<1>2. \A i \in 1 .. Len(c.rxList) : c.rxList[i] \in RxNode
  BY <1>1, ElementOfSeq
<1> QED BY <1>1, <1>2, LenProperties DEF RxNode

\* c after its first k nodes were handed over, when e is expected next.
After(c, k, e) ==
    [c EXCEPT !.rxList = SubSeq(c.rxList, k + 1, Len(c.rxList)), !.expectedSeq = e]

\* Its fields.
LEMMA AfterFields ==
  ASSUME NEW c \in Channel, NEW k \in 0 .. Len(c.rxList), NEW e \in SeqNum \cup {SEQ_INIT}
  PROVE  /\ After(c, k, e) \in Channel /\ After(c, k, e).mode = c.mode
         /\ After(c, k, e).expectedSeq = e
         /\ Len(After(c, k, e).rxList) = Len(c.rxList) - k
         /\ \A i \in 1 .. Len(c.rxList) - k : After(c, k, e).rxList[i] = c.rxList[k + i]
<1>1. PICK t : t = SubSeq(c.rxList, k + 1, Len(c.rxList))
  OBVIOUS
<1>2. /\ t \in Seq(RxNode) /\ Len(t) = Len(c.rxList) - k
      /\ \A i \in 1 .. Len(c.rxList) - k : t[i] = c.rxList[k + i]
  BY <1>1, Nodes, Dropped
<1>3. After(c, k, e) = [c EXCEPT !.rxList = t, !.expectedSeq = e]
  BY <1>1 DEF After
<1>4. /\ After(c, k, e) \in Channel /\ After(c, k, e).mode = c.mode
      /\ After(c, k, e).expectedSeq = e /\ After(c, k, e).rxList = t
  BY <1>2, <1>3 DEF Channel
<1> QED BY <1>2, <1>4

\* What is held and what was handed over stay the same messages.
LEMMA HandOverKeeps ==
  ASSUME NEW c \in Channel, NEW g \in Seq(Msg), NEW T, Kept(c, g, T),
         NEW k \in 0 .. Len(c.rxList), NEW e \in SeqNum \cup {SEQ_INIT}
  PROVE  Kept(After(c, k, e), g \o Msgs(c.rxList, k), T)
<1> DEFINE rx == c.rxList
           d == After(c, k, e)
<1>1. PICK len \in Nat : len = Len(rx) /\ k \in Nat /\ k <= len
  BY Nodes
<1>2. PICK m \in Seq(Msg) : m = Msgs(rx, k) /\ Len(m) = k /\ \A i \in 1 .. k : m[i] = rx[i].msg
  BY Nodes, MsgsType
<1>3. PICK h \in Seq(Msg) :
        /\ h = g \o m /\ Len(h) = Len(g) + Len(m)
        /\ \A i \in 1 .. Len(g) + Len(m) : h[i] = IF i <= Len(g) THEN g[i] ELSE m[i - Len(g)]
  BY Joined
<1>4. PICK lg \in Nat : lg = Len(g)
  BY LenProperties
<1>5. /\ Len(h) = lg + k /\ \A i \in 1 .. k : m[i] = rx[i].msg
      /\ \A i \in 1 .. lg + k : h[i] = IF i <= lg THEN g[i] ELSE m[i - lg]
  <2>1. Len(m) = k
    BY <1>2
  <2> QED BY <1>2, <1>3, <1>4, <2>1
<1>6. /\ Len(d.rxList) = len - k
      /\ \A i \in 1 .. len - k : d.rxList[i] = rx[k + i]
  BY <1>1, AfterFields
<1>7. T = {g[i] : i \in 1 .. lg} \cup {rx[i].msg : i \in 1 .. len}
  BY <1>1, <1>4 DEF Kept, Elements
<1> HIDE DEF rx, d
<1>8. \A i \in 1 .. lg : i \in 1 .. lg + k /\ h[i] = g[i]
  BY <1>1, <1>5
<1>9. \A i \in 1 .. k : lg + i \in 1 .. lg + k /\ h[lg + i] = rx[i].msg
  <2> SUFFICES ASSUME NEW i \in 1 .. k PROVE lg + i \in 1 .. lg + k /\ h[lg + i] = rx[i].msg
    OBVIOUS
  <2>1. lg + i \in 1 .. lg + k /\ ~(lg + i <= lg) /\ (lg + i) - lg = i
    BY <1>1
  <2>2. h[lg + i] = m[(lg + i) - lg]
    BY <2>1, <1>5
  <2> QED BY <2>1, <2>2, <1>5
<1>10. \A i \in 1 .. lg + k : i \in 1 .. lg \/ (i - lg \in 1 .. k /\ i = lg + (i - lg))
  BY <1>1
<1>11. {h[i] : i \in 1 .. lg + k} = {g[i] : i \in 1 .. lg} \cup {rx[i].msg : i \in 1 .. k}
  <2>1. ASSUME NEW i \in 1 .. lg + k
        PROVE  h[i] \in {g[j] : j \in 1 .. lg} \cup {rx[j].msg : j \in 1 .. k}
    BY <1>8, <1>9, <1>10
  <2>2. \A i \in 1 .. lg : g[i] \in {h[j] : j \in 1 .. lg + k}
    BY <1>8
  <2>3. \A i \in 1 .. k : rx[i].msg \in {h[j] : j \in 1 .. lg + k}
    BY <1>9
  <2> QED BY <2>1, <2>2, <2>3
<1>12. {d.rxList[i].msg : i \in 1 .. len - k} = {rx[i].msg : i \in k + 1 .. len}
  <2>1. \A i \in 1 .. len - k : k + i \in k + 1 .. len
    BY <1>1
  <2>2. \A i \in k + 1 .. len : i - k \in 1 .. len - k /\ i = k + (i - k)
    BY <1>1
  <2>3. \A i \in 1 .. len - k : d.rxList[i].msg \in {rx[j].msg : j \in k + 1 .. len}
    BY <2>1, <1>6
  <2>4. \A i \in k + 1 .. len : rx[i].msg = d.rxList[i - k].msg
    BY <2>2, <1>6
  <2>5. \A i \in k + 1 .. len : rx[i].msg \in {d.rxList[j].msg : j \in 1 .. len - k}
    BY <2>2, <2>4
  <2> QED BY <2>3, <2>5
<1>13. 1 .. len = (1 .. k) \cup (k + 1 .. len)
  BY <1>1
<1>14. {rx[i].msg : i \in 1 .. len} = {rx[i].msg : i \in 1 .. k} \cup {rx[i].msg : i \in k + 1 .. len}
  BY <1>13
<1>15. T = {h[i] : i \in 1 .. lg + k} \cup {d.rxList[i].msg : i \in 1 .. len - k}
  BY <1>7, <1>11, <1>12, <1>14
<1>16. Kept(d, h, T)
  BY <1>5, <1>6, <1>15 DEF Kept, Elements
<1> QED BY <1>2, <1>3, <1>16 DEF rx, d

\* The list stays sorted, seen from the number after its k-th node.
LEMMA HandOverSorted ==
  ASSUME NEW c \in Channel, Sorted(c), NEW k \in 1 .. Len(c.rxList)
  PROVE  Sorted(After(c, k, GetNextFrameSeq(c.rxList[k].seq)))
<1> DEFINE rx == c.rxList
           b == c.expectedSeq
           e == GetNextFrameSeq(rx[k].seq)
           d == After(c, k, e)
<1>1. PICK len \in Nat : len = Len(rx) /\ k \in Nat /\ 1 <= k /\ k <= len
  BY Nodes
<1>2. /\ \A i \in 1 .. len : rx[i].seq \in SeqNum /\ Behind(b, rx[i].seq) < SignMask
      /\ \A i, j \in 1 .. len : i < j => Behind(b, rx[i].seq) < Behind(b, rx[j].seq)
      /\ b \in SeqNum /\ k \in 1 .. len
  BY <1>1, Nodes DEF Sorted
<1>3. e \in SeqNum
  BY <1>2, NextIsSeqAdd
<1>4. /\ Len(d.rxList) = len - k /\ d.expectedSeq = e
      /\ \A i \in 1 .. len - k : d.rxList[i] = rx[k + i]
  <2>1. k \in 0 .. Len(c.rxList)
    BY <1>1
  <2> QED BY <1>1, <1>3, <2>1, AfterFields
<1> HIDE DEF d, rx
<1>5. ASSUME NEW i \in 1 .. len - k
      PROVE  /\ k + i \in 1 .. len
             /\ Behind(e, d.rxList[i].seq) = Behind(b, rx[k + i].seq) - Behind(b, rx[k].seq) - 1
  <2>1. k + i \in 1 .. len /\ k < k + i
    BY <1>1
  <2>2. Behind(b, rx[k].seq) < Behind(b, rx[k + i].seq)
    BY <2>1, <1>2
  <2> QED BY <2>1, <2>2, <1>2, <1>4, BehindNext
<1> HIDE DEF e
<1>6. \A i \in 1 .. len : Behind(b, rx[i].seq) \in 0 .. SeqMod - 1
  BY <1>2, BehindType
<1>7. ASSUME NEW i \in 1 .. len - k
      PROVE  Behind(e, d.rxList[i].seq) < SignMask
  <2>1. Behind(b, rx[k + i].seq) < SignMask
    BY <1>2, <1>5
  <2>2. /\ Behind(b, rx[k].seq) \in 0 .. SeqMod - 1 /\ Behind(b, rx[k + i].seq) \in 0 .. SeqMod - 1
        /\ Behind(e, d.rxList[i].seq) = Behind(b, rx[k + i].seq) - Behind(b, rx[k].seq) - 1
    BY <1>2, <1>5, <1>6
  <2> QED BY <2>1, <2>2, SeqModFacts
<1>8. ASSUME NEW i \in 1 .. len - k, NEW j \in 1 .. len - k, i < j
      PROVE  Behind(e, d.rxList[i].seq) < Behind(e, d.rxList[j].seq)
  <2>1. k + i < k + j
    BY <1>1, <1>8
  <2>2. Behind(b, rx[k + i].seq) < Behind(b, rx[k + j].seq)
    BY <2>1, <1>2, <1>5
  <2>3. /\ Behind(b, rx[k + i].seq) \in Int /\ Behind(b, rx[k + j].seq) \in Int
        /\ Behind(b, rx[k].seq) \in Int
    BY <1>2, <1>5, <1>6, SeqModFacts
  <2>4. /\ Behind(e, d.rxList[i].seq) = Behind(b, rx[k + i].seq) - Behind(b, rx[k].seq) - 1
        /\ Behind(e, d.rxList[j].seq) = Behind(b, rx[k + j].seq) - Behind(b, rx[k].seq) - 1
    BY <1>5
  <2> QED BY <2>2, <2>3, <2>4
<1>9. Sorted(d)
  BY <1>3, <1>4, <1>7, <1>8 DEF Sorted
<1> QED BY <1>9 DEF d, e, rx

\* The order of the messages: the k-th node is the last one handed over.
LEMMA HandOverInLine ==
  ASSUME NEW c \in Channel, NEW g \in Seq(Msg), NEW n \in 0 .. MaxMsg, NEW q,
         InLine(c, g, n, q), NEW k \in 1 .. Len(c.rxList)
  PROVE  InLine(After(c, k, GetNextFrameSeq(c.rxList[k].seq)), g \o Msgs(c.rxList, k), n, q)
<1> DEFINE rx == c.rxList
           e == GetNextFrameSeq(rx[k].seq)
           d == After(c, k, e)
           x == [seq |-> rx[k].seq, msg |-> rx[k].msg]
<1>1. PICK len \in Nat : len = Len(rx) /\ k \in Nat /\ 1 <= k /\ k <= len
  BY Nodes
<1>2. \A i \in 1 .. len : rx[i].seq \in SeqNum /\ rx[i].msg \in Msg
  BY <1>1, Nodes
<1>3. PICK m \in Seq(Msg) : m = Msgs(rx, k) /\ Len(m) = k /\ \A i \in 1 .. k : m[i] = rx[i].msg
  <2>1. k \in 0 .. Len(rx)
    BY <1>1
  <2> QED BY <2>1, Nodes, MsgsType
<1>4. PICK h \in Seq(Msg) :
        /\ h = g \o m /\ Len(h) = Len(g) + Len(m)
        /\ \A i \in 1 .. Len(g) + Len(m) : h[i] = IF i <= Len(g) THEN g[i] ELSE m[i - Len(g)]
  BY Joined
<1>5. PICK lg \in Nat : lg = Len(g)
  BY LenProperties
<1>6. /\ Len(h) = lg + k /\ \A i \in 1 .. k : m[i] = rx[i].msg
      /\ \A i \in 1 .. lg + k : h[i] = IF i <= lg THEN g[i] ELSE m[i - lg]
  <2>1. Len(m) = k
    BY <1>3
  <2> QED BY <1>3, <1>4, <1>5, <2>1
<1>7. e \in SeqNum
  BY <1>1, <1>2, NextIsSeqAdd
<1>8. /\ Len(d.rxList) = len - k /\ d.expectedSeq = e
      /\ \A i \in 1 .. len - k : d.rxList[i] = rx[k + i]
  <2>1. k \in 0 .. Len(c.rxList)
    BY <1>1
  <2> QED BY <1>1, <1>7, <2>1, AfterFields
<1>9. PICK l \in Frame :
        g # <<>> /\ g[Len(g)] = l.msg /\ \A i \in 1 .. len : l.msg < rx[i].msg
  BY <1>1 DEF InLine
<1>10. /\ \A i \in 1 .. len : OnLine(rx[i], n, q)
       /\ \A i, j \in 1 .. len : i < j => rx[i].msg < rx[j].msg
       /\ \A i, j \in 1 .. lg : i < j => g[i] < g[j]
  BY <1>1, <1>5 DEF InLine
<1>11. lg >= 1 /\ g[lg] = l.msg /\ \A i \in 1 .. lg : g[i] \in Msg
  <2>1. Len(g) # 0
    BY <1>9, EmptySeq
  <2>2. \A i \in 1 .. lg : g[i] \in Msg
    BY <1>5, ElementOfSeq
  <2> QED BY <2>1, <2>2, <1>5, <1>9
<1> HIDE DEF rx, d, e
<1>12. \A i \in 1 .. lg : h[i] = g[i] /\ g[i] <= l.msg /\ i \in 1 .. lg + k
  <2> SUFFICES ASSUME NEW i \in 1 .. lg PROVE h[i] = g[i] /\ g[i] <= l.msg /\ i \in 1 .. lg + k
    OBVIOUS
  <2>1. i \in 1 .. lg + k /\ i <= lg /\ lg \in 1 .. lg
    BY <1>1
  <2>2. i < lg => g[i] < g[lg]
    BY <2>1, <1>10
  <2>3. g[i] \in Int /\ g[lg] \in Int
    BY <2>1, <1>11, MsgFacts
  <2>4. g[i] <= g[lg]
    BY <2>1, <2>2, <2>3
  <2> QED BY <2>1, <2>4, <1>6, <1>11
<1>13. \A i \in 1 .. lg + k : ~(i <= lg) => i - lg \in 1 .. k /\ h[i] = rx[i - lg].msg
  <2> SUFFICES ASSUME NEW i \in 1 .. lg + k, ~(i <= lg)
               PROVE  i - lg \in 1 .. k /\ h[i] = rx[i - lg].msg
    OBVIOUS
  <2>1. i - lg \in 1 .. k
    BY <1>1
  <2> QED BY <2>1, <1>6
<1>14. 1 .. k \subseteq 1 .. len /\ k \in 1 .. len
  BY <1>1
<1>15. \A i, j \in 1 .. lg + k : i < j => h[i] < h[j]
  <2> SUFFICES ASSUME NEW i \in 1 .. lg + k, NEW j \in 1 .. lg + k, i < j PROVE h[i] < h[j]
    OBVIOUS
  <2>1. CASE j <= lg
    <3>1. i \in 1 .. lg /\ j \in 1 .. lg
      BY <2>1, <1>1
    <3> QED BY <3>1, <1>10, <1>12
  <2>2. CASE ~(j <= lg) /\ i <= lg
    <3>1. i \in 1 .. lg
      BY <2>2, <1>1
    <3>2. h[i] <= l.msg /\ l.msg < h[j] /\ h[i] \in Int /\ h[j] \in Int /\ l.msg \in Int
      <4>1. h[i] = g[i] /\ h[i] <= l.msg /\ g[i] \in Msg
        BY <3>1, <1>11, <1>12
      <4>2. h[j] = rx[j - lg].msg /\ j - lg \in 1 .. len
        BY <2>2, <1>13, <1>14
      <4>3. l.msg < h[j] /\ h[j] \in Msg /\ l.msg \in Msg
        BY <4>2, <1>2, <1>9 DEF Frame
      <4> QED BY <4>1, <4>3, MsgFacts
    <3> QED BY <3>2
  <2>3. CASE ~(i <= lg) /\ ~(j <= lg)
    <3>1. i - lg \in 1 .. len /\ j - lg \in 1 .. len /\ i - lg < j - lg
      BY <2>3, <1>1
    <3> QED BY <3>1, <2>3, <1>10, <1>13
  <2> QED BY <2>1, <2>2, <2>3
<1>16. h # <<>> /\ h[Len(h)] = rx[k].msg
  <2>1. lg + k \in 1 .. lg + k /\ ~(lg + k <= lg) /\ (lg + k) - lg = k /\ lg + k # 0
    BY <1>1
  <2>2. h[lg + k] = rx[k].msg
    BY <2>1, <1>13
  <2> QED BY <2>1, <2>2, <1>6, EmptySeq
<1>17. x \in Frame /\ x.msg = rx[k].msg /\ x.seq = rx[k].seq /\ OnLine(x, n, q)
  BY <1>2, <1>10, <1>14 DEF Frame, OnLine
<1>18. ASSUME NEW i \in 1 .. len - k
       PROVE  k + i \in 1 .. len /\ k < k + i /\ d.rxList[i] = rx[k + i]
  <2>1. k + i \in 1 .. len /\ k < k + i
    BY <1>1
  <2> QED BY <2>1, <1>8
<1>19. \A i \in 1 .. len - k : OnLine(d.rxList[i], n, q) /\ x.msg < d.rxList[i].msg
  BY <1>10, <1>14, <1>17, <1>18
<1>20. \A i, j \in 1 .. len - k : i < j => d.rxList[i].msg < d.rxList[j].msg
  <2> SUFFICES ASSUME NEW i \in 1 .. len - k, NEW j \in 1 .. len - k, i < j
               PROVE  d.rxList[i].msg < d.rxList[j].msg
    OBVIOUS
  <2>1. k + i < k + j
    BY <1>1
  <2> QED BY <2>1, <1>10, <1>18
<1>21. d.expectedSeq = GetNextFrameSeq(x.seq)
  BY <1>8, <1>17 DEF e
<1> HIDE DEF x
<1>22. InLine(d, h, n, q)
  <2>1. /\ x \in Frame /\ OnLine(x, n, q) /\ d.expectedSeq = GetNextFrameSeq(x.seq)
        /\ h # <<>> /\ h[Len(h)] = x.msg
        /\ \A i \in 1 .. Len(d.rxList) : x.msg < d.rxList[i].msg
    BY <1>8, <1>16, <1>17, <1>19, <1>21
  <2>2. /\ \A i \in 1 .. Len(d.rxList) : OnLine(d.rxList[i], n, q)
        /\ \A i, j \in 1 .. Len(d.rxList) : i < j => d.rxList[i].msg < d.rxList[j].msg
        /\ \A i, j \in 1 .. Len(h) : i < j => h[i] < h[j]
    BY <1>6, <1>8, <1>15, <1>19, <1>20
  <2> QED BY <2>1, <2>2, Zenon DEF InLine
<1> QED BY <1>3, <1>4, <1>22 DEF d, e, rx

\* Handing over the first k nodes keeps what Flows says.
LEMMA HandOver ==
  ASSUME NEW c, NEW g, NEW T, NEW n \in 0 .. MaxMsg, NEW q, Flows(c, g, T, n, q),
         NEW k \in 1 .. Len(c.rxList)
  PROVE  Flows(After(c, k, GetNextFrameSeq(c.rxList[k].seq)), g \o Msgs(c.rxList, k), T, n, q)
<1> DEFINE e == GetNextFrameSeq(c.rxList[k].seq)
           d == After(c, k, e)
<1>1. c \in Channel /\ g \in Seq(Msg) /\ k \in 0 .. Len(c.rxList)
  <2>1. c \in Channel
    BY DEF Flows
  <2> QED BY <2>1, Nodes DEF Flows
<1>2. e \in SeqNum
  BY <1>1, Nodes, NextIsSeqAdd
<1>3. d \in Channel /\ d.mode = "stream" /\ Len(d.rxList) = Len(c.rxList) - k
  BY <1>1, <1>2, AfterFields DEF Flows
<1>4. Len(d.rxList) <= CacheMax + 1
  <2>1. Len(c.rxList) \in Nat /\ Len(c.rxList) <= CacheMax + 1
    BY <1>1, Nodes DEF Flows
  <2> HIDE DEF d
  <2> QED BY <2>1, <1>3, MsgFacts
<1>5. Sorted(d)
  BY <1>1, HandOverSorted DEF Flows
<1>6. Kept(d, g \o Msgs(c.rxList, k), T)
  BY <1>1, <1>2, HandOverKeeps DEF Flows
<1>7. Depth <= SignMask => InLine(d, g \o Msgs(c.rxList, k), n, q)
  BY <1>1, HandOverInLine DEF Flows
<1>8. g \o Msgs(c.rxList, k) \in Seq(Msg)
  BY <1>1, Nodes, MsgsType, ConcatProperties
<1> QED BY <1>3, <1>4, <1>5, <1>6, <1>7, <1>8 DEF Flows

-----------------------------------------------------------------------------
(***************************************************************************)
(* The handlers of stream mode.                                            *)
(***************************************************************************)
\* What a handler works on.
State == [c : Channel, ts : {x \in SUBSET Timer : IsFiniteSet(x)}, up : Seq(Msg)]

\* d differs from c in its timer and what the timer looks at only.
SameFlow(c, d) ==
    /\ d \in Channel
    /\ d.mode = c.mode /\ d.isReady = c.isReady /\ d.rxList = c.rxList /\ d.expectedSeq = c.expectedSeq

\* Such a channel flows as before.
LEMMA SameFlows ==
  ASSUME NEW c, NEW d, SameFlow(c, d), NEW g, NEW T, NEW n, NEW q
  PROVE  /\ Flows(c, g, T, n, q) => Flows(d, g, T, n, q)
         /\ Silent(c, g, T) => Silent(d, g, T)
         /\ Gap(c) => Gap(d)
<1>1. /\ Sorted(c) <=> Sorted(d)
      /\ Kept(c, g, T) <=> Kept(d, g, T)
      /\ InLine(c, g, n, q) <=> InLine(d, g, n, q)
      /\ Gap(c) <=> Gap(d)
  BY DEF SameFlow, Sorted, Kept, InLine, Gap
<1>2. Flows(c, g, T, n, q) => Flows(d, g, T, n, q)
  BY <1>1 DEF Flows, SameFlow
<1>3. Silent(c, g, T) => Silent(d, g, T)
  BY DEF Silent, SameFlow
<1> QED BY <1>1, <1>2, <1>3

\* There is a lowest free timer number, among the first Cardinality(ts) + 1.
LEMMA FreeTimer ==
  ASSUME NEW ts \in SUBSET Timer, IsFiniteSet(ts)
  PROVE  \E i \in 1 .. Cardinality(ts) + 1 :
           /\ \A t \in ts : t.id # i
           /\ \A j \in 1 .. i - 1 : \E t \in ts : t.id = j
<1> DEFINE card == Cardinality(ts)
           F == {i \in 1 .. card + 1 : \A t \in ts : t.id # i}
           f == [i \in 1 .. card + 1 |-> CHOOSE t \in ts : t.id = i]
<1>1. card \in Nat
  BY FS_CardinalityType
<1>2. F # {}
  <2> SUFFICES ASSUME F = {} PROVE FALSE
    OBVIOUS
  <2>1. \A i \in 1 .. card + 1 : \E t \in ts : t.id = i
    OBVIOUS
  <2>2. f \in [1 .. card + 1 -> ts] /\ \A i \in 1 .. card + 1 : f[i].id = i
    BY <2>1
  <2>3. PICK b \in Int : b = card + 1 /\ 1 <= b
    BY <1>1
  <2>4. IsFiniteSet(1 .. b) /\ Cardinality(1 .. b) = IF 1 > b THEN 0 ELSE b - 1 + 1
    <3>1. 1 \in Int
      OBVIOUS
    <3> QED BY <3>1, FS_Interval, Zenon
  <2>5. PICK D : D = 1 .. card + 1 /\ IsFiniteSet(D) /\ Cardinality(D) = card + 1
    <3>1. Cardinality(1 .. b) = b
      BY <2>3, <2>4
    <3> QED BY <2>3, <2>4, <3>1
  <2>6. Cardinality(ts) < Cardinality(D)
    BY <1>1, <2>5
  <2>7. f \in [D -> ts] /\ \A i \in D : f[i].id = i
    BY <2>2, <2>5
  <2> HIDE DEF f
  <2>8. \E i, j \in D : i # j /\ f[i] = f[j]
    <3>1. f \in [D -> ts] /\ IsFiniteSet(D) /\ Cardinality(ts) < Cardinality(D)
      BY <2>5, <2>6, <2>7
    <3> HIDE DEF card
    <3> QED BY <3>1, FS_PigeonHole
  <2> QED BY <2>7, <2>8
<1>3. F \in SUBSET Nat
  BY <1>1
<1>4. PICK i \in F : \A k \in F : i <= k
  BY <1>2, <1>3, LeastNat
<1>5. \A j \in 1 .. i - 1 : j \in 1 .. card + 1 /\ j \notin F
  BY <1>1, <1>4
<1> QED BY <1>4, <1>5

\* CP_TimerAdd arms a timer that is not armed yet and notes its number.
LEMMA TimerAdd ==
  ASSUME NEW s \in State, clock \in 0 .. MaxClock, NEW expires \in 0 .. ReorderTimeout
  PROVE  /\ CP_TimerAdd(s, expires) \in State
         /\ CP_TimerAdd(s, expires).up = s.up
         /\ SameFlow(s.c, CP_TimerAdd(s, expires).c)
<1> DEFINE P(i) == /\ \A t \in s.ts : t.id # i
                   /\ \A j \in 1 .. i - 1 : \E t \in s.ts : t.id = j
           id == CHOOSE i \in 1 .. Cardinality(s.ts) + 1 : P(i)
           at == IF expires = 0 THEN Never ELSE clock + expires
           t == [id |-> id, at |-> at]
<1>1. s.ts \in SUBSET Timer /\ IsFiniteSet(s.ts) /\ s.c \in Channel
  BY DEF State
<1>2. Cardinality(s.ts) \in Nat
  BY <1>1, FS_CardinalityType
<1>3. \E i \in 1 .. Cardinality(s.ts) + 1 : P(i)
  BY <1>1, FreeTimer
<1>4. id \in 1 .. Cardinality(s.ts) + 1
  BY <1>3
<1>5. CP_TimerAdd(s, expires) = [s EXCEPT !.ts = @ \cup {t}, !.c.handle = id]
  BY DEF CP_TimerAdd
<1> HIDE DEF id
<1>6. id \in Nat \ {0}
  BY <1>2, <1>4
<1>7. at \in 0 .. Never
  BY MsgFacts
<1>8. t \in Timer
  BY <1>6, <1>7 DEF Timer, NoTimer
<1> HIDE DEF t
<1>9. s.ts \cup {t} \in SUBSET Timer /\ IsFiniteSet(s.ts \cup {t})
  BY <1>1, <1>8, FS_AddElement
<1>10. [s.c EXCEPT !.handle = id] \in Channel
  BY <1>1, <1>6 DEF Channel
<1>11. /\ CP_TimerAdd(s, expires).c = [s.c EXCEPT !.handle = id]
       /\ CP_TimerAdd(s, expires).up = s.up
       /\ CP_TimerAdd(s, expires).ts = s.ts \cup {t}
       /\ CP_TimerAdd(s, expires) \in State
  BY <1>5, <1>9, <1>10 DEF State
<1>12. SameFlow(s.c, [s.c EXCEPT !.handle = id])
  BY <1>1, <1>10 DEF SameFlow, Channel
<1> QED BY <1>11, <1>12

\* StartReorderTimer arms the timer for the oldest node, or leaves it.
LEMMA StartTimer ==
  ASSUME NEW s \in State, clock \in 0 .. MaxClock
  PROVE  /\ StartReorderTimer(s) \in State
         /\ StartReorderTimer(s).up = s.up
         /\ SameFlow(s.c, StartReorderTimer(s).c)
<1> DEFINE rx == s.c.rxList
           stamps == {rx[i].timeStamp : i \in DOMAIN rx} \cup {clock}
           min == Min(stamps)
           P(k) == /\ rx[k].timeStamp = min
                   /\ \A j \in 1 .. k - 1 : rx[j].timeStamp # min
           i == CHOOSE k \in DOMAIN rx : P(k)
           reorder == IF min < clock THEN rx[i].seq ELSE s.c.reorderTxSeq
           expires == IF clock - min > ReorderTimeout THEN 0 ELSE ReorderTimeout - (clock - min)
           s1 == [s EXCEPT !.c.reorderTxSeq = reorder]
<1>1. s.c \in Channel
  BY DEF State
<1>2. CASE s.c.expectedSeq = s.c.maxExpectedSeq
  <2>1. StartReorderTimer(s) = s
    BY <1>2 DEF StartReorderTimer
  <2> QED BY <1>1, <2>1 DEF SameFlow
<1>3. CASE s.c.expectedSeq # s.c.maxExpectedSeq
  <2>1. StartReorderTimer(s) = CP_TimerAdd(s1, expires)
    BY <1>3 DEF StartReorderTimer
  <2>2. PICK len \in Nat : len = Len(rx) /\ DOMAIN rx = 1 .. len
    BY <1>1, Nodes
  <2>3. \A k \in 1 .. len : rx[k] \in RxNode /\ rx[k].timeStamp \in Nat /\ rx[k].seq \in SeqNum
    BY <1>1, <2>2, Nodes DEF RxNode
  <2>4. stamps \in SUBSET Nat /\ stamps # {} /\ clock \in stamps /\ clock \in Nat
    BY <2>2, <2>3
  <2>5. min \in stamps /\ min <= clock /\ min \in Nat
    BY <2>4, MinNat
  <2> HIDE DEF min
  <2>6. min < clock => rx[i].seq \in SeqNum
    <3> SUFFICES ASSUME min < clock PROVE rx[i].seq \in SeqNum
      OBVIOUS
    <3> DEFINE K == {k \in 1 .. len : rx[k].timeStamp = min}
    <3>1. K # {} /\ K \in SUBSET Nat
      BY <2>2, <2>4, <2>5
    <3>2. PICK k \in K : \A j \in K : k <= j
      BY <3>1, LeastNat
    <3>3. \A j \in 1 .. k - 1 : j \in 1 .. len /\ j \notin K
      BY <3>2
    <3>4. \E x \in DOMAIN rx : P(x)
      BY <2>2, <3>2, <3>3
    <3>5. i \in DOMAIN rx
      BY <3>4
    <3> QED BY <2>2, <2>3, <3>5
  <2> HIDE DEF i, rx
  <2>7. reorder \in SeqNum
    BY <2>6, <1>1 DEF Channel
  <2>8. expires \in 0 .. ReorderTimeout
    BY <2>4, <2>5, MsgFacts
  <2> HIDE DEF reorder, expires
  <2>9. [s.c EXCEPT !.reorderTxSeq = reorder] \in Channel
    BY <1>1, <2>7 DEF Channel
  <2>10. s1 \in State /\ s1.c = [s.c EXCEPT !.reorderTxSeq = reorder] /\ s1.up = s.up
    BY <2>9 DEF State
  <2>11. SameFlow(s.c, s1.c)
    BY <1>1, <2>9, <2>10 DEF SameFlow, Channel
  <2> HIDE DEF s1
  <2>12. /\ CP_TimerAdd(s1, expires) \in State /\ CP_TimerAdd(s1, expires).up = s1.up
         /\ SameFlow(s1.c, CP_TimerAdd(s1, expires).c)
    BY <2>8, <2>10, TimerAdd
  <2>13. SameFlow(s.c, CP_TimerAdd(s1, expires).c)
    BY <2>11, <2>12 DEF SameFlow
  <2> QED BY <2>1, <2>10, <2>12, <2>13
<1> QED BY <1>2, <1>3

\* StopReorderTimer disarms it.
LEMMA StopTimer ==
  ASSUME NEW s \in State
  PROVE  /\ StopReorderTimer(s) \in State
         /\ StopReorderTimer(s).up = s.up
         /\ SameFlow(s.c, StopReorderTimer(s).c)
<1> DEFINE ts == {t \in s.ts : t.id # s.c.handle}
           r == StopReorderTimer(s)
<1>1. s.ts \in SUBSET Timer /\ IsFiniteSet(s.ts) /\ s.c \in Channel
  BY DEF State
<1>2. ts \in SUBSET Timer /\ IsFiniteSet(ts)
  BY <1>1, FS_Subset
<1>3. [s.c EXCEPT !.handle = NoTimer] \in Channel
  BY <1>1 DEF Channel, NoTimer
<1>4. r = [s EXCEPT !.ts = ts, !.c.handle = NoTimer]
  BY DEF StopReorderTimer
<1> HIDE DEF ts, r
<1>5. r \in State /\ r.c = [s.c EXCEPT !.handle = NoTimer] /\ r.up = s.up
  BY <1>2, <1>3, <1>4 DEF State
<1>6. SameFlow(s.c, r.c)
  BY <1>1, <1>3, <1>5 DEF SameFlow, Channel
<1> QED BY <1>5, <1>6 DEF r

\* Handing over no node changes nothing.
LEMMA ReportNone ==
  ASSUME NEW s \in State
  PROVE  Report(s, 0) = s /\ [s EXCEPT !.c.expectedSeq = s.c.expectedSeq] = s
<1> DEFINE m == [i \in 1 .. 0 |-> s.c.rxList[i].msg]
<1>1. s.c \in Channel /\ s.up \in Seq(Msg) /\ s.c.rxList \in Seq(RxNode)
  BY Nodes DEF State
<1>2. SubSeq(s.c.rxList, 0 + 1, Len(s.c.rxList)) = s.c.rxList
  BY <1>1, SubSeqFull
<1>3. m = <<>>
  OBVIOUS
<1>4. s.up \o m = s.up
  BY <1>1, <1>3, ConcatEmptySeq
<1>5. Report(s, 0) = [s EXCEPT !.c.rxList = SubSeq(s.c.rxList, 0 + 1, Len(s.c.rxList)),
                               !.up = s.up \o m]
  BY DEF Report
<1> HIDE DEF m
<1>6. Report(s, 0) = [s EXCEPT !.c.rxList = s.c.rxList, !.up = s.up]
  BY <1>2, <1>4, <1>5
<1>7. [s EXCEPT !.c.rxList = s.c.rxList, !.up = s.up] = s
  BY <1>1 DEF State, Channel
<1>8. [s EXCEPT !.c.expectedSeq = s.c.expectedSeq] = s
  BY <1>1 DEF State, Channel
<1> QED BY <1>6, <1>7, <1>8

\* The first k nodes are handed over, and e is expected next.
Reported(s, k, e) == [Report(s, k) EXCEPT !.c.expectedSeq = e]

\* Its fields.
LEMMA ReportSome ==
  ASSUME NEW s \in State, NEW k \in 0 .. Len(s.c.rxList), NEW e \in SeqNum \cup {SEQ_INIT}
  PROVE  /\ Report(s, k).c.expectedSeq = s.c.expectedSeq
         /\ Reported(s, k, e) \in State
         /\ Reported(s, k, e).c = After(s.c, k, e)
         /\ Reported(s, k, e).up = s.up \o Msgs(s.c.rxList, k)
<1> DEFINE t == SubSeq(s.c.rxList, k + 1, Len(s.c.rxList))
           u == s.up \o Msgs(s.c.rxList, k)
           r == Reported(s, k, e)
<1>1. s.c \in Channel /\ s.up \in Seq(Msg) /\ s.c.rxList \in Seq(RxNode)
  BY Nodes DEF State
<1>2. t \in Seq(RxNode)
  BY <1>1, Dropped
<1>3. u \in Seq(Msg)
  BY <1>1, MsgsType, ConcatProperties
<1>4. Report(s, k) = [s EXCEPT !.c.rxList = t, !.up = u]
  BY DEF Report, Msgs
<1>5. After(s.c, k, e) = [s.c EXCEPT !.rxList = t, !.expectedSeq = e]
  BY DEF After
<1> HIDE DEF t, u
<1>6. /\ Report(s, k).c = [s.c EXCEPT !.rxList = t] /\ Report(s, k).up = u
      /\ Report(s, k).ts = s.ts /\ Report(s, k) \in [c : Channel, ts : {s.ts}, up : Seq(Msg)]
  <2>1. [s.c EXCEPT !.rxList = t] \in Channel
    BY <1>1, <1>2 DEF Channel
  <2> QED BY <1>3, <1>4, <2>1 DEF State
<1>7. Report(s, k).c.expectedSeq = s.c.expectedSeq
  BY <1>1, <1>6 DEF Channel
<1>8. [[s.c EXCEPT !.rxList = t] EXCEPT !.expectedSeq = e] = [s.c EXCEPT !.rxList = t, !.expectedSeq = e]
  OBVIOUS
<1>9. /\ r.c = [[s.c EXCEPT !.rxList = t] EXCEPT !.expectedSeq = e]
      /\ r.up = u /\ r.ts = s.ts
      /\ r = [c |-> r.c, ts |-> r.ts, up |-> r.up]
  BY <1>6 DEF Reported
<1> HIDE DEF r
<1>10. r.c = After(s.c, k, e)
  BY <1>5, <1>8, <1>9
<1>11. After(s.c, k, e) \in Channel
  BY <1>1, AfterFields
<1>12. r \in State
  BY <1>3, <1>9, <1>10, <1>11 DEF State
<1> QED BY <1>7, <1>9, <1>10, <1>12 DEF r, u

\* In a sorted list only the first node can be the expected one.
LEMMA GapAtFirst ==
  ASSUME NEW c \in Channel, Sorted(c),
         1 <= Len(c.rxList) => c.rxList[1].seq # c.expectedSeq
  PROVE  Gap(c)
<1> SUFFICES ASSUME NEW i \in 1 .. Len(c.rxList), c.rxList[i].seq = c.expectedSeq PROVE FALSE
  BY DEF Gap
<1>1. Len(c.rxList) \in Nat /\ 1 \in 1 .. Len(c.rxList) /\ i # 1 /\ 1 < i
  BY Nodes
<1>2. Behind(c.expectedSeq, c.rxList[1].seq) < Behind(c.expectedSeq, c.rxList[i].seq)
  BY <1>1 DEF Sorted
<1>3. /\ c.expectedSeq \in SeqNum /\ c.rxList[1].seq \in SeqNum
  BY <1>1, Nodes DEF Sorted
<1>4. Behind(c.expectedSeq, c.rxList[i].seq) = 0 /\ Behind(c.expectedSeq, c.rxList[1].seq) \in 0 .. SeqMod - 1
  BY <1>3, BehindType
<1> QED BY <1>2, <1>4, SeqModFacts

\* Run finds the nodes that follow the expected number without a gap.
LEMMA RunFacts ==
  ASSUME NEW c \in Channel
  PROVE  /\ Run(c) \in 0 .. Len(c.rxList)
         /\ \A i \in 1 .. Run(c) : c.rxList[i].seq = SeqAdd(c.expectedSeq, i - 1)
         /\ Run(c) < Len(c.rxList) => c.rxList[Run(c) + 1].seq # SeqAdd(c.expectedSeq, Run(c))
<1>1. PICK len \in Nat : len = Len(c.rxList)
  BY Nodes
<1> DEFINE P == {i \in 1 .. len : c.rxList[i].seq = SeqAdd(c.expectedSeq, i - 1)}
           S == {k \in 0 .. len : \A i \in 1 .. k : i \in P}
<1>2. P \in SUBSET (1 .. len)
  OBVIOUS
<1>3. {k \in 0 .. Len(c.rxList) :
         \A i \in 1 .. k : c.rxList[i].seq = SeqAdd(c.expectedSeq, i - 1)} = S
  BY <1>1
<1>4. Run(c) = Max(S)
  BY <1>3 DEF Run
<1>5. Max(S) \in 0 .. len /\ (\A i \in 1 .. Max(S) : i \in P) /\ (Max(S) < len => Max(S) + 1 \notin P)
  <2> HIDE DEF P
  <2> QED BY <1>2, MaxPrefix
<1> HIDE DEF S
<1>6. Max(S) < len => Max(S) + 1 \in 1 .. len /\ (Max(S) + 1) - 1 = Max(S)
  BY <1>5
<1> QED BY <1>1, <1>4, <1>5, <1>6

\* Joining three sequences of messages.
LEMMA JoinedTwice ==
  ASSUME NEW g \in Seq(Msg), NEW u \in Seq(Msg), NEW m \in Seq(Msg)
  PROVE  (g \o u) \o m = g \o (u \o m)
BY ConcatAssociative

\* What was handed over, when s is the state of a handler that g preceded.
HandedOver(g, s) == g \o s.up

\* Handing over the first k nodes, with the history g of earlier handlers.
LEMMA ReportFlows ==
  ASSUME NEW s \in State, NEW g \in Seq(Msg), NEW T, NEW n \in 0 .. MaxMsg, NEW q,
         Flows(s.c, HandedOver(g, s), T, n, q), NEW k \in 1 .. Len(s.c.rxList)
  PROVE  LET e == GetNextFrameSeq(s.c.rxList[k].seq)
         IN  /\ Reported(s, k, e) \in State /\ Reported(s, k, e).c = After(s.c, k, e)
             /\ Flows(Reported(s, k, e).c, HandedOver(g, Reported(s, k, e)), T, n, q)
<1> DEFINE e == GetNextFrameSeq(s.c.rxList[k].seq)
           r == Reported(s, k, e)
           m == Msgs(s.c.rxList, k)
<1>1. s.c \in Channel /\ s.up \in Seq(Msg) /\ k \in 0 .. Len(s.c.rxList)
  BY Nodes DEF State
<1>2. e \in SeqNum /\ m \in Seq(Msg)
  BY <1>1, Nodes, NextIsSeqAdd, MsgsType
<1>3. r \in State /\ r.c = After(s.c, k, e) /\ r.up = s.up \o m
  BY <1>1, <1>2, ReportSome
<1>4. Flows(After(s.c, k, e), (g \o s.up) \o m, T, n, q)
  BY HandOver DEF HandedOver
<1> HIDE DEF r, m, e
<1>5. (g \o s.up) \o m = g \o (s.up \o m)
  BY <1>1, <1>2, JoinedTwice
<1>6. Flows(r.c, HandedOver(g, r), T, n, q)
  BY <1>3, <1>4, <1>5 DEF HandedOver
<1> QED BY <1>3, <1>6 DEF r, e

\* ReportExpectedStreamFrame leaves a gap before the list.
LEMMA ReportExpectedFlows ==
  ASSUME NEW s \in State, NEW g \in Seq(Msg), NEW T, NEW n \in 0 .. MaxMsg, NEW q,
         Flows(s.c, HandedOver(g, s), T, n, q)
  PROVE  /\ ReportExpectedStreamFrame(s) \in State /\ Gap(ReportExpectedStreamFrame(s).c)
         /\ Flows(ReportExpectedStreamFrame(s).c, HandedOver(g, ReportExpectedStreamFrame(s)), T, n, q)
<1> DEFINE r == ReportExpectedStreamFrame(s)
           k == Run(s.c)
           b == s.c.expectedSeq
           rx == s.c.rxList
<1>1. s.c \in Channel /\ Sorted(s.c) /\ b \in SeqNum
  BY DEF State, Flows, Sorted
<1>2. PICK len \in Nat : len = Len(rx) /\ len < SeqMod
  <2>1. PICK len \in Nat : len = Len(rx)
    BY <1>1, Nodes
  <2>2. len <= CacheMax + 1
    BY <2>1 DEF Flows
  <2>3. len < SeqMod
    BY <2>2, MsgFacts, SeqModFacts
  <2> QED BY <2>1, <2>3
<1>3. /\ k \in 0 .. len
      /\ \A i \in 1 .. k : rx[i].seq = SeqAdd(b, i - 1)
      /\ k < len => rx[k + 1].seq # SeqAdd(b, k)
  BY <1>1, <1>2, RunFacts
<1>4. Report(s, k).c.expectedSeq = b
  <2>1. k \in 0 .. Len(s.c.rxList) /\ b \in SeqNum \cup {SEQ_INIT}
    BY <1>1, <1>2, <1>3
  <2> QED BY <2>1, ReportSome
<1>5. r = Reported(s, k, IF k = 0 THEN b ELSE SeqAdd(b, k))
  BY <1>4 DEF ReportExpectedStreamFrame, Reported
<1> HIDE DEF k, r
<1>6. CASE k = 0
  <2>1. r = s
    BY <1>5, <1>6, ReportNone DEF Reported
  <2>2. SeqAdd(b, 0) = b
    BY <1>1, SeqAddZero
  <2>3. 1 <= Len(s.c.rxList) => s.c.rxList[1].seq # s.c.expectedSeq
    BY <1>2, <1>3, <1>6, <2>2
  <2>4. Gap(s.c)
    BY <1>1, <2>3, GapAtFirst
  <2> QED BY <2>1, <2>4 DEF r
<1>7. CASE k # 0
  <2>1. k \in 1 .. len /\ k \in 1 .. k /\ k \in Nat /\ k - 1 \in Nat /\ (k - 1) + 1 = k /\ k <= SeqMod
    <3>1. k \in 0 .. len /\ len < SeqMod
      BY <1>2, <1>3
    <3> QED BY <3>1, <1>7, SeqModFacts
  <2>2. PICK e \in SeqNum : e = SeqAdd(b, k) /\ e = GetNextFrameSeq(rx[k].seq)
    <3>1. rx[k].seq = SeqAdd(b, k - 1)
      BY <1>3, <2>1
    <3>2. SeqAdd(b, k - 1) \in SeqNum
      BY <1>1, <2>1, SeqAddType
    <3>3. GetNextFrameSeq(rx[k].seq) = SeqAdd(SeqAdd(b, k - 1), 1)
      BY <3>1, <3>2, NextIsSeqAdd
    <3>4. 1 \in Nat /\ (k - 1) + 1 <= SeqMod
      BY <2>1
    <3>5. SeqAdd(SeqAdd(b, k - 1), 1) = SeqAdd(b, (k - 1) + 1)
      BY <1>1, <2>1, <3>4, SeqAddAdd
    <3>6. SeqAdd(b, k) \in SeqNum
      BY <1>1, <2>1, SeqAddType
    <3> QED BY <2>1, <3>3, <3>5, <3>6
  <2>3. r = Reported(s, k, e)
    BY <1>5, <1>7, <2>2
  <2>4. r \in State /\ r.c = After(s.c, k, e) /\ Flows(r.c, HandedOver(g, r), T, n, q)
    <3> DEFINE a == GetNextFrameSeq(s.c.rxList[k].seq)
    <3>1. k \in 1 .. Len(s.c.rxList) /\ e = a
      BY <1>2, <2>1, <2>2
    <3>2. /\ Reported(s, k, a) \in State /\ Reported(s, k, a).c = After(s.c, k, a)
          /\ Flows(Reported(s, k, a).c, HandedOver(g, Reported(s, k, a)), T, n, q)
      BY <3>1, ReportFlows
    <3> HIDE DEF a
    <3> QED BY <2>3, <3>1, <3>2
  <2>5. /\ r.c.expectedSeq = e /\ Len(r.c.rxList) = len - k
        /\ \A i \in 1 .. len - k : r.c.rxList[i] = rx[k + i]
    <3>1. k \in 0 .. Len(s.c.rxList)
      BY <1>2, <1>3
    <3>2. r.c = After(s.c, k, e)
      BY <2>4
    <3>3. /\ After(s.c, k, e).expectedSeq = e /\ Len(After(s.c, k, e).rxList) = Len(s.c.rxList) - k
          /\ \A i \in 1 .. Len(s.c.rxList) - k : After(s.c, k, e).rxList[i] = s.c.rxList[k + i]
      BY <1>1, <3>1, AfterFields
    <3> QED BY <1>2, <3>2, <3>3
  <2>6. 1 <= Len(r.c.rxList) => r.c.rxList[1].seq # r.c.expectedSeq
    <3> SUFFICES ASSUME 1 <= Len(r.c.rxList) PROVE r.c.rxList[1].seq # r.c.expectedSeq
      OBVIOUS
    <3>1. 1 \in 1 .. len - k /\ k < len
      BY <1>2, <2>1, <2>5
    <3> QED BY <3>1, <2>2, <2>5, <1>3
  <2>7. r.c \in Channel /\ Sorted(r.c)
    BY <2>4 DEF Flows
  <2>8. Gap(r.c)
    BY <2>6, <2>7, GapAtFirst
  <2> QED BY <2>4, <2>8 DEF r
<1> QED BY <1>6, <1>7

\* The number after the last node, or 1 for an empty list.
LEMMA LastPlusOneType ==
  ASSUME NEW rx \in Seq(RxNode)
  PROVE  LastPlusOne(rx) \in 0 .. SEQ_INIT
<1>1. CASE rx = <<>>
  BY <1>1, SeqModFacts DEF LastPlusOne
<1>2. CASE rx # <<>>
  <2>1. Len(rx) \in 1 .. Len(rx)
    BY <1>2, EmptySeq, LenProperties
  <2>2. rx[Len(rx)] \in RxNode
    BY <2>1, ElementOfSeq
  <2>3. rx[Len(rx)].seq \in SeqNum
    BY <2>2 DEF RxNode
  <2>4. LastPlusOne(rx) = rx[Len(rx)].seq + 1
    BY <1>2 DEF LastPlusOne, Seqs!Last
  <2> QED BY <2>3, <2>4, SeqModFacts
<1> QED BY <1>1, <1>2

\* Setting maxExpectedSeq and the timer is no business of the list.
LEMMA SetMaxExpected ==
  ASSUME NEW s \in State
  PROVE  LET r == [s EXCEPT !.c.maxExpectedSeq = LastPlusOne(s.c.rxList)]
         IN  r \in State /\ r.up = s.up /\ SameFlow(s.c, r.c)
<1> DEFINE v == LastPlusOne(s.c.rxList)
<1>1. s.c \in Channel /\ v \in 0 .. SEQ_INIT
  BY Nodes, LastPlusOneType DEF State
<1> HIDE DEF v
<1>2. [s.c EXCEPT !.maxExpectedSeq = v] \in Channel
  BY <1>1 DEF Channel
<1>3. SameFlow(s.c, [s.c EXCEPT !.maxExpectedSeq = v])
  BY <1>1, <1>2 DEF Channel, SameFlow
<1>4. /\ [s EXCEPT !.c.maxExpectedSeq = v] \in State /\ [s EXCEPT !.c.maxExpectedSeq = v].up = s.up
      /\ [s EXCEPT !.c.maxExpectedSeq = v].c = [s.c EXCEPT !.maxExpectedSeq = v]
  BY <1>2 DEF State
<1> QED BY <1>3, <1>4 DEF v

\* A channel of stream mode between two handlers.
Alive(s, g, T, n, q) ==
    \/ Silent(s.c, HandedOver(g, s), T)
    \/ Flows(s.c, HandedOver(g, s), T, n, q) /\ Gap(s.c)

\* It stays so when only its timer changes.
LEMMA SameAlive ==
  ASSUME NEW s, NEW r, SameFlow(s.c, r.c), r.up = s.up, NEW g, NEW T, NEW n, NEW q
  PROVE  /\ Alive(s, g, T, n, q) => Alive(r, g, T, n, q)
         /\ Flows(s.c, HandedOver(g, s), T, n, q) => Flows(r.c, HandedOver(g, r), T, n, q)
<1>1. HandedOver(g, r) = HandedOver(g, s)
  BY DEF HandedOver
<1> QED BY <1>1, SameFlows DEF Alive

\* The first lines of DTAP_ReorderStreamFrameTask: its timer is gone.
LEMMA DropHandle ==
  ASSUME NEW s \in State
  PROVE  LET r == [s EXCEPT !.c.handle = NoTimer]
         IN  r \in State /\ r.up = s.up /\ SameFlow(s.c, r.c)
<1>1. s.c \in Channel
  BY DEF State
<1>2. [s.c EXCEPT !.handle = NoTimer] \in Channel
  BY <1>1 DEF Channel, NoTimer
<1>3. SameFlow(s.c, [s.c EXCEPT !.handle = NoTimer])
  BY <1>1, <1>2 DEF Channel, SameFlow
<1>4. /\ [s EXCEPT !.c.handle = NoTimer] \in State /\ [s EXCEPT !.c.handle = NoTimer].up = s.up
      /\ [s EXCEPT !.c.handle = NoTimer].c = [s.c EXCEPT !.handle = NoTimer]
  BY <1>2 DEF State
<1> QED BY <1>3, <1>4

\* The prefix of the list that is older than reorderTxSeq.
OlderThanReorder(c) ==
    Max({i \in 0 .. Len(c.rxList) :
           \A j \in 1 .. i : IsFrameSeqSmaller(c.rxList[j].seq, c.reorderTxSeq)})

\* It is a prefix of the list.
LEMMA OlderType ==
  ASSUME NEW c \in Channel
  PROVE  OlderThanReorder(c) \in 0 .. Len(c.rxList)
<1>1. PICK len \in Nat : len = Len(c.rxList)
  BY Nodes
<1> DEFINE P == {i \in 1 .. len : IsFrameSeqSmaller(c.rxList[i].seq, c.reorderTxSeq)}
           S == {k \in 0 .. len : \A i \in 1 .. k : i \in P}
<1>2. {i \in 0 .. Len(c.rxList) :
         \A j \in 1 .. i : IsFrameSeqSmaller(c.rxList[j].seq, c.reorderTxSeq)} = S
  BY <1>1
<1>3. OlderThanReorder(c) = Max(S)
  BY <1>2 DEF OlderThanReorder
<1>4. P \in SUBSET (1 .. len)
  OBVIOUS
<1>5. Max(S) \in 0 .. len
  <2> HIDE DEF P
  <2> QED BY <1>4, MaxPrefix
<1> QED BY <1>1, <1>3, <1>5

\* DTAP_ReorderStreamFrameTask, whichever channel armed its timer: what it gives up are
\* numbers, never a message that came.
LEMMA ReorderTaskAlive ==
  ASSUME NEW s0 \in State, clock \in 0 .. MaxClock, NEW g \in Seq(Msg), NEW T,
         NEW n \in 0 .. MaxMsg, NEW q, Alive(s0, g, T, n, q)
  PROVE  /\ ReorderStreamFrameTask(s0) \in State
         /\ Alive(ReorderStreamFrameTask(s0), g, T, n, q)
<1> DEFINE s == [s0 EXCEPT !.c.handle = NoTimer]
           k == OlderThanReorder(s.c)
           b == s.c.expectedSeq
           a == GetNextFrameSeq(s.c.rxList[k].seq)
           s1 == Reported(s, k, IF k = 0 THEN b ELSE a)
           s2 == ReportExpectedStreamFrame(s1)
           s3 == [s2 EXCEPT !.c.maxExpectedSeq = LastPlusOne(s2.c.rxList)]
<1>1. s \in State /\ Alive(s, g, T, n, q)
  BY DropHandle, SameAlive
<1>2. s.c \in Channel /\ b \in SeqNum \cup {SEQ_INIT}
  BY <1>1 DEF State, Channel
<1>3. k \in 0 .. Len(s.c.rxList)
  BY <1>2, OlderType
<1>4. Report(s, k).c.expectedSeq = b
  BY <1>1, <1>2, <1>3, ReportSome
<1>5. ReorderStreamFrameTask(s0) = StartReorderTimer(s3)
  <2> DEFINE z == [Report(s, k) EXCEPT !.c.expectedSeq = IF k = 0 THEN @ ELSE a]
             y == ReportExpectedStreamFrame(z)
  <2>1. ReorderStreamFrameTask(s0) =
          StartReorderTimer([y EXCEPT !.c.maxExpectedSeq = LastPlusOne(y.c.rxList)])
    BY DEF ReorderStreamFrameTask, OlderThanReorder
  <2>2. z = s1
    <3> HIDE DEF s, k, b, a
    <3> QED BY <1>4 DEF Reported
  <2> HIDE DEF z, s1
  <2> QED BY <2>1, <2>2
<1> HIDE DEF s, k
<1>6. s2 \in State /\ Alive(s2, g, T, n, q)
  <2>1. CASE Silent(s.c, HandedOver(g, s), T)
    <3>1. s.c.rxList = <<>> /\ Len(s.c.rxList) = 0
      BY <2>1, EmptySeq DEF Silent
    <3>2. k = 0
      BY <1>3, <3>1
    <3>3. s1 = s
      BY <1>1, <3>2, ReportNone DEF Reported
    <3>4. Run(s.c) = 0
      <4>1. Run(s.c) \in 0 .. Len(s.c.rxList)
        BY <1>2, RunFacts
      <4> QED BY <3>1, <4>1
    <3>5. ReportExpectedStreamFrame(s) = s
      <4>1. Report(s, 0) = s /\ [s EXCEPT !.c.expectedSeq = s.c.expectedSeq] = s
        BY <1>1, ReportNone
      <4>2. ReportExpectedStreamFrame(s) = [Report(s, 0) EXCEPT !.c.expectedSeq = Report(s, 0).c.expectedSeq]
        BY <3>4 DEF ReportExpectedStreamFrame
      <4> QED BY <4>1, <4>2
    <3> QED BY <1>1, <3>3, <3>5
  <2>2. CASE Flows(s.c, HandedOver(g, s), T, n, q)
    <3>1. s1 \in State /\ Flows(s1.c, HandedOver(g, s1), T, n, q)
      <4>1. CASE k = 0
        <5>1. s1 = s
          BY <1>1, <4>1, ReportNone DEF Reported
        <5> QED BY <1>1, <2>2, <5>1
      <4>2. CASE k # 0
        <5>1. k \in 1 .. Len(s.c.rxList) /\ s1 = Reported(s, k, a)
          BY <1>2, <1>3, <4>2, Nodes
        <5>2. /\ Reported(s, k, a) \in State
              /\ Flows(Reported(s, k, a).c, HandedOver(g, Reported(s, k, a)), T, n, q)
          BY <1>1, <2>2, <5>1, ReportFlows
        <5> QED BY <5>1, <5>2
      <4> QED BY <4>1, <4>2
    <3> HIDE DEF s1
    <3> QED BY <3>1, ReportExpectedFlows DEF Alive
  <2> QED BY <1>1, <2>1, <2>2 DEF Alive
<1> HIDE DEF s2
<1>7. s3 \in State /\ Alive(s3, g, T, n, q)
  BY <1>6, SetMaxExpected, SameAlive
<1> HIDE DEF s3
<1>8. StartReorderTimer(s3) \in State /\ Alive(StartReorderTimer(s3), g, T, n, q)
  BY <1>7, StartTimer, SameAlive
<1> QED BY <1>5, <1>8

-----------------------------------------------------------------------------
(***************************************************************************)
(* The frames of stream mode.                                              *)
(***************************************************************************)
\* The call of recvCb.
LEMMA CallbackHands ==
  ASSUME NEW s \in State, NEW g \in Seq(Msg), NEW m \in Msg
  PROVE  /\ RecvCallback(s, m) \in State /\ RecvCallback(s, m).c = s.c
         /\ HandedOver(g, RecvCallback(s, m)) = Append(HandedOver(g, s), m)
         /\ HandedOver(g, s) \in Seq(Msg)
<1>1. s.up \in Seq(Msg) /\ <<m>> \in Seq(Msg)
  BY DEF State
<1>2. Append(s.up, m) \in Seq(Msg) /\ Append(s.up, m) = s.up \o <<m>>
  BY <1>1, AppendProperties, AppendIsConcat
<1>3. RecvCallback(s, m) \in State /\ RecvCallback(s, m).c = s.c /\ RecvCallback(s, m).up = Append(s.up, m)
  BY <1>2 DEF RecvCallback, State
<1>4. g \o s.up \in Seq(Msg)
  BY <1>1, ConcatProperties
<1>5. Append(g \o s.up, m) = (g \o s.up) \o <<m>>
  BY <1>4, AppendIsConcat
<1>6. (g \o s.up) \o <<m>> = g \o (s.up \o <<m>>)
  BY <1>1, JoinedTwice
<1> QED BY <1>2, <1>3, <1>4, <1>5, <1>6 DEF HandedOver

\* A message appended to what was handed over.
LEMMA Appended ==
  ASSUME NEW g \in Seq(Msg), NEW m \in Msg
  PROVE  \E h \in Seq(Msg) :
           /\ h = Append(g, m) /\ Len(h) = Len(g) + 1 /\ h[Len(g) + 1] = m /\ h # <<>>
           /\ \A i \in 1 .. Len(g) : h[i] = g[i]
           /\ Elements(h) = Elements(g) \cup {m}
<1> DEFINE j == Append(g, m)
<1>1. PICK lg \in Nat : lg = Len(g)
  BY LenProperties
<1>2. /\ j \in Seq(Msg) /\ Len(j) = Len(g) + 1 /\ j # <<>>
      /\ \A i \in 1 .. Len(g) : j[i] = g[i]
      /\ j[Len(g) + 1] = m
  BY AppendProperties
<1> HIDE DEF j
<1>3. 1 .. lg + 1 = (1 .. lg) \cup {lg + 1}
  BY <1>1
<1>4. {j[i] : i \in 1 .. lg + 1} = {g[i] : i \in 1 .. lg} \cup {m}
  <2>1. \A i \in 1 .. lg : j[i] = g[i]
    BY <1>1, <1>2
  <2>2. j[lg + 1] = m
    BY <1>1, <1>2
  <2> QED BY <1>3, <2>1, <2>2
<1>5. Elements(j) = Elements(g) \cup {m}
  BY <1>1, <1>2, <1>4 DEF Elements
<1> QED BY <1>2, <1>5 DEF j

\* T and one message more.
With(T, m) == T \cup {m}

\* Handing over a frame that did not wait in the list.
LEMMA KeptAppend ==
  ASSUME NEW c, NEW d, d.rxList = c.rxList, NEW g \in Seq(Msg), NEW m \in Msg, NEW T,
         Kept(c, g, T)
  PROVE  Kept(d, Append(g, m), With(T, m))
<1>1. PICK h \in Seq(Msg) :
           /\ h = Append(g, m)
           /\ Elements(h) = Elements(g) \cup {m}
  BY Appended
<1>2. Kept(d, h, With(T, m))
  BY <1>1 DEF Kept, Elements, With
<1> QED BY <1>1, <1>2

\* The order of what was handed over, with one message more.
LEMMA OrderAppend ==
  ASSUME NEW g \in Seq(Msg), NEW m \in Msg,
         \A i, j \in 1 .. Len(g) : i < j => g[i] < g[j],
         g # <<>> => g[Len(g)] < m
  PROVE  \A i, j \in 1 .. Len(Append(g, m)) : i < j => Append(g, m)[i] < Append(g, m)[j]
<1>1. PICK h \in Seq(Msg) :
           /\ h = Append(g, m) /\ Len(h) = Len(g) + 1 /\ h[Len(g) + 1] = m
           /\ \A i \in 1 .. Len(g) : h[i] = g[i]
  BY Appended
<1>2. PICK lg \in Nat : lg = Len(g)
  BY LenProperties
<1>3. \A i \in 1 .. lg : g[i] \in Int
  BY <1>2, ElementOfSeq, MsgFacts
<1>4. ASSUME NEW i \in 1 .. lg + 1, NEW j \in 1 .. lg + 1, i < j
      PROVE  h[i] < h[j]
  <2>1. i \in 1 .. lg /\ h[i] = g[i]
    BY <1>1, <1>2, <1>4
  <2>2. CASE j \in 1 .. lg
    BY <2>1, <2>2, <1>1, <1>2, <1>4
  <2>3. CASE j = lg + 1
    <3>1. lg \in 1 .. lg /\ lg # 0 /\ (i = lg \/ i < lg)
      BY <2>1
    <3>2. g[lg] < m
      BY <3>1, <1>2, EmptySeq
    <3>3. i < lg => g[i] < g[lg]
      BY <2>1, <3>1, <1>2
    <3>4. g[i] < m /\ h[j] = m
      BY <2>1, <2>3, <3>1, <3>2, <3>3, <1>1, <1>2, <1>3, MsgFacts
    <3> QED BY <2>1, <3>4
  <2> QED BY <2>2, <2>3
<1> QED BY <1>1, <1>2, <1>4

\* The first frame of a stream decides which number is expected.
LEMMA FirstFrame ==
  ASSUME NEW s \in State, NEW g \in Seq(Msg), NEW T, NEW n \in 0 .. MaxMsg, NEW q,
         Silent(s.c, HandedOver(g, s), T), NEW f \in Frame, OnLine(f, n, q)
  PROVE  /\ FirstStreamFrame(s, f) \in State
         /\ Alive(FirstStreamFrame(s, f), g, With(T, f.msg), n, q)
<1> DEFINE e == GetNextFrameSeq(f.seq)
           d == [s.c EXCEPT !.expectedSeq = e, !.maxExpectedSeq = e]
           s1 == [s EXCEPT !.c.expectedSeq = e, !.c.maxExpectedSeq = e]
           r == FirstStreamFrame(s, f)
           h == HandedOver(g, s)
<1>1. /\ s.c \in Channel /\ f.seq \in SeqNum /\ f.msg \in Msg
      /\ s.c.rxList = <<>> /\ h = <<>> /\ T = {} /\ s.c.mode = "stream"
  BY DEF State, Frame, Silent
<1>2. e \in SeqNum /\ e \in 0 .. SEQ_INIT
  <2>1. e \in SeqNum
    BY <1>1, NextIsSeqAdd
  <2> HIDE DEF e
  <2> QED BY <2>1, SeqModFacts
<1>3. r = RecvCallback(s1, f.msg)
  BY DEF FirstStreamFrame
<1> HIDE DEF e
<1>4. /\ d \in Channel /\ d.mode = "stream" /\ d.expectedSeq = e /\ d.rxList = <<>>
  BY <1>1, <1>2 DEF Channel
<1>5. s1 \in State /\ s1.c = d /\ s1.up = s.up
  BY <1>4 DEF State
<1> HIDE DEF d, s1, r
<1>6. r \in State /\ r.c = d /\ HandedOver(g, r) = Append(HandedOver(g, s1), f.msg)
  BY <1>1, <1>3, <1>5, CallbackHands
<1>7. HandedOver(g, s1) = <<>>
  BY <1>1, <1>5 DEF HandedOver
<1>8. Append(<<>>, f.msg) = <<f.msg>>
  OBVIOUS
<1>9. HandedOver(g, r) = <<f.msg>>
  BY <1>6, <1>7, <1>8
<1>10. Len(d.rxList) = 0 /\ \A i \in 1 .. Len(d.rxList) : FALSE
  BY <1>4, EmptySeq
<1> DEFINE y == <<f.msg>>
<1>11. y \in Seq(Msg) /\ Len(y) = 1 /\ y[1] = f.msg /\ y # <<>>
  <2>1. f.msg \in Msg
    BY <1>1
  <2>2. y \in Seq(Msg) /\ Len(y) = 1 /\ y[1] = f.msg
    BY <2>1
  <2> QED BY <2>2, EmptySeq
<1> HIDE DEF y
<1>12. Sorted(d) /\ Gap(d)
  BY <1>2, <1>4, <1>10 DEF Sorted, Gap
<1>13. Kept(d, y, With(T, f.msg))
  BY <1>1, <1>10, <1>11 DEF Kept, Elements, With
<1>14. InLine(d, y, n, q)
  <2>1. /\ OnLine(f, n, q) /\ d.expectedSeq = GetNextFrameSeq(f.seq)
        /\ y # <<>> /\ y[Len(y)] = f.msg
        /\ \A i \in 1 .. Len(d.rxList) : f.msg < d.rxList[i].msg
    BY <1>4, <1>10, <1>11 DEF e
  <2>2. /\ \A i \in 1 .. Len(d.rxList) : OnLine(d.rxList[i], n, q)
        /\ \A i, j \in 1 .. Len(d.rxList) : i < j => d.rxList[i].msg < d.rxList[j].msg
        /\ \A i, j \in 1 .. Len(y) : i < j => y[i] < y[j]
    BY <1>10, <1>11
  <2> QED BY <2>1, <2>2, Zenon DEF InLine
<1>15. Flows(d, y, With(T, f.msg), n, q)
  <2>1. Len(d.rxList) <= CacheMax + 1
    BY <1>10, MsgFacts
  <2> QED BY <2>1, <1>4, <1>11, <1>12, <1>13, <1>14 DEF Flows
<1>16. Alive(r, g, With(T, f.msg), n, q)
  BY <1>6, <1>9, <1>12, <1>15 DEF Alive, y
<1> QED BY <1>6, <1>16 DEF r

\* The link brings a frame that the sender numbered and that is not older than its depth.
OnLink(f, n, q) == f \in Frame /\ OnLine(f, n, q) /\ (f.msg + Depth > n \/ f.msg = n)

\* Seen from the expected number, distances count messages: for the nodes of the list, and for
\* a frame of the link that is not refused as old.
LEMMA Distances ==
  ASSUME NEW c \in Channel, NEW g \in Seq(Msg), NEW n \in 0 .. MaxMsg, NEW q \in SeqNum,
         Sorted(c), InLine(c, g, n, q), Depth <= SignMask
  PROVE  \E l \in Frame :
           /\ OnLine(l, n, q) /\ c.expectedSeq = GetNextFrameSeq(l.seq)
           /\ g # <<>> /\ g[Len(g)] = l.msg
           /\ \A i \in 1 .. Len(c.rxList) :
                c.rxList[i].msg = l.msg + 1 + Behind(c.expectedSeq, c.rxList[i].seq)
           /\ \A f : OnLink(f, n, q) /\ Behind(c.expectedSeq, f.seq) < SignMask =>
                       f.msg = l.msg + 1 + Behind(c.expectedSeq, f.seq)
<1>1. PICK l \in Frame :
         /\ OnLine(l, n, q) /\ c.expectedSeq = GetNextFrameSeq(l.seq)
         /\ g # <<>> /\ g[Len(g)] = l.msg
         /\ \A i \in 1 .. Len(c.rxList) : l.msg < c.rxList[i].msg
  BY DEF InLine
<1>2. l.seq \in SeqNum /\ l.msg \in Msg /\ l.msg <= n /\ SeqAdd(l.seq, n - l.msg) = q
  BY <1>1 DEF Frame, OnLine
<1>3. PICK a \in SeqNum, m \in Msg : a = l.seq /\ m = l.msg
  BY <1>2
<1>4. OnLine([seq |-> a, msg |-> m], n, q) /\ m <= n
  BY <1>2, <1>3 DEF OnLine
<1>5. ASSUME NEW x \in SeqNum, NEW j \in Msg, OnLine([seq |-> x, msg |-> j], n, q),
             Behind(GetNextFrameSeq(a), x) < SignMask, j + SignMask >= m + 1
      PROVE  j = m + 1 + Behind(GetNextFrameSeq(a), x)
  BY <1>4, <1>5, LineDistance
<1>6. ASSUME NEW i \in 1 .. Len(c.rxList)
      PROVE  c.rxList[i].msg = l.msg + 1 + Behind(c.expectedSeq, c.rxList[i].seq)
  <2>1. PICK x \in SeqNum, j \in Msg : x = c.rxList[i].seq /\ j = c.rxList[i].msg
    BY Nodes
  <2>2. OnLine([seq |-> x, msg |-> j], n, q)
    BY <2>1 DEF InLine, OnLine
  <2>3. Behind(GetNextFrameSeq(a), x) < SignMask
    BY <2>1, <1>1, <1>3 DEF Sorted
  <2>4. m < j
    BY <2>1, <1>1, <1>3
  <2>5. j + SignMask >= m + 1
    BY <2>4, MsgFacts, SeqModFacts
  <2>6. j = m + 1 + Behind(GetNextFrameSeq(a), x)
    BY <2>2, <2>3, <2>5, <1>5
  <2> QED BY <2>1, <2>6, <1>1, <1>3
<1>7. ASSUME NEW f, OnLink(f, n, q), Behind(c.expectedSeq, f.seq) < SignMask
      PROVE  f.msg = l.msg + 1 + Behind(c.expectedSeq, f.seq)
  <2>1. PICK x \in SeqNum, j \in Msg : x = f.seq /\ j = f.msg
    BY <1>7 DEF OnLink, Frame
  <2>2. OnLine([seq |-> x, msg |-> j], n, q)
    BY <2>1, <1>7 DEF OnLink, OnLine
  <2>3. Behind(GetNextFrameSeq(a), x) < SignMask
    BY <2>1, <1>1, <1>3, <1>7
  <2>4. j + Depth > n \/ j = n
    BY <2>1, <1>7 DEF OnLink
  <2>5. j + SignMask >= m + 1
    BY <2>4, <1>4, MsgFacts, SeqModFacts
  <2>6. j = m + 1 + Behind(GetNextFrameSeq(a), x)
    BY <2>2, <2>3, <2>5, <1>5
  <2> QED BY <2>1, <2>6, <1>1, <1>3
<1> QED BY <1>1, <1>6, <1>7

\* c expects the number after the one it expected.
Expecting(c) == [c EXCEPT !.expectedSeq = GetNextFrameSeq(c.expectedSeq)]

\* The frame that is expected takes its place; the list stays sorted, seen from the next one.
LEMMA ExpectedFlows ==
  ASSUME NEW c, NEW g, NEW T, NEW n \in 0 .. MaxMsg, NEW q \in SeqNum,
         Flows(c, g, T, n, q), Gap(c), NEW f, OnLink(f, n, q), f.seq = c.expectedSeq
  PROVE  Flows(Expecting(c), Append(g, f.msg), With(T, f.msg), n, q)
<1> PICK d : d = [c EXCEPT !.expectedSeq = GetNextFrameSeq(c.expectedSeq)]
  OBVIOUS
<1> DEFINE b == c.expectedSeq
           e == GetNextFrameSeq(b)
           rx == c.rxList
<1>1. c \in Channel /\ g \in Seq(Msg) /\ b \in SeqNum /\ f \in Frame /\ f.msg \in Msg
  BY DEF Flows, Sorted, OnLink, Frame
<1>2. e \in SeqNum
  BY <1>1, NextIsSeqAdd
<1>3. /\ d \in Channel /\ d.mode = "stream" /\ d.expectedSeq = e /\ d.rxList = rx
      /\ Len(rx) <= CacheMax + 1
  BY <1>1, <1>2 DEF Channel, Flows
<1>4. ASSUME NEW i \in 1 .. Len(rx)
      PROVE  /\ rx[i].seq \in SeqNum /\ rx[i].msg \in Msg
             /\ Behind(b, rx[i].seq) \in 1 .. SignMask - 1
             /\ Behind(e, rx[i].seq) = Behind(b, rx[i].seq) - 1
  <2>1. rx[i].seq \in SeqNum /\ rx[i].msg \in Msg /\ rx[i].seq # b /\ Behind(b, rx[i].seq) < SignMask
    BY <1>1, Nodes DEF Gap, Flows, Sorted
  <2>2. Behind(b, rx[i].seq) \in 0 .. SeqMod - 1 /\ Behind(b, rx[i].seq) # 0 /\ Behind(b, b) = 0
    BY <1>1, <2>1, BehindType
  <2>3. Behind(b, b) < Behind(b, rx[i].seq)
    BY <2>2, SeqModFacts
  <2>4. Behind(e, rx[i].seq) = Behind(b, rx[i].seq) - Behind(b, b) - 1
    BY <1>1, <2>1, <2>3, BehindNext
  <2> HIDE DEF b, e, rx
  <2> QED BY <2>1, <2>2, <2>4, SeqModFacts
<1>5. Sorted(d)
  <2>1. \A i, j \in 1 .. Len(rx) : i < j => Behind(b, rx[i].seq) < Behind(b, rx[j].seq)
    BY DEF Flows, Sorted
  <2> HIDE DEF b, e, rx
  <2>2. \A i \in 1 .. Len(rx) : Behind(e, rx[i].seq) < SignMask
    BY <1>4, SeqModFacts
  <2>3. ASSUME NEW i \in 1 .. Len(rx), NEW j \in 1 .. Len(rx), i < j
        PROVE  Behind(e, rx[i].seq) < Behind(e, rx[j].seq)
    <3>1. Behind(b, rx[i].seq) < Behind(b, rx[j].seq)
      BY <2>1, <2>3
    <3> QED BY <3>1, <1>4, SeqModFacts
  <2> QED BY <1>2, <1>3, <2>2, <2>3 DEF Sorted
<1>6. Kept(d, Append(g, f.msg), With(T, f.msg))
  BY <1>1, <1>3, KeptAppend DEF Flows
<1>7. ASSUME Depth <= SignMask
      PROVE  InLine(d, Append(g, f.msg), n, q)
  <2>1. PICK l \in Frame :
           /\ g # <<>> /\ g[Len(g)] = l.msg
           /\ \A i \in 1 .. Len(c.rxList) :
                c.rxList[i].msg = l.msg + 1 + Behind(c.expectedSeq, c.rxList[i].seq)
           /\ \A x : OnLink(x, n, q) /\ Behind(c.expectedSeq, x.seq) < SignMask =>
                       x.msg = l.msg + 1 + Behind(c.expectedSeq, x.seq)
    BY <1>1, <1>7, Distances DEF Flows
  <2>2. f.msg = l.msg + 1 /\ l.msg \in Msg
    <3>1. Behind(b, f.seq) = 0 /\ l.msg \in Msg
      BY <1>1, BehindType DEF Frame
    <3>2. Behind(b, f.seq) < SignMask
      BY <3>1, SeqModFacts
    <3>3. f.msg = l.msg + 1 + Behind(b, f.seq)
      BY <2>1, <3>2
    <3> HIDE DEF b
    <3> QED BY <3>1, <3>3, MsgFacts
  <2>3. ASSUME NEW i \in 1 .. Len(rx)
        PROVE  f.msg < rx[i].msg
    <3>1. rx[i].msg = l.msg + 1 + Behind(b, rx[i].seq)
      BY <2>1
    <3> HIDE DEF b, rx
    <3>2. Behind(b, rx[i].seq) \in Int /\ Behind(b, rx[i].seq) >= 1
      BY <1>4, SeqModFacts
    <3>3. l.msg \in Int /\ f.msg = l.msg + 1
      BY <2>2, MsgFacts
    <3> QED BY <3>1, <3>2, <3>3
  <2>4. \A i, j \in 1 .. Len(Append(g, f.msg)) : i < j => Append(g, f.msg)[i] < Append(g, f.msg)[j]
    <3>1. g[Len(g)] < f.msg
      BY <2>1, <2>2, MsgFacts
    <3>2. \A i, j \in 1 .. Len(g) : i < j => g[i] < g[j]
      BY <1>7 DEF Flows, InLine
    <3> QED BY <1>1, <3>1, <3>2, OrderAppend
  <2> DEFINE h == Append(g, f.msg)
  <2>5. h # <<>> /\ h[Len(h)] = f.msg
    BY <1>1, AppendProperties
  <2>6. OnLine(f, n, q) /\ d.expectedSeq = GetNextFrameSeq(f.seq)
    BY <1>3 DEF OnLink
  <2>7. /\ \A i \in 1 .. Len(rx) : OnLine(rx[i], n, q)
        /\ \A i, j \in 1 .. Len(rx) : i < j => rx[i].msg < rx[j].msg
    BY <1>7 DEF Flows, InLine
  <2> HIDE DEF rx
  <2>8. InLine(d, h, n, q)
    <3>1. \A i, j \in 1 .. Len(h) : i < j => h[i] < h[j]
      BY <2>4
    <3> HIDE DEF h
    <3>2. \A i \in 1 .. Len(d.rxList) : f.msg < d.rxList[i].msg
      BY <1>3, <2>3
    <3>3. /\ \A i \in 1 .. Len(d.rxList) : OnLine(d.rxList[i], n, q)
          /\ \A i, j \in 1 .. Len(d.rxList) : i < j => d.rxList[i].msg < d.rxList[j].msg
      BY <1>3, <2>7
    <3> QED BY <1>1, <2>5, <2>6, <3>1, <3>2, <3>3, Zenon DEF InLine
  <2> QED BY <2>8
<1>8. Append(g, f.msg) \in Seq(Msg)
  BY <1>1, AppendProperties
<1>9. Flows(d, Append(g, f.msg), With(T, f.msg), n, q)
  BY <1>3, <1>5, <1>6, <1>7, <1>8 DEF Flows
<1>10. d = Expecting(c)
  BY DEF Expecting
<1> QED BY <1>9, <1>10

\* A number put into an increasing list at its place.
LEMMA InsertIncreasing ==
  ASSUME NEW len \in Nat, NEW p \in [1 .. len -> Int], NEW v \in Int, NEW k \in 0 .. len,
         \A i, j \in 1 .. len : i < j => p[i] < p[j],
         \A j \in 1 .. k : p[j] < v,
         k < len => v < p[k + 1],
         NEW r, \A i \in 1 .. len + 1 : r[i] = IF i <= k THEN p[i] ELSE IF i = k + 1 THEN v ELSE p[i - 1]
  PROVE  \A i, j \in 1 .. len + 1 : i < j => r[i] < r[j]
<1> SUFFICES ASSUME NEW i \in 1 .. len + 1, NEW j \in 1 .. len + 1, i < j PROVE r[i] < r[j]
  OBVIOUS
<1>1. CASE j <= k
  <2>1. i \in 1 .. len /\ j \in 1 .. len /\ i <= k
    BY <1>1
  <2> QED BY <1>1, <2>1
<1>2. CASE j = k + 1
  <2>1. i \in 1 .. k /\ ~(j <= k)
    BY <1>2
  <2> QED BY <1>2, <2>1
<1>3. CASE j > k + 1
  <2>1. j - 1 \in 1 .. len /\ k + 1 \in 1 .. len /\ k < len /\ r[j] = p[j - 1]
    BY <1>3
  <2>2. CASE i <= k
    <3>1. i \in 1 .. len /\ i < j - 1
      BY <1>3, <2>2
    <3> QED BY <2>1, <2>2, <3>1
  <2>3. CASE i = k + 1
    <3>1. k + 1 = j - 1 \/ k + 1 < j - 1
      BY <1>3
    <3>2. v < p[k + 1] /\ (k + 1 < j - 1 => p[k + 1] < p[j - 1])
      BY <2>1
    <3>3. p[k + 1] \in Int /\ p[j - 1] \in Int
      BY <2>1
    <3>4. v < p[j - 1]
      BY <3>1, <3>2, <3>3
    <3> QED BY <2>1, <2>3, <3>4
  <2>4. CASE i > k + 1
    <3>1. i - 1 \in 1 .. len /\ i - 1 < j - 1 /\ r[i] = p[i - 1]
      BY <2>4
    <3> QED BY <2>1, <3>1
  <2> QED BY <2>2, <2>3, <2>4
<1> QED BY <1>1, <1>2, <1>3

\* c holds the frame f at its place.
Holding(c, f) ==
    [c EXCEPT !.rxList =
       InsertStreamRxNode(c.rxList, [seq |-> f.seq, msg |-> f.msg, timeStamp |-> clock])]

\* A frame that comes early is put into the list at its place.
LEMMA EarlyFlows ==
  ASSUME NEW c, NEW g, NEW T, NEW n \in 0 .. MaxMsg, NEW q \in SeqNum,
         Flows(c, g, T, n, q), Gap(c), NEW f, OnLink(f, n, q), clock \in 0 .. MaxClock,
         ~StreamRefuses(c, f), f.seq # c.expectedSeq
  PROVE  Flows(Holding(c, f), g, With(T, f.msg), n, q) /\ Gap(Holding(c, f))
<1> PICK x : x = [seq |-> f.seq, msg |-> f.msg, timeStamp |-> clock]
  OBVIOUS
<1> PICK d : d = [c EXCEPT !.rxList = InsertStreamRxNode(c.rxList, x)]
  OBVIOUS
<1> DEFINE b == c.expectedSeq
           rx == c.rxList
<1>1. c \in Channel /\ g \in Seq(Msg) /\ b \in SeqNum /\ f \in Frame /\ f.msg \in Msg /\ f.seq \in SeqNum
  BY DEF Flows, Sorted, OnLink, Frame
<1>2. PICK len \in Nat : len = Len(rx) /\ DOMAIN rx = 1 .. len
  BY <1>1, Nodes
<1>3. /\ len <= CacheMax /\ ~IsFrameSeqSmaller(f.seq, b)
      /\ \A i \in 1 .. len : rx[i].seq # f.seq
  <2>1. ~(len > CacheMax)
    BY <1>2 DEF StreamRefuses
  <2>2. c.expectedSeq # SEQ_INIT
    BY <1>1, MsgFacts
  <2> QED BY <1>2, <2>1, <2>2, MsgFacts DEF StreamRefuses
<1>4. x \in RxNode /\ x.seq = f.seq /\ x.msg = f.msg
  BY <1>1 DEF RxNode
<1>5. \A i \in 1 .. len : rx[i].seq \in SeqNum /\ rx[i].msg \in Msg /\ rx[i] \in RxNode
  BY <1>1, <1>2, Nodes
<1>6. PICK k \in 0 .. len, list \in Seq(RxNode) :
        /\ list = InsertStreamRxNode(rx, x) /\ Len(list) = len + 1
        /\ \A j \in 1 .. k : ~IsFrameSeqSmaller(x.seq, rx[j].seq)
        /\ k < len => IsFrameSeqSmaller(x.seq, rx[k + 1].seq)
        /\ \A i \in 1 .. len + 1 :
             list[i] = IF i <= k THEN rx[i] ELSE IF i = k + 1 THEN x ELSE rx[i - 1]
  <2>1. rx \in Seq(RxNode)
    BY <1>1, Nodes
  <2> DEFINE y == InsertStreamRxNode(rx, x)
  <2>2. /\ y \in Seq(RxNode) /\ Len(y) = Len(rx) + 1
        /\ \E k \in 0 .. Len(rx) :
             /\ \A j \in 1 .. k : ~IsFrameSeqSmaller(x.seq, rx[j].seq)
             /\ k < Len(rx) => IsFrameSeqSmaller(x.seq, rx[k + 1].seq)
             /\ \A i \in 1 .. Len(rx) + 1 :
                  y[i] = IF i <= k THEN rx[i] ELSE IF i = k + 1 THEN x ELSE rx[i - 1]
    BY <1>4, <2>1, InsertNode, Zenon
  <2>3. y = InsertStreamRxNode(rx, x)
    OBVIOUS
  <2> HIDE DEF y, rx
  <2> QED BY <1>2, <2>2, <2>3, Zenon
<1>7. /\ d \in Channel /\ d.mode = "stream" /\ d.expectedSeq = b /\ d.rxList = list
  BY <1>1, <1>6 DEF Channel, Flows
<1> HIDE DEF rx, b
\* Distances.
<1>8. /\ \A i \in 1 .. len : Behind(b, rx[i].seq) \in Int /\ Behind(b, rx[i].seq) < SignMask
      /\ \A i \in 1 .. len : Behind(b, rx[i].seq) # Behind(b, x.seq)
      /\ \A i, j \in 1 .. len : i < j => Behind(b, rx[i].seq) < Behind(b, rx[j].seq)
  <2>1. \A i \in 1 .. len : Behind(b, rx[i].seq) \in Int
    BY <1>1, <1>5, BehindType, SeqModFacts
  <2>2. \A i \in 1 .. len : Behind(b, rx[i].seq) < SignMask
    BY <1>2 DEF Flows, Sorted, rx, b
  <2>3. \A i, j \in 1 .. len : i < j => Behind(b, rx[i].seq) < Behind(b, rx[j].seq)
    BY <1>2 DEF Flows, Sorted, rx, b
  <2>4. ASSUME NEW i \in 1 .. len PROVE Behind(b, rx[i].seq) # Behind(b, x.seq)
    <3>1. rx[i].seq # x.seq /\ rx[i].seq \in SeqNum /\ x.seq \in SeqNum
      BY <1>1, <1>3, <1>4, <1>5
    <3> QED BY <3>1, <1>1, BehindDiffers
  <2> QED BY <2>1, <2>2, <2>3, <2>4
<1>9. Behind(b, x.seq) \in Int /\ Behind(b, x.seq) < SignMask /\ x.seq # b
  <2>1. Behind(b, x.seq) < SignMask
    BY <1>1, <1>3, <1>4, NotSmaller
  <2>2. Behind(b, x.seq) \in Int
    BY <1>1, <1>4, BehindType, SeqModFacts
  <2> QED BY <1>4, <2>1, <2>2 DEF b
<1>10. /\ \A j \in 1 .. k : Behind(b, rx[j].seq) < Behind(b, x.seq)
       /\ k < len => Behind(b, x.seq) < Behind(b, rx[k + 1].seq)
  <2>0. k \in Nat /\ k <= len
    BY <1>2
  <2>1. ASSUME NEW j \in 1 .. k PROVE Behind(b, rx[j].seq) < Behind(b, x.seq)
    <3>1. j \in 1 .. len
      BY <2>0
    <3>2. ~(Behind(b, x.seq) < Behind(b, rx[j].seq))
      BY <3>1, <1>1, <1>4, <1>5, <1>6, <1>8, <1>9, BehindSmaller
    <3>3. Behind(b, rx[j].seq) \in Int /\ Behind(b, rx[j].seq) # Behind(b, x.seq)
      BY <3>1, <1>8
    <3> QED BY <3>2, <3>3, <1>9
  <2>2. ASSUME k < len PROVE Behind(b, x.seq) < Behind(b, rx[k + 1].seq)
    <3>1. k + 1 \in 1 .. len
      BY <2>0, <2>2
    <3> QED BY <2>2, <3>1, <1>1, <1>4, <1>5, <1>6, <1>8, <1>9, BehindSmaller
  <2> QED BY <2>1, <2>2
<1>11. \A i \in 1 .. len + 1 :
         \/ i <= k /\ i \in 1 .. len /\ list[i] = rx[i]
         \/ i = k + 1 /\ list[i] = x
         \/ ~(i <= k) /\ i # k + 1 /\ i - 1 \in 1 .. len /\ list[i] = rx[i - 1]
  <2> SUFFICES ASSUME NEW i \in 1 .. len + 1
               PROVE \/ i <= k /\ i \in 1 .. len /\ list[i] = rx[i]
                     \/ i = k + 1 /\ list[i] = x
                     \/ ~(i <= k) /\ i # k + 1 /\ i - 1 \in 1 .. len /\ list[i] = rx[i - 1]
    OBVIOUS
  <2>1. \/ i <= k /\ i \in 1 .. len
        \/ i = k + 1 /\ ~(i <= k)
        \/ ~(i <= k) /\ i # k + 1 /\ i - 1 \in 1 .. len
    BY <1>2
  <2> QED BY <1>6, <2>1
<1>12. Sorted(d)
  <2> DEFINE p == [i \in 1 .. len |-> Behind(b, rx[i].seq)]
             v == Behind(b, x.seq)
             r == [i \in 1 .. len + 1 |-> Behind(b, list[i].seq)]
  <2>1. p \in [1 .. len -> Int] /\ v \in Int
    BY <1>8, <1>9
  <2>2. /\ \A i, j \in 1 .. len : i < j => p[i] < p[j]
        /\ \A j \in 1 .. k : p[j] < v
        /\ k < len => v < p[k + 1]
    <3>1. \A j \in 1 .. k : j \in 1 .. len
      BY <1>2
    <3>2. k < len => k + 1 \in 1 .. len
      BY <1>2
    <3> QED BY <1>8, <1>10, <3>1, <3>2
  <2>3. \A i \in 1 .. len + 1 : r[i] = IF i <= k THEN p[i] ELSE IF i = k + 1 THEN v ELSE p[i - 1]
    <3>1. \A i \in 1 .. len + 1 : i = k + 1 => ~(i <= k)
      BY <1>2
    <3> QED BY <1>11, <3>1
  <2> HIDE DEF p, v, r
  <2>4. \A i, j \in 1 .. len + 1 : i < j => r[i] < r[j]
    BY <2>1, <2>2, <2>3, InsertIncreasing
  <2>5. \A i \in 1 .. len + 1 : Behind(b, list[i].seq) < SignMask
    BY <1>8, <1>9, <1>11
  <2> QED BY <1>1, <1>6, <1>7, <2>4, <2>5 DEF Sorted, r
<1>13. Gap(d)
  <2>1. \A i \in 1 .. len : rx[i].seq # b
    BY <1>2 DEF Gap, rx, b
  <2> QED BY <2>1, <1>6, <1>7, <1>9, <1>11 DEF Gap
<1>14. Kept(d, g, With(T, f.msg))
  <2>1. T = Elements(g) \cup {rx[i].msg : i \in 1 .. len}
    BY <1>2 DEF Flows, Kept, rx
  <2>2. \A i \in 1 .. len + 1 : list[i].msg \in {rx[j].msg : j \in 1 .. len} \cup {f.msg}
    BY <1>4, <1>11
  <2>3. \A i \in 1 .. len : rx[i].msg \in {list[j].msg : j \in 1 .. len + 1}
    <3> SUFFICES ASSUME NEW i \in 1 .. len PROVE \E j \in 1 .. len + 1 : list[j] = rx[i]
      OBVIOUS
    <3>1. CASE i <= k
      <4>1. i \in 1 .. len + 1
        OBVIOUS
      <4> QED BY <3>1, <4>1, <1>6
    <3>2. CASE ~(i <= k)
      <4>1. i + 1 \in 1 .. len + 1 /\ ~(i + 1 <= k) /\ i + 1 # k + 1 /\ (i + 1) - 1 = i
        BY <3>2, <1>2
      <4>2. list[i + 1] = rx[(i + 1) - 1]
        BY <4>1, <1>6
      <4> QED BY <4>1, <4>2
    <3> QED BY <3>1, <3>2
  <2>4. f.msg \in {list[j].msg : j \in 1 .. len + 1}
    <3>1. k + 1 \in 1 .. len + 1 /\ ~(k + 1 <= k)
      BY <1>2
    <3>2. list[k + 1] = x
      BY <3>1, <1>6
    <3> QED BY <3>1, <3>2, <1>4
  <2>5. {list[i].msg : i \in 1 .. len + 1} = {rx[i].msg : i \in 1 .. len} \cup {f.msg}
    BY <2>2, <2>3, <2>4
  <2>6. {d.rxList[i].msg : i \in 1 .. Len(d.rxList)} = {list[i].msg : i \in 1 .. len + 1}
    BY <1>6, <1>7, Zenon
  <2> QED BY <2>1, <2>5, <2>6, Zenon DEF Kept, With
<1>15. ASSUME Depth <= SignMask
       PROVE  InLine(d, g, n, q)
  <2>1. PICK l \in Frame :
           /\ OnLine(l, n, q) /\ b = GetNextFrameSeq(l.seq)
           /\ g # <<>> /\ g[Len(g)] = l.msg
           /\ \A i \in 1 .. len : rx[i].msg = l.msg + 1 + Behind(b, rx[i].seq)
           /\ \A y : OnLink(y, n, q) /\ Behind(b, y.seq) < SignMask =>
                       y.msg = l.msg + 1 + Behind(b, y.seq)
    BY <1>1, <1>2, <1>15, Distances DEF Flows, rx, b
  <2>2. x.msg = l.msg + 1 + Behind(b, x.seq)
    BY <2>1, <1>4, <1>9
  <2>3. PICK m \in Int : m = l.msg
    BY MsgFacts DEF Frame
  <2>4. \A i \in 1 .. len + 1 : list[i].msg = m + 1 + Behind(b, list[i].seq)
    BY <2>1, <2>2, <2>3, <1>11
  <2>5. \A i \in 1 .. len + 1 : Behind(b, list[i].seq) \in Int /\ Behind(b, list[i].seq) >= 0
    <3>1. \A i \in 1 .. len + 1 : list[i].seq \in SeqNum
      BY <1>1, <1>4, <1>5, <1>11
    <3> SUFFICES ASSUME NEW i \in 1 .. len + 1
                 PROVE  Behind(b, list[i].seq) \in Int /\ Behind(b, list[i].seq) >= 0
      OBVIOUS
    <3>2. Behind(b, list[i].seq) \in 0 .. SeqMod - 1
      BY <3>1, <1>1, BehindType
    <3> QED BY <3>2, SeqModFacts
  <2>6. \A i, j \in 1 .. len + 1 : i < j => Behind(b, list[i].seq) < Behind(b, list[j].seq)
    BY <1>6, <1>7, <1>12 DEF Sorted
  <2>7. \A i, j \in 1 .. len + 1 : i < j => list[i].msg < list[j].msg
    <3> SUFFICES ASSUME NEW i \in 1 .. len + 1, NEW j \in 1 .. len + 1, i < j
                 PROVE  list[i].msg < list[j].msg
      OBVIOUS
    <3>1. Behind(b, list[i].seq) < Behind(b, list[j].seq)
      BY <2>6
    <3>2. /\ list[i].msg = m + 1 + Behind(b, list[i].seq)
          /\ list[j].msg = m + 1 + Behind(b, list[j].seq)
          /\ Behind(b, list[i].seq) \in Int /\ Behind(b, list[j].seq) \in Int
      BY <2>4, <2>5
    <3> QED BY <3>1, <3>2
  <2>8. ASSUME NEW i \in 1 .. len + 1 PROVE l.msg < list[i].msg
    <3>1. /\ list[i].msg = m + 1 + Behind(b, list[i].seq)
          /\ Behind(b, list[i].seq) \in Int /\ Behind(b, list[i].seq) >= 0
      BY <2>4, <2>5
    <3> QED BY <3>1, <2>3
  <2>9. \A i \in 1 .. len + 1 : OnLine(list[i], n, q)
    <3>1. OnLine(x, n, q)
      BY <1>4 DEF OnLink, OnLine
    <3>2. \A i \in 1 .. len : OnLine(rx[i], n, q)
      BY <1>2, <1>15 DEF Flows, InLine, rx
    <3> QED BY <3>1, <3>2, <1>11
  <2>10. \A i, j \in 1 .. Len(g) : i < j => g[i] < g[j]
    BY <1>15 DEF Flows, InLine
  <2>11. /\ \A i \in 1 .. Len(d.rxList) : l.msg < d.rxList[i].msg /\ OnLine(d.rxList[i], n, q)
         /\ \A i, j \in 1 .. Len(d.rxList) : i < j => d.rxList[i].msg < d.rxList[j].msg
         /\ d.expectedSeq = b
    BY <1>6, <1>7, <2>7, <2>8, <2>9
  <2>12. /\ OnLine(l, n, q) /\ d.expectedSeq = GetNextFrameSeq(l.seq)
         /\ g # <<>> /\ g[Len(g)] = l.msg
    BY <2>1, <2>11
  <2> QED BY <2>10, <2>11, <2>12, Zenon DEF InLine
<1>16. Len(d.rxList) <= CacheMax + 1
  BY <1>3, <1>6, <1>7, MsgFacts
<1>17. Flows(d, g, With(T, f.msg), n, q)
  BY <1>1, <1>7, <1>12, <1>14, <1>15, <1>16 DEF Flows
<1>18. d = Holding(c, f)
  BY DEF Holding
<1> QED BY <1>13, <1>17, <1>18

\* The frame that is expected is handed over, with what follows it without a gap.
LEMMA ExpectedFrame ==
  ASSUME NEW s \in State, clock \in 0 .. MaxClock, NEW g \in Seq(Msg), NEW T,
         NEW n \in 0 .. MaxMsg, NEW q \in SeqNum,
         Flows(s.c, HandedOver(g, s), T, n, q), Gap(s.c),
         NEW f, OnLink(f, n, q), f.seq = s.c.expectedSeq
  PROVE  /\ ExpectedStreamFrame(s, f) \in State
         /\ Alive(ExpectedStreamFrame(s, f), g, With(T, f.msg), n, q)
<1> DEFINE s1 == RecvCallback(s, f.msg)
           s2 == [s1 EXCEPT !.c.expectedSeq = GetNextFrameSeq(@)]
           s3 == ReportExpectedStreamFrame(s2)
           s4 == StopReorderTimer(s3)
<1> PICK U : U = With(T, f.msg)
  OBVIOUS
<1>1. f \in Frame /\ f.msg \in Msg /\ f.seq \in SeqNum
  BY DEF OnLink, Frame
<1>2. /\ s1 \in State /\ s1.c = s.c
      /\ HandedOver(g, s1) = Append(HandedOver(g, s), f.msg)
  BY <1>1, CallbackHands
<1> HIDE DEF s1
<1>3. s.c \in Channel /\ GetNextFrameSeq(s.c.expectedSeq) \in SeqNum
  <2>1. GetNextFrameSeq(f.seq) \in SeqNum
    BY <1>1, NextIsSeqAdd, SeqAddType
  <2> QED BY <2>1 DEF State
<1>4. /\ s2 \in State /\ s2.up = s1.up
      /\ s2.c = Expecting(s.c)
  BY <1>2, <1>3 DEF State, Channel, Expecting
<1>5. HandedOver(g, s2) = Append(HandedOver(g, s), f.msg)
  BY <1>2, <1>4 DEF HandedOver
<1>6. Flows(s2.c, HandedOver(g, s2), U, n, q)
  BY <1>4, <1>5, ExpectedFlows
<1> HIDE DEF s2
<1>7. s3 \in State /\ Gap(s3.c) /\ Flows(s3.c, HandedOver(g, s3), U, n, q)
  BY <1>4, <1>6, ReportExpectedFlows
<1> HIDE DEF s3
<1>8. s4 \in State /\ Alive(s4, g, U, n, q)
  <2>1. Alive(s3, g, U, n, q)
    BY <1>7 DEF Alive
  <2> QED BY <2>1, <1>7, StopTimer, SameAlive
<1> HIDE DEF s4
<1>9. StartReorderTimer(s4) \in State /\ Alive(StartReorderTimer(s4), g, U, n, q)
  BY <1>8, StartTimer, SameAlive
<1> QED BY <1>9 DEF ExpectedStreamFrame, s4, s3, s2, s1

\* A frame beyond a gap is kept.
LEMMA EarlyFrame ==
  ASSUME NEW s \in State, clock \in 0 .. MaxClock, NEW g \in Seq(Msg), NEW T,
         NEW n \in 0 .. MaxMsg, NEW q \in SeqNum,
         Flows(s.c, HandedOver(g, s), T, n, q), Gap(s.c),
         NEW f, OnLink(f, n, q), ~StreamRefuses(s.c, f), f.seq # s.c.expectedSeq
  PROVE  /\ EarlyStreamFrame(s, f) \in State
         /\ Alive(EarlyStreamFrame(s, f), g, With(T, f.msg), n, q)
<1> DEFINE x == [seq |-> f.seq, msg |-> f.msg, timeStamp |-> clock]
           rx == InsertStreamRxNode(s.c.rxList, x)
           s0 == [s EXCEPT !.c.rxList = rx]
           s1 == [s EXCEPT !.c.rxList = rx, !.c.maxExpectedSeq = LastPlusOne(rx)]
           s2 == [s0 EXCEPT !.c.maxExpectedSeq = LastPlusOne(s0.c.rxList)]
<1> PICK U : U = With(T, f.msg)
  OBVIOUS
<1>1. Flows(Holding(s.c, f), HandedOver(g, s), U, n, q) /\ Gap(Holding(s.c, f))
  BY EarlyFlows
<1>2. s.c \in Channel /\ rx \in Seq(RxNode) /\ Holding(s.c, f) = [s.c EXCEPT !.rxList = rx]
  <2>1. s.c \in Channel /\ Holding(s.c, f) \in Channel
    BY <1>1 DEF Flows, State
  <2>2. Holding(s.c, f) = [s.c EXCEPT !.rxList = rx]
    BY DEF Holding
  <2> HIDE DEF rx
  <2>3. Holding(s.c, f).rxList = rx
    BY <2>1, <2>2 DEF Channel
  <2> QED BY <2>1, <2>2, <2>3, Nodes
<1> HIDE DEF rx
<1>3. s0 \in State /\ s0.c = Holding(s.c, f) /\ s0.up = s.up /\ s0.c.rxList = rx
  BY <1>2 DEF State, Channel
<1>4. Alive(s0, g, U, n, q)
  BY <1>1, <1>3 DEF Alive, HandedOver
<1>5. s1 = s2
  BY <1>2, <1>3 DEF State, Channel
<1> HIDE DEF s0
<1>6. s2 \in State /\ s2.up = s0.up /\ SameFlow(s0.c, s2.c)
  BY <1>3, SetMaxExpected
<1> HIDE DEF s1, s2
<1>7. s1 \in State /\ Alive(s1, g, U, n, q)
  BY <1>4, <1>5, <1>6, SameAlive
<1>8. StartReorderTimer(s1) \in State /\ Alive(StartReorderTimer(s1), g, U, n, q)
  BY <1>7, StartTimer, SameAlive
<1> QED BY <1>7, <1>8 DEF EarlyStreamFrame, s1, rx

\* Whatever a channel of stream mode does not refuse, it keeps or hands over.
LEMMA StreamFrame ==
  ASSUME NEW s \in State, clock \in 0 .. MaxClock, NEW g \in Seq(Msg), NEW T,
         NEW n \in 0 .. MaxMsg, NEW q \in SeqNum, Alive(s, g, T, n, q),
         NEW f, OnLink(f, n, q), ~StreamRefuses(s.c, f)
  PROVE  /\ RecvStreamFrame(s, f) \in State
         /\ Alive(RecvStreamFrame(s, f), g, With(T, f.msg), n, q)
<1>1. CASE Silent(s.c, HandedOver(g, s), T)
  <2>1. f \in Frame /\ OnLine(f, n, q)
    BY DEF OnLink
  <2>2. s.c.expectedSeq = SEQ_INIT /\ f.seq # SEQ_INIT
    BY <1>1, <2>1, MsgFacts DEF Silent, Frame
  <2>3. RecvStreamFrame(s, f) = FirstStreamFrame(s, f)
    BY <2>2 DEF RecvStreamFrame
  <2> QED BY <1>1, <2>1, <2>3, FirstFrame
<1>2. CASE Flows(s.c, HandedOver(g, s), T, n, q) /\ Gap(s.c)
  <2>1. s.c.expectedSeq # SEQ_INIT
    BY <1>2, MsgFacts DEF Flows, Sorted
  <2>2. CASE f.seq = s.c.expectedSeq
    <3>1. RecvStreamFrame(s, f) = ExpectedStreamFrame(s, f)
      BY <2>1, <2>2 DEF RecvStreamFrame
    <3> QED BY <1>2, <2>2, <3>1, ExpectedFrame
  <2>3. CASE f.seq # s.c.expectedSeq
    <3>1. RecvStreamFrame(s, f) = EarlyStreamFrame(s, f)
      BY <2>1, <2>3 DEF RecvStreamFrame
    <3> QED BY <1>2, <2>3, <3>1, EarlyFrame
  <2> QED BY <2>2, <2>3
<1> QED BY <1>1, <1>2 DEF Alive

-----------------------------------------------------------------------------
(***************************************************************************)
(* Basic mode.                                                             *)
(***************************************************************************)
\* The messages of an empty list.
LEMMA NoMsgs == Len(<<>>) = 0 /\ Msgs(<<>>, 0) = <<>>
BY EmptySeq DEF Msgs

\* A ready channel hands a frame over.
LEMMA ReadyFrame ==
  ASSUME NEW s \in State, NEW g \in Seq(Msg), NEW t \in Seq(Msg),
         Cached(s.c, HandedOver(g, s), t), s.c.isReady, NEW m \in Msg
  PROVE  Cached(RecvCallback(s, m).c, HandedOver(g, RecvCallback(s, m)), Append(t, m))
<1> DEFINE r == RecvCallback(s, m)
           h == HandedOver(g, s)
<1>1. r.c = s.c /\ HandedOver(g, r) = Append(h, m) /\ h \in Seq(Msg)
  BY CallbackHands
<1> HIDE DEF r, h
<1>2. s.c.rxList = <<>> /\ t = h \o Msgs(s.c.rxList, Len(s.c.rxList))
  BY DEF Cached, h
<1>3. t = h
  BY <1>1, <1>2, NoMsgs, ConcatEmptySeq
<1>4. Append(h, m) \in Seq(Msg)
  BY <1>1, AppendProperties
<1>5. Append(h, m) = Append(h, m) \o <<>>
  BY <1>4, ConcatEmptySeq
<1>6. Append(t, m) = HandedOver(g, r) \o Msgs(r.c.rxList, Len(r.c.rxList))
  BY <1>1, <1>2, <1>3, <1>5, NoMsgs
<1> QED BY <1>1, <1>2, <1>6 DEF Cached, r

\* One node more at the end of a list.
LEMMA MsgsAppend ==
  ASSUME NEW rx \in Seq(RxNode), NEW x \in RxNode
  PROVE  /\ Append(rx, x) \in Seq(RxNode) /\ Len(Append(rx, x)) = Len(rx) + 1
         /\ Msgs(Append(rx, x), Len(Append(rx, x))) = Append(Msgs(rx, Len(rx)), x.msg)
<1> DEFINE y == Append(rx, x)
           a == Msgs(y, Len(y))
           b == Append(Msgs(rx, Len(rx)), x.msg)
<1>1. PICK len \in Nat : len = Len(rx)
  BY LenProperties
<1>2. /\ y \in Seq(RxNode) /\ Len(y) = len + 1 /\ y[len + 1] = x
      /\ \A i \in 1 .. len : y[i] = rx[i]
  BY <1>1, AppendProperties
<1> HIDE DEF y
<1>3. /\ a \in Seq(Msg) /\ Len(a) = len + 1 /\ \A i \in 1 .. len + 1 : a[i] = y[i].msg
  <2>1. Len(y) \in 0 .. Len(y)
    BY <1>1, <1>2
  <2> QED BY <1>2, <2>1, MsgsType
<1>4. /\ Msgs(rx, len) \in Seq(Msg) /\ Len(Msgs(rx, len)) = len
      /\ \A i \in 1 .. len : Msgs(rx, len)[i] = rx[i].msg
  <2>1. len \in 0 .. Len(rx)
    BY <1>1
  <2> QED BY <2>1, MsgsType
<1>5. x.msg \in Msg
  BY DEF RxNode
<1>6. /\ b \in Seq(Msg) /\ Len(b) = len + 1 /\ b[len + 1] = x.msg
      /\ \A i \in 1 .. len : b[i] = rx[i].msg
  BY <1>1, <1>4, <1>5, AppendProperties
<1> HIDE DEF a, b
<1>7. \A i \in 1 .. len + 1 : a[i] = b[i]
  <2> SUFFICES ASSUME NEW i \in 1 .. len + 1 PROVE a[i] = b[i]
    OBVIOUS
  <2>1. i \in 1 .. len \/ i = len + 1
    BY <1>1
  <2> QED BY <2>1, <1>2, <1>3, <1>6
<1>8. a = b
  BY <1>3, <1>6, <1>7, SeqEqual
<1> QED BY <1>1, <1>2, <1>8 DEF a, b, y

\* A channel that is not ready keeps a frame at the end of its list.
LEMMA CachedFrame ==
  ASSUME NEW s \in State, NEW g \in Seq(Msg), NEW t \in Seq(Msg),
         Cached(s.c, HandedOver(g, s), t), ~s.c.isReady, NEW x \in RxNode
  PROVE  LET r == [s EXCEPT !.c.rxList = Append(@, x)]
         IN  /\ r \in State /\ r.c.mode = s.c.mode
             /\ Len(r.c.rxList) = Len(s.c.rxList) + 1
             /\ Cached(r.c, HandedOver(g, r), Append(t, x.msg))
<1> DEFINE rx == Append(s.c.rxList, x)
           r == [s EXCEPT !.c.rxList = rx]
           h == HandedOver(g, s)
           m == Msgs(s.c.rxList, Len(s.c.rxList))
<1>1. s.c \in Channel /\ s.c.rxList \in Seq(RxNode) /\ s.up \in Seq(Msg) /\ x.msg \in Msg
  BY Nodes DEF State, RxNode
<1>2. rx \in Seq(RxNode) /\ Len(rx) = Len(s.c.rxList) + 1 /\ Msgs(rx, Len(rx)) = Append(m, x.msg)
  BY <1>1, MsgsAppend
<1>3. h \in Seq(Msg) /\ m \in Seq(Msg)
  <2>1. Len(s.c.rxList) \in 0 .. Len(s.c.rxList)
    BY <1>1, LenProperties
  <2> QED BY <1>1, <2>1, MsgsType, ConcatProperties DEF HandedOver
<1>4. t = h \o m
  BY DEF Cached
<1> HIDE DEF rx, h, m
<1>5. /\ r \in State /\ r.up = s.up /\ r.c.rxList = rx /\ r.c.mode = s.c.mode
      /\ r.c.isReady = s.c.isReady
  BY <1>1, <1>2 DEF State, Channel
<1>6. HandedOver(g, r) = h
  BY <1>5 DEF HandedOver, h
<1>7. Append(h \o m, x.msg) = h \o Append(m, x.msg)
  <2> DEFINE o == <<x.msg>>
  <2>1. o \in Seq(Msg) /\ h \o m \in Seq(Msg)
    BY <1>1, <1>3, ConcatProperties
  <2>2. Append(h \o m, x.msg) = (h \o m) \o o /\ Append(m, x.msg) = m \o o
    BY <1>1, <1>3, <2>1, AppendIsConcat
  <2> HIDE DEF o
  <2>3. (h \o m) \o o = h \o (m \o o)
    BY <1>3, <2>1, JoinedTwice
  <2> QED BY <2>2, <2>3
<1>8. Cached(r.c, HandedOver(g, r), Append(t, x.msg))
  BY <1>2, <1>4, <1>5, <1>6, <1>7 DEF Cached
<1> QED BY <1>2, <1>5, <1>8 DEF rx

\* When the link is connected, the channel hands over what it kept.
LEMMA CacheEmptied ==
  ASSUME NEW s \in State, NEW g \in Seq(Msg), NEW t \in Seq(Msg),
         Cached(s.c, HandedOver(g, s), t)
  PROVE  LET r == RecvBasicFrameContinue(s)
         IN  /\ r \in State /\ r.c.mode = s.c.mode /\ Len(r.c.rxList) = 0
             /\ Cached(r.c, HandedOver(g, r), t)
<1> DEFINE r == RecvBasicFrameContinue(s)
           m == Msgs(s.c.rxList, Len(s.c.rxList))
           rx == SubSeq(s.c.rxList, Len(s.c.rxList) + 1, Len(s.c.rxList))
           u == s.up \o m
<1>1. s.c \in Channel /\ s.c.rxList \in Seq(RxNode) /\ s.up \in Seq(Msg) /\ Len(s.c.rxList) \in Nat
  BY Nodes DEF State
<1>2. rx = <<>>
  BY <1>1, SubSeqEmpty
<1>3. m \in Seq(Msg)
  <2>1. Len(s.c.rxList) \in 0 .. Len(s.c.rxList)
    BY <1>1
  <2> QED BY <1>1, <2>1, MsgsType
<1>4. r = [[s EXCEPT !.c.rxList = rx, !.up = u] EXCEPT !.c.isReady = TRUE]
  BY DEF RecvBasicFrameContinue, Report, Msgs
<1>5. u \in Seq(Msg) /\ <<>> \in Seq(RxNode)
  BY <1>1, <1>3, ConcatProperties, EmptySeq
<1>6. t = (g \o s.up) \o m
  BY DEF Cached, HandedOver
<1> HIDE DEF rx
<1>7. (g \o s.up) \o m = g \o u
  BY <1>1, <1>3, JoinedTwice
<1>8. (g \o u) \in Seq(Msg)
  BY <1>5, ConcatProperties
<1> HIDE DEF m, u
<1>9. [[s.c EXCEPT !.rxList = <<>>] EXCEPT !.isReady = TRUE] \in Channel
  BY <1>1, <1>5 DEF Channel
<1>10. /\ r \in State /\ r.up = u
       /\ r.c = [[s.c EXCEPT !.rxList = <<>>] EXCEPT !.isReady = TRUE]
  BY <1>1, <1>2, <1>4, <1>5, <1>9 DEF State
<1>11. r.c.rxList = <<>> /\ r.c.isReady /\ r.c.mode = s.c.mode
  BY <1>1, <1>10 DEF Channel
<1> HIDE DEF r
<1>12. t = HandedOver(g, r)
  BY <1>6, <1>7, <1>10 DEF HandedOver
<1>13. HandedOver(g, r) = HandedOver(g, r) \o <<>>
  BY <1>8, <1>10, ConcatEmptySeq DEF HandedOver
<1>14. Cached(r.c, HandedOver(g, r), t)
  BY <1>11, <1>12, <1>13, NoMsgs DEF Cached
<1> QED BY <1>10, <1>11, <1>14, NoMsgs DEF r

-----------------------------------------------------------------------------
(***************************************************************************)
(* The invariant holds initially, and every action keeps it.               *)
(***************************************************************************)
\* A channel is there, or none.
LEMMA ChannelOrNone ==
  ASSUME IInv
  PROVE  /\ NoChan.mode = "none" /\ NoChan \notin Channel
         /\ ch \in Channel \/ ch = NoChan
         /\ ch # NoChan => ch \in Channel /\ ch.mode \in Modes /\ Len(ch.rxList) <= CacheMax + 1
BY DEF IInv, Typed, TypeOK, NoChan, Channel, Modes

\* What a handler starts from.
LEMMA HereState ==
  ASSUME IInv, ch # NoChan
  PROVE  /\ Here \in State /\ Here.c = ch /\ HandedOver(got, Here) = got
         /\ got \in Seq(Msg) /\ taken \in Seq(Msg) /\ clock \in 0 .. MaxClock
         /\ sent \in 0 .. MaxMsg /\ txSeq \in SeqNum
         /\ ch.mode = "stream" => Alive(Here, got, Elements(taken), sent, txSeq)
         /\ ch.mode = "basic" => Cached(Here.c, HandedOver(got, Here), taken)
<1>1. /\ ch \in Channel /\ timers \in SUBSET Timer /\ IsFiniteSet(timers) /\ got \in Seq(Msg)
      /\ taken \in Seq(Msg) /\ clock \in 0 .. MaxClock /\ sent \in 0 .. MaxMsg /\ txSeq \in SeqNum
  BY ChannelOrNone DEF IInv, Typed, TypeOK
<1>2. Here \in State /\ Here.c = ch /\ Here.up = <<>>
  <2>1. <<>> \in Seq(Msg)
    BY EmptySeq
  <2> QED BY <1>1, <2>1 DEF Here, State
<1>3. HandedOver(got, Here) = got
  BY <1>1, <1>2, ConcatEmptySeq DEF HandedOver
<1>4. /\ ch.mode = "stream" => Streaming(ch, got, Elements(taken), sent, txSeq)
      /\ ch.mode = "basic" => Cached(ch, got, taken)
  BY DEF IInv
<1>5. ch.mode = "stream" => Alive(Here, got, Elements(taken), sent, txSeq)
  BY <1>2, <1>3, <1>4 DEF Alive, Streaming
<1> QED BY <1>1, <1>2, <1>3, <1>4, <1>5

\* What a handler leaves.
LEMMA HandlerLeaves ==
  ASSUME NEW s \in State, got \in Seq(Msg), Becomes(s)
  PROVE  /\ ch' \in Channel /\ ch' = s.c /\ ch' # NoChan
         /\ timers' \in SUBSET Timer /\ IsFiniteSet(timers')
         /\ got' \in Seq(Msg) /\ got' = HandedOver(got, s)
<1>1. /\ s.c \in Channel /\ s.ts \in SUBSET Timer /\ IsFiniteSet(s.ts) /\ s.up \in Seq(Msg)
  BY DEF State
<1>2. HandedOver(got, s) \in Seq(Msg)
  BY <1>1, ConcatProperties DEF HandedOver
<1>3. NoChan \notin Channel
  BY DEF NoChan, Channel, Modes
<1>4. ch' = s.c /\ timers' = s.ts /\ got' = HandedOver(got, s)
  BY DEF Becomes, HandedOver
<1> QED BY <1>1, <1>2, <1>3, <1>4

\* A channel that is alive has a list of legal length.
LEMMA AliveStreams ==
  ASSUME NEW s \in State, NEW g, NEW T, NEW n, NEW q, Alive(s, g, T, n, q)
  PROVE  /\ Streaming(s.c, HandedOver(g, s), T, n, q)
         /\ s.c.mode = "stream" /\ Len(s.c.rxList) <= CacheMax + 1
<1>1. CASE Silent(s.c, HandedOver(g, s), T)
  <2>1. Len(<<>>) = 0 /\ 0 <= CacheMax + 1
    BY EmptySeq, MsgFacts
  <2>2. s.c.rxList = <<>> /\ s.c.mode = "stream"
    BY <1>1 DEF Silent
  <2> QED BY <1>1, <2>1, <2>2 DEF Streaming
<1>2. CASE Flows(s.c, HandedOver(g, s), T, n, q) /\ Gap(s.c)
  BY <1>2 DEF Flows, Streaming
<1> QED BY <1>1, <1>2 DEF Alive

\* TypeOK is what Typed adds to.
LEMMA TypedNext ==
  ASSUME IInv, ch' \in Channel \cup {NoChan}, ch' # NoChan => Len(ch'.rxList) <= CacheMax + 1,
         txSeq' \in SeqNum, net' \subseteq Frame, timers' \in SUBSET Timer, IsFiniteSet(timers'),
         tasks' \in Nat, sent' \in 0 .. MaxMsg, clock' \in 0 .. MaxClock,
         got' \in Seq(Msg), taken' \in Seq(Msg)
  PROVE  Typed'
<1>1. \A t \in timers' : t.id \in Nat \ {NoTimer} /\ t.at \in 0 .. Never
  BY DEF Timer
<1> QED BY <1>1 DEF Typed, TypeOK

LEMMA InitInv == Init => IInv
<1> SUFFICES ASSUME Init PROVE IInv
  OBVIOUS
<1>1. Typed
  <2>1. <<>> \in Seq(Msg) /\ 0 \in 0 .. MaxMsg /\ 0 \in 0 .. MaxClock /\ 0 \in SeqNum
    BY EmptySeq, MsgFacts
  <2>2. IsFiniteSet({}) /\ {} \in SUBSET Timer
    BY FS_EmptySet
  <2> QED BY <2>1, <2>2 DEF Init, Typed, TypeOK
<1>2. Link
  BY DEF Init, Link
<1>3. ch.mode = "none"
  BY DEF Init, NoChan
<1> QED BY <1>1, <1>2, <1>3 DEF IInv

\* DTAP_ChannelAdd: a new channel has heard nothing.
LEMMA OpenInv ==
  ASSUME IInv, NEW mode \in Modes, NEW smtc \in BOOLEAN, Open(mode, smtc)
  PROVE  IInv'
<1> DEFINE d == ChannelCreate(mode, smtc)
<1>1. /\ ch = NoChan /\ ch' = d /\ txSeq' = 0 /\ taken' = <<>> /\ got' = <<>>
      /\ UNCHANGED <<net, clock, timers, tasks, sent, dups>>
  BY DEF Open
<1>2. /\ timers \in SUBSET Timer /\ IsFiniteSet(timers) /\ sent \in 0 .. MaxMsg
      /\ clock \in 0 .. MaxClock /\ net \subseteq Frame /\ tasks \in Nat /\ net = {}
  BY <1>1 DEF IInv, Typed, TypeOK, Link
<1>3. /\ d \in Channel /\ d.rxList = <<>> /\ d.expectedSeq = SEQ_INIT /\ d.mode = mode
  <2>1. <<>> \in Seq(RxNode) /\ NoTimer \in Nat /\ 0 \in SeqNum /\ SEQ_INIT \in 0 .. SEQ_INIT
    BY EmptySeq, MsgFacts, SeqModFacts DEF NoTimer
  <2>2. (~smtc) \in BOOLEAN
    OBVIOUS
  <2> QED BY <2>1, <2>2 DEF ChannelCreate, Channel
<1> HIDE DEF d
<1>4. Len(<<>>) = 0 /\ 0 <= CacheMax + 1 /\ 0 \in SeqNum /\ <<>> \in Seq(Msg)
  BY EmptySeq, MsgFacts
<1>5. Typed'
  BY <1>1, <1>2, <1>3, <1>4, TypedNext
<1>6. Link'
  BY <1>1, <1>2 DEF Link
<1>7. ch'.mode = "stream" => Streaming(ch', got', Elements(taken'), sent', txSeq')
  <2>1. Elements(<<>>) = {}
    BY <1>4 DEF Elements
  <2> QED BY <1>1, <1>3, <2>1 DEF Streaming, Silent
<1>8. Cached(ch', got', taken')
  <2>1. <<>> = <<>> \o <<>>
    BY <1>4, ConcatEmptySeq
  <2> QED BY <1>1, <1>3, <2>1, NoMsgs DEF Cached
<1> QED BY <1>5, <1>6, <1>7, <1>8 DEF IInv

\* DTAP_ChannelDel
LEMMA CloseInv ==
  ASSUME IInv, Close
  PROVE  IInv'
<1> DEFINE s == IF Here.c.mode = "stream" THEN StopReorderTimer(Here) ELSE Here
           r == ChannelDestroy(Here)
<1>1. /\ ch # NoChan /\ Becomes(r) /\ net' = {}
      /\ UNCHANGED <<txSeq, clock, tasks, sent, dups, opens, taken>>
  BY DEF Close
<1>2. /\ Here \in State /\ HandedOver(got, Here) = got /\ got \in Seq(Msg) /\ taken \in Seq(Msg)
      /\ clock \in 0 .. MaxClock /\ sent \in 0 .. MaxMsg /\ txSeq \in SeqNum
  BY <1>1, HereState
<1>3. s \in State /\ s.up = Here.up
  BY <1>2, StopTimer
<1>4. r = [s EXCEPT !.c = NoChan]
  BY DEF ChannelDestroy
<1> HIDE DEF s, r
<1>5. r.c = NoChan /\ r.ts = s.ts /\ r.up = Here.up /\ s.ts \in SUBSET Timer /\ IsFiniteSet(s.ts)
  BY <1>3, <1>4 DEF State
<1>6. got' = got
  BY <1>1, <1>2, <1>5 DEF Becomes, HandedOver
<1>7. ch' = NoChan /\ timers' \in SUBSET Timer /\ IsFiniteSet(timers')
  BY <1>1, <1>5 DEF Becomes
<1>8. tasks \in Nat /\ {} \subseteq Frame
  BY DEF IInv, Typed, TypeOK
<1>9. Typed'
  BY <1>1, <1>2, <1>6, <1>7, <1>8, TypedNext
<1>10. Link'
  BY <1>1, <1>7 DEF Link
<1>11. ch'.mode = "none"
  BY <1>7 DEF NoChan
<1> QED BY <1>9, <1>10, <1>11 DEF IInv

\* The sender's next message leaves every number in line.
LEMMA OnLineNext ==
  ASSUME NEW n \in 0 .. MaxMsg, n < MaxMsg, NEW q \in SeqNum, NEW x, x.seq \in SeqNum, x.msg \in Msg,
         OnLine(x, n, q)
  PROVE  OnLine(x, n + 1, GetNextFrameSeq(q))
<1>1. PICK a \in SeqNum, m \in Msg : a = x.seq /\ m = x.msg
  OBVIOUS
<1>2. m <= n /\ SeqAdd(a, n - m) = q /\ n \in Nat /\ m \in Nat /\ m >= 1
  BY <1>1, MsgFacts DEF OnLine
<1>3. n - m \in Nat /\ 1 \in Nat /\ (n - m) + 1 <= SeqMod /\ (n - m) + 1 = (n + 1) - m /\ m <= n + 1
  BY <1>2, MsgFacts, SeqModFacts
<1>4. SeqAdd(SeqAdd(a, n - m), 1) = SeqAdd(a, (n - m) + 1)
  BY <1>3, SeqAddAdd
<1>5. GetNextFrameSeq(q) = SeqAdd(q, 1)
  BY NextIsSeqAdd
<1>6. SeqAdd(a, (n + 1) - m) = GetNextFrameSeq(q)
  BY <1>2, <1>3, <1>4, <1>5
<1>7. x.msg <= n + 1
  BY <1>1, <1>3
<1>8. SeqAdd(x.seq, (n + 1) - x.msg) = GetNextFrameSeq(q)
  <2>1. x.seq = a /\ x.msg = m
    BY <1>1
  <2> QED BY <1>6, <2>1
<1> QED BY <1>7, <1>8 DEF OnLine

\* It leaves the channel as it was.
LEMMA FlowsSent ==
  ASSUME NEW c, NEW g, NEW T, NEW n \in 0 .. MaxMsg, n < MaxMsg, NEW q \in SeqNum,
         Streaming(c, g, T, n, q)
  PROVE  Streaming(c, g, T, n + 1, GetNextFrameSeq(q))
<1>1. CASE Silent(c, g, T)
  BY <1>1 DEF Streaming
<1>2. CASE Flows(c, g, T, n, q) /\ Gap(c)
  <2>1. ASSUME Depth <= SignMask, InLine(c, g, n, q)
        PROVE  InLine(c, g, n + 1, GetNextFrameSeq(q))
    <3>1. PICK l \in Frame :
            /\ OnLine(l, n, q) /\ c.expectedSeq = GetNextFrameSeq(l.seq)
            /\ g # <<>> /\ g[Len(g)] = l.msg
            /\ \A i \in 1 .. Len(c.rxList) : l.msg < c.rxList[i].msg
      BY <2>1 DEF InLine
    <3>2. OnLine(l, n + 1, GetNextFrameSeq(q))
      BY <3>1, OnLineNext DEF Frame
    <3>3. \A i \in 1 .. Len(c.rxList) : OnLine(c.rxList[i], n + 1, GetNextFrameSeq(q))
      <4> SUFFICES ASSUME NEW i \in 1 .. Len(c.rxList)
                   PROVE OnLine(c.rxList[i], n + 1, GetNextFrameSeq(q))
        OBVIOUS
      <4>1. c.rxList[i].seq \in SeqNum /\ c.rxList[i].msg \in Msg
        BY <1>2, Nodes DEF Flows
      <4>2. OnLine(c.rxList[i], n, q)
        BY <2>1 DEF InLine
      <4> QED BY <4>1, <4>2, OnLineNext
    <3>4. /\ \A i, j \in 1 .. Len(c.rxList) : i < j => c.rxList[i].msg < c.rxList[j].msg
          /\ \A i, j \in 1 .. Len(g) : i < j => g[i] < g[j]
      BY <2>1 DEF InLine
    <3> QED BY <3>1, <3>2, <3>3, <3>4, Zenon DEF InLine
  <2>2. Flows(c, g, T, n + 1, GetNextFrameSeq(q))
    BY <1>2, <2>1 DEF Flows
  <2> QED BY <1>2, <2>2 DEF Streaming
<1> QED BY <1>1, <1>2 DEF Streaming

\* DTAP_SendStreamFrame, DTAP_SendBasicFrame, DTAP_SendTransparentFrame
LEMMA SendInv ==
  ASSUME IInv, Send
  PROVE  IInv'
<1> DEFINE x == [seq |-> txSeq', msg |-> sent']
<1>1. /\ ch # NoChan /\ sent < MaxMsg /\ sent' = sent + 1
      /\ txSeq' = IF ch.mode = "stream" THEN GetNextFrameSeq(txSeq) ELSE txSeq
      /\ net' = {f \in net : f.msg + Depth > sent + 1} \cup {x}
      /\ UNCHANGED <<ch, clock, timers, tasks, dups, opens, taken, got>>
  BY DEF Send
<1>2. /\ ch \in Channel /\ Len(ch.rxList) <= CacheMax + 1
      /\ timers \in SUBSET Timer /\ IsFiniteSet(timers) /\ sent \in 0 .. MaxMsg
      /\ clock \in 0 .. MaxClock /\ net \subseteq Frame /\ tasks \in Nat /\ txSeq \in SeqNum
      /\ got \in Seq(Msg) /\ taken \in Seq(Msg)
  BY <1>1, ChannelOrNone DEF IInv, Typed, TypeOK
<1>3. txSeq' \in SeqNum
  BY <1>1, <1>2, NextIsSeqAdd
<1>4. sent' \in 0 .. MaxMsg /\ sent' \in Msg
  BY <1>1, <1>2, MsgFacts
<1>5. x \in Frame /\ x.seq = txSeq' /\ x.msg = sent'
  BY <1>3, <1>4 DEF Frame
<1> HIDE DEF x
<1>6. Typed'
  <2>1. net' \subseteq Frame
    BY <1>1, <1>2, <1>5
  <2> QED BY <1>1, <1>2, <1>3, <1>4, <2>1, TypedNext
<1>7. ASSUME ch.mode = "stream", NEW f \in net'
      PROVE  OnLine(f, sent', txSeq')
  <2>1. txSeq' = GetNextFrameSeq(txSeq)
    BY <1>1, <1>7
  <2>2. CASE f \in net
    <3>1. OnLine(f, sent, txSeq)
      BY <1>1, <1>7, <2>2 DEF IInv, Link
    <3>2. f.seq \in SeqNum /\ f.msg \in Msg
      BY <1>2, <2>2 DEF Frame
    <3> QED BY <1>1, <1>2, <2>1, <3>1, <3>2, OnLineNext
  <2>3. CASE f = x
    <3>1. sent' - sent' = 0 /\ sent' <= sent'
      <4>1. sent' \in Int
        BY <1>4, MsgFacts
      <4>2. \A k \in Int : k - k = 0 /\ k <= k
        OBVIOUS
      <4> QED BY <4>1, <4>2, Zenon
    <3>2. SeqAdd(txSeq', 0) = txSeq'
      BY <1>3, SeqAddZero
    <3> QED BY <1>5, <2>3, <3>1, <3>2 DEF OnLine
  <2> QED BY <1>1, <2>2, <2>3
<1>8. ASSUME NEW f \in net' PROVE f.msg + Depth > sent' \/ f.msg = sent'
  BY <1>1, <1>5, <1>8
<1>9. Link'
  BY <1>1, <1>7, <1>8 DEF Link
<1>10. ch'.mode = "stream" => Streaming(ch', got', Elements(taken'), sent', txSeq')
  <2>1. ASSUME ch.mode = "stream" PROVE Streaming(ch, got, Elements(taken), sent + 1, GetNextFrameSeq(txSeq))
    <3>1. Streaming(ch, got, Elements(taken), sent, txSeq)
      BY <2>1 DEF IInv
    <3> QED BY <1>1, <1>2, <3>1, FlowsSent
  <2> QED BY <1>1, <2>1
<1>11. ch'.mode = "basic" => Cached(ch', got', taken')
  BY <1>1 DEF IInv
<1> QED BY <1>6, <1>9, <1>10, <1>11 DEF IInv

\* DTAP_DataRecv in stream mode.
LEMMA RecvStreamInv ==
  ASSUME IInv, NEW f \in net, ch # NoChan, ch.mode = "stream", ~StreamRefuses(ch, f),
         Becomes(RecvStreamFrame(Here, f)), taken' = Append(taken, f.msg)
  PROVE  /\ ch' \in Channel /\ Len(ch'.rxList) <= CacheMax + 1 /\ ch'.mode = "stream"
         /\ timers' \in SUBSET Timer /\ IsFiniteSet(timers')
         /\ got' \in Seq(Msg) /\ taken' \in Seq(Msg)
         /\ Streaming(ch', got', Elements(taken'), sent, txSeq)
<1> DEFINE s == RecvStreamFrame(Here, f)
<1>1. /\ Here \in State /\ Here.c = ch /\ got \in Seq(Msg) /\ taken \in Seq(Msg)
      /\ clock \in 0 .. MaxClock /\ sent \in 0 .. MaxMsg /\ txSeq \in SeqNum
      /\ Alive(Here, got, Elements(taken), sent, txSeq)
  BY HereState
<1>2. f \in Frame /\ f.msg \in Msg
  BY DEF IInv, Typed, TypeOK, Frame
<1>3. OnLink(f, sent, txSeq)
  BY <1>2 DEF OnLink, IInv, Link
<1>4. s \in State /\ Alive(s, got, With(Elements(taken), f.msg), sent, txSeq)
  BY <1>1, <1>3, StreamFrame
<1> HIDE DEF s
<1>5. /\ Streaming(s.c, HandedOver(got, s), With(Elements(taken), f.msg), sent, txSeq)
      /\ s.c.mode = "stream" /\ Len(s.c.rxList) <= CacheMax + 1
  BY <1>4, AliveStreams
<1>6. /\ ch' \in Channel /\ ch' = s.c /\ timers' \in SUBSET Timer /\ IsFiniteSet(timers')
      /\ got' \in Seq(Msg) /\ got' = HandedOver(got, s)
  <2>1. Becomes(s)
    BY DEF s
  <2> QED BY <1>1, <1>4, <2>1, HandlerLeaves
<1>7. taken' \in Seq(Msg) /\ Elements(taken') = With(Elements(taken), f.msg)
  <2>1. PICK h \in Seq(Msg) :
          h = Append(taken, f.msg) /\ Elements(h) = Elements(taken) \cup {f.msg}
    BY <1>1, <1>2, Appended
  <2>2. taken' = h
    BY <2>1
  <2> QED BY <2>1, <2>2 DEF With
<1> QED BY <1>5, <1>6, <1>7

\* DTAP_DataRecv in basic mode.
LEMMA RecvBasicInv ==
  ASSUME IInv, NEW f \in net, ch # NoChan, ch.mode = "basic", ~BasicRefuses(ch),
         Becomes(RecvBasicFrame(Here, f)), taken' = Append(taken, f.msg)
  PROVE  /\ ch' \in Channel /\ Len(ch'.rxList) <= CacheMax + 1 /\ ch'.mode = "basic"
         /\ timers' \in SUBSET Timer /\ IsFiniteSet(timers')
         /\ got' \in Seq(Msg) /\ taken' \in Seq(Msg)
         /\ Cached(ch', got', taken')
<1> DEFINE s == RecvBasicFrame(Here, f)
           x == [seq |-> f.seq, msg |-> f.msg, timeStamp |-> clock]
<1>1. /\ Here \in State /\ Here.c = ch /\ got \in Seq(Msg) /\ taken \in Seq(Msg)
      /\ clock \in 0 .. MaxClock /\ Cached(Here.c, HandedOver(got, Here), taken)
  BY HereState
<1>2. /\ f \in Frame /\ f.msg \in Msg /\ ch \in Channel /\ Len(ch.rxList) <= CacheMax + 1
      /\ Len(ch.rxList) \in Nat
  BY ChannelOrNone, Nodes DEF IInv, Typed, TypeOK, Frame
<1>3. x \in RxNode /\ x.msg = f.msg
  BY <1>1, <1>2 DEF Frame, RxNode
<1>4. /\ s \in State /\ s.c.mode = "basic" /\ Len(s.c.rxList) <= CacheMax + 1
      /\ Cached(s.c, HandedOver(got, s), Append(taken, f.msg))
  <2>1. CASE ch.isReady
    <3>1. s = RecvCallback(Here, f.msg)
      BY <1>1, <2>1 DEF RecvBasicFrame
    <3>2. RecvCallback(Here, f.msg) \in State /\ RecvCallback(Here, f.msg).c = ch
      BY <1>1, <1>2, CallbackHands
    <3>3. Cached(RecvCallback(Here, f.msg).c, HandedOver(got, RecvCallback(Here, f.msg)), Append(taken, f.msg))
      BY <1>1, <1>2, <2>1, ReadyFrame
    <3> QED BY <1>2, <3>1, <3>2, <3>3
  <2>2. CASE ~ch.isReady
    <3> DEFINE r == [Here EXCEPT !.c.rxList = Append(@, x)]
    <3>1. s = r
      BY <1>1, <2>2 DEF RecvBasicFrame
    <3>2. /\ r \in State /\ r.c.mode = ch.mode /\ Len(r.c.rxList) = Len(ch.rxList) + 1
          /\ Cached(r.c, HandedOver(got, r), Append(taken, x.msg))
      <4> HIDE DEF x
      <4> QED BY <1>1, <1>3, <2>2, CachedFrame
    <3> HIDE DEF r, s, x
    <3>3. Len(ch.rxList) + 1 <= CacheMax + 1
      BY <1>2, <2>2, MsgFacts DEF BasicRefuses
    <3> QED BY <1>3, <3>1, <3>2, <3>3
  <2> QED BY <2>1, <2>2
<1> HIDE DEF s
<1>5. /\ ch' \in Channel /\ ch' = s.c /\ timers' \in SUBSET Timer /\ IsFiniteSet(timers')
      /\ got' \in Seq(Msg) /\ got' = HandedOver(got, s)
  <2>1. Becomes(s)
    BY DEF s
  <2> QED BY <1>1, <1>4, <2>1, HandlerLeaves
<1>6. taken' \in Seq(Msg)
  BY <1>1, <1>2, AppendProperties
<1> QED BY <1>4, <1>5, <1>6

\* DTAP_DataRecv in transparent mode.
LEMMA RecvTransparentInv ==
  ASSUME IInv, NEW f \in net, ch # NoChan,
         Becomes(RecvCallback(Here, f.msg)), taken' = Append(taken, f.msg)
  PROVE  /\ ch' = ch /\ timers' \in SUBSET Timer /\ IsFiniteSet(timers')
         /\ got' \in Seq(Msg) /\ taken' \in Seq(Msg)
<1>1. /\ Here \in State /\ Here.c = ch /\ got \in Seq(Msg) /\ taken \in Seq(Msg)
  BY HereState
<1>2. f.msg \in Msg
  BY DEF IInv, Typed, TypeOK, Frame
<1>3. RecvCallback(Here, f.msg) \in State /\ RecvCallback(Here, f.msg).c = ch
  BY <1>1, <1>2, CallbackHands
<1>4. taken' \in Seq(Msg)
  BY <1>1, <1>2, AppendProperties
<1> QED BY <1>1, <1>3, <1>4, HandlerLeaves

\* DTAP_DataRecv
LEMMA RecvInv ==
  ASSUME IInv, NEW f \in net, Recv(f)
  PROVE  IInv'
<1>1. /\ ch # NoChan /\ net' \subseteq net /\ UNCHANGED <<txSeq, clock, tasks, sent, opens>>
  BY DEF Recv
<1>2. /\ ch \in Channel /\ Len(ch.rxList) <= CacheMax + 1 /\ ch.mode \in Modes
      /\ timers \in SUBSET Timer /\ IsFiniteSet(timers) /\ sent \in 0 .. MaxMsg
      /\ clock \in 0 .. MaxClock /\ net \subseteq Frame /\ tasks \in Nat /\ txSeq \in SeqNum
      /\ got \in Seq(Msg) /\ taken \in Seq(Msg)
  BY <1>1, ChannelOrNone DEF IInv, Typed, TypeOK
<1>3. /\ ch' \in Channel /\ Len(ch'.rxList) <= CacheMax + 1 /\ ch'.mode = ch.mode
      /\ timers' \in SUBSET Timer /\ IsFiniteSet(timers')
      /\ got' \in Seq(Msg) /\ taken' \in Seq(Msg)
      /\ ch.mode = "stream" => Streaming(ch', got', Elements(taken'), sent, txSeq)
      /\ ch.mode = "basic" => Cached(ch', got', taken')
  <2>1. CASE UNCHANGED <<ch, timers, taken, got>>
    BY <1>2, <2>1 DEF IInv
  <2>2. CASE /\ ch.mode = "stream" /\ ~StreamRefuses(ch, f)
             /\ Becomes(RecvStreamFrame(Here, f)) /\ taken' = Append(taken, f.msg)
    BY <1>1, <2>2, RecvStreamInv
  <2>3. CASE /\ ch.mode = "basic" /\ ~BasicRefuses(ch)
             /\ Becomes(RecvBasicFrame(Here, f)) /\ taken' = Append(taken, f.msg)
    BY <1>1, <2>3, RecvBasicInv
  <2>4. CASE /\ ch.mode = "transparent"
             /\ Becomes(RecvCallback(Here, f.msg)) /\ taken' = Append(taken, f.msg)
    BY <1>1, <1>2, <2>4, RecvTransparentInv
  <2> QED BY <2>1, <2>2, <2>3, <2>4 DEF Recv
<1>4. ch' # NoChan /\ ch' \in Channel \cup {NoChan}
  BY <1>3, ChannelOrNone
<1>5. Typed'
  <2>1. net' \subseteq Frame
    BY <1>1, <1>2
  <2> QED BY <1>1, <1>2, <1>3, <1>4, <2>1, TypedNext
<1>6. Link'
  <2>1. /\ ch.mode = "stream" => \A x \in net : OnLine(x, sent, txSeq)
        /\ \A x \in net : x.msg + Depth > sent \/ x.msg = sent
    BY <1>1 DEF IInv, Link
  <2> QED BY <1>1, <1>3, <1>4, <2>1 DEF Link
<1> QED BY <1>1, <1>3, <1>5, <1>6 DEF IInv

\* DTAP_LogicLinkStateChangeCbk
LEMMA LinkConnectedInv ==
  ASSUME IInv, LinkConnected
  PROVE  IInv'
<1> DEFINE s == RecvBasicFrameContinue(Here)
<1>1. /\ ch # NoChan /\ ch.mode = "basic" /\ Becomes(s)
      /\ UNCHANGED <<txSeq, net, clock, tasks, sent, dups, opens, taken>>
  BY DEF LinkConnected
<1>2. /\ Here \in State /\ Here.c = ch /\ got \in Seq(Msg) /\ taken \in Seq(Msg)
      /\ clock \in 0 .. MaxClock /\ sent \in 0 .. MaxMsg /\ txSeq \in SeqNum
      /\ Cached(Here.c, HandedOver(got, Here), taken)
  BY <1>1, HereState
<1>3. /\ s \in State /\ s.c.mode = "basic" /\ Len(s.c.rxList) = 0
      /\ Cached(s.c, HandedOver(got, s), taken)
  BY <1>1, <1>2, CacheEmptied
<1> HIDE DEF s
<1>4. /\ ch' \in Channel /\ ch' = s.c /\ ch' # NoChan
      /\ timers' \in SUBSET Timer /\ IsFiniteSet(timers')
      /\ got' \in Seq(Msg) /\ got' = HandedOver(got, s)
  BY <1>1, <1>2, <1>3, HandlerLeaves
<1>5. Typed'
  <2>1. net \subseteq Frame /\ tasks \in Nat /\ 0 <= CacheMax + 1
    BY MsgFacts DEF IInv, Typed, TypeOK
  <2> QED BY <1>1, <1>2, <1>3, <1>4, <2>1, TypedNext
<1>6. Link'
  BY <1>1, <1>3, <1>4 DEF IInv, Link
<1> QED BY <1>1, <1>3, <1>4, <1>5, <1>6 DEF IInv

\* TimerProc
LEMMA FireInv ==
  ASSUME IInv, NEW t \in timers, Fire(t)
  PROVE  IInv'
<1>1. /\ timers' = timers \ {t} /\ tasks' = tasks + 1
      /\ UNCHANGED <<ch, txSeq, net, clock, sent, dups, opens, taken, got>>
  BY DEF Fire
<1>2. timers' \in SUBSET Timer /\ IsFiniteSet(timers') /\ tasks' \in Nat
  BY <1>1, FS_RemoveElement DEF IInv, Typed, TypeOK
<1>3. Typed'
  BY <1>1, <1>2, TypedNext DEF IInv, Typed, TypeOK
<1> QED BY <1>1, <1>3 DEF IInv, Link

\* DTAP_ReorderStreamFrameTask, which finds the channel by lcid and tcid.
LEMMA RunTaskInv ==
  ASSUME IInv, RunTask
  PROVE  IInv'
<1>1. tasks' = tasks - 1 /\ tasks' \in Nat /\ UNCHANGED <<txSeq, net, clock, sent, dups, opens, taken>>
  BY DEF RunTask, IInv, Typed, TypeOK
<1>2. CASE ch.mode = "stream"
  <2> DEFINE s == ReorderStreamFrameTask(Here)
  <2>1. ch # NoChan /\ Becomes(s)
    BY <1>2 DEF RunTask, NoChan
  <2>2. /\ Here \in State /\ Here.c = ch /\ got \in Seq(Msg) /\ taken \in Seq(Msg)
        /\ clock \in 0 .. MaxClock /\ sent \in 0 .. MaxMsg /\ txSeq \in SeqNum
        /\ Alive(Here, got, Elements(taken), sent, txSeq)
    BY <1>2, <2>1, HereState
  <2>3. s \in State /\ Alive(s, got, Elements(taken), sent, txSeq)
    BY <2>2, ReorderTaskAlive
  <2> HIDE DEF s
  <2>4. /\ Streaming(s.c, HandedOver(got, s), Elements(taken), sent, txSeq)
        /\ s.c.mode = "stream" /\ Len(s.c.rxList) <= CacheMax + 1
    BY <2>3, AliveStreams
  <2>5. /\ ch' \in Channel /\ ch' = s.c /\ ch' # NoChan
        /\ timers' \in SUBSET Timer /\ IsFiniteSet(timers')
        /\ got' \in Seq(Msg) /\ got' = HandedOver(got, s)
    BY <2>1, <2>2, <2>3, HandlerLeaves
  <2>6. Typed'
    <3>1. net \subseteq Frame
      BY DEF IInv, Typed, TypeOK
    <3> QED BY <1>1, <2>2, <2>4, <2>5, <3>1, TypedNext
  <2>7. Link'
    BY <1>1, <1>2, <2>1, <2>4, <2>5 DEF IInv, Link
  <2> QED BY <1>1, <2>4, <2>5, <2>6, <2>7 DEF IInv
<1>3. CASE ch.mode # "stream"
  <2>1. UNCHANGED <<ch, timers, got>>
    BY <1>3 DEF RunTask
  <2>2. Typed'
    BY <1>1, <2>1, TypedNext DEF IInv, Typed, TypeOK
  <2> QED BY <1>1, <2>1, <2>2 DEF IInv, Link
<1> QED BY <1>2, <1>3

\* Time passes.
LEMMA TickInv ==
  ASSUME IInv, Tick
  PROVE  IInv'
<1>1. /\ clock < MaxClock /\ clock' = clock + 1
      /\ UNCHANGED <<ch, txSeq, net, timers, tasks, sent, dups, opens, taken, got>>
  BY DEF Tick
<1>2. clock' \in 0 .. MaxClock
  BY <1>1, MsgFacts DEF IInv, Typed
<1>3. Typed'
  BY <1>1, <1>2, TypedNext DEF IInv, Typed, TypeOK
<1> QED BY <1>1, <1>3 DEF IInv, Link

\* Every step keeps the invariant.
LEMMA NextInv == IInv /\ [Next]_vars => IInv'
<1> SUFFICES ASSUME IInv, [Next]_vars PROVE IInv'
  OBVIOUS
<1>1. CASE UNCHANGED vars
  BY <1>1 DEF vars, IInv, Typed, TypeOK, Link
<1>2. CASE Next
  <2>1. CASE \E mode \in Modes, smtc \in BOOLEAN : Open(mode, smtc)
    BY <2>1, OpenInv
  <2>2. CASE \E f \in net : Recv(f)
    BY <2>2, RecvInv
  <2>3. CASE \E t \in timers : Fire(t)
    BY <2>3, FireInv
  <2> QED BY <1>2, <2>1, <2>2, <2>3, CloseInv, SendInv, LinkConnectedInv, RunTaskInv, TickInv DEF Next
<1> QED BY <1>1, <1>2

-----------------------------------------------------------------------------
(***************************************************************************)
(* What follows from the invariant.                                        *)
(***************************************************************************)
\* Sequences are of their elements.
LEMMA SetOfSeq ==
  ASSUME NEW S, NEW g \in Seq(S)
  PROVE  Seqs!ToSet(g) = Elements(g)
BY LenProperties DEF Seqs!ToSet, Elements

\* The messages that are held.
LEMMA HeldFacts ==
  ASSUME ch \in Channel
  PROVE  /\ Held = Msgs(ch.rxList, Len(ch.rxList))
         /\ Seqs!ToSet(Held) = {ch.rxList[i].msg : i \in 1 .. Len(ch.rxList)}
<1>1. Held = [i \in 1 .. Len(ch.rxList) |-> ch.rxList[i].msg]
  BY Nodes DEF Held
<1>2. Seqs!ToSet([i \in 1 .. Len(ch.rxList) |-> ch.rxList[i].msg])
        = {ch.rxList[i].msg : i \in 1 .. Len(ch.rxList)}
  BY DEF Seqs!ToSet
<1> QED BY <1>1, <1>2 DEF Msgs

\* No frame that could be handed over is kept.
LEMMA InvHolds == IInv => NothingReadyIsHeld
<1> SUFFICES ASSUME IInv PROVE NothingReadyIsHeld
  OBVIOUS
<1>1. ASSUME ch.mode = "stream", Silent(ch, got, Elements(taken))
      PROVE  DOMAIN ch.rxList = {} /\ \A i \in 1 .. Len(ch.rxList) - 1 : FALSE
  <2>1. ch.rxList = <<>> /\ DOMAIN <<>> = {} /\ Len(<<>>) = 0
    BY <1>1, EmptySeq DEF Silent
  <2> QED BY <2>1
<1>2. ASSUME ch.mode = "stream", Flows(ch, got, Elements(taken), sent, txSeq), Gap(ch)
      PROVE  LET rx == ch.rxList IN
               /\ \A i \in DOMAIN rx : /\ rx[i].seq # ch.expectedSeq
                                       /\ ~IsFrameSeqSmaller(rx[i].seq, ch.expectedSeq)
               /\ \A i \in 1 .. Len(rx) - 1 : IsFrameSeqSmaller(rx[i].seq, rx[i + 1].seq)
  <2> DEFINE rx == ch.rxList
             b == ch.expectedSeq
  <2>1. /\ ch \in Channel /\ b \in SeqNum
        /\ \A i \in 1 .. Len(rx) : Behind(b, rx[i].seq) < SignMask /\ rx[i].seq # b
        /\ \A i, j \in 1 .. Len(rx) : i < j => Behind(b, rx[i].seq) < Behind(b, rx[j].seq)
    BY <1>2 DEF Flows, Sorted, Gap
  <2>2. /\ DOMAIN rx = 1 .. Len(rx) /\ Len(rx) \in Nat
        /\ \A i \in 1 .. Len(rx) : rx[i].seq \in SeqNum
    BY <2>1, Nodes
  <2> HIDE DEF rx, b
  <2>3. \A i \in 1 .. Len(rx) : ~IsFrameSeqSmaller(rx[i].seq, b)
    BY <2>1, <2>2, NotSmaller
  <2>4. ASSUME NEW i \in 1 .. Len(rx) - 1 PROVE IsFrameSeqSmaller(rx[i].seq, rx[i + 1].seq)
    <3>1. i \in 1 .. Len(rx) /\ i + 1 \in 1 .. Len(rx) /\ i < i + 1
      BY <2>2
    <3> QED BY <3>1, <2>1, <2>2, BehindSmaller
  <2> QED BY <2>1, <2>2, <2>3, <2>4 DEF rx, b
<1>3. ch.mode = "stream" => \/ Silent(ch, got, Elements(taken))
                            \/ Flows(ch, got, Elements(taken), sent, txSeq) /\ Gap(ch)
  BY DEF IInv, Streaming
<1>4. ch.mode = "basic" /\ ch.isReady => ch.rxList = <<>>
  BY DEF IInv, Cached
<1> QED BY <1>1, <1>2, <1>3, <1>4 DEF NothingReadyIsHeld

\* What was accepted is handed over or held.
LEMMA InvKeeps == IInv => AcceptedIsKept
<1> SUFFICES ASSUME IInv PROVE AcceptedIsKept
  OBVIOUS
<1>1. /\ got \in Seq(Msg) /\ taken \in Seq(Msg)
  BY DEF IInv, Typed
<1>2. Seqs!ToSet(got) = Elements(got) /\ Seqs!ToSet(taken) = Elements(taken)
  BY <1>1, SetOfSeq
<1>3. ASSUME ch.mode = "stream"
      PROVE  Seqs!ToSet(taken) = Seqs!ToSet(got) \cup Seqs!ToSet(Held)
  <2>1. ch \in Channel
    BY <1>3 DEF IInv, Streaming, Silent, Flows
  <2>2. Kept(ch, got, Elements(taken))
    <3>1. CASE Silent(ch, got, Elements(taken))
      <4>1. Len(<<>>) = 0 /\ Elements(<<>>) = {}
        BY EmptySeq DEF Elements
      <4>2. got = <<>> /\ ch.rxList = <<>> /\ Elements(taken) = {}
        BY <3>1 DEF Silent
      <4>3. {ch.rxList[i].msg : i \in 1 .. Len(ch.rxList)} = {}
        BY <4>1, <4>2
      <4> QED BY <4>1, <4>2, <4>3 DEF Kept
    <3>2. CASE Flows(ch, got, Elements(taken), sent, txSeq)
      BY <3>2 DEF Flows
    <3> QED BY <1>3, <3>1, <3>2 DEF IInv, Streaming
  <2> QED BY <1>2, <2>1, <2>2, HeldFacts DEF Kept
<1>4. ASSUME ch.mode = "basic"
      PROVE  taken = got \o Held
  <2>1. ch \in Channel /\ Cached(ch, got, taken)
    BY <1>4, ChannelOrNone DEF IInv, NoChan
  <2> QED BY <2>1, HeldFacts DEF Cached
<1> QED BY <1>3, <1>4 DEF AcceptedIsKept

\* What was handed over is in the order it was sent in.
LEMMA InvOrders == IInv /\ Depth <= SignMask => ReportedInOrder
<1> SUFFICES ASSUME IInv, Depth <= SignMask, ch.mode = "stream"
             PROVE  \A i, j \in DOMAIN got : i < j => got[i] < got[j]
  BY DEF ReportedInOrder
<1>1. DOMAIN got = 1 .. Len(got)
  BY LenProperties DEF IInv, Typed
<1>2. CASE Silent(ch, got, Elements(taken))
  <2>1. DOMAIN <<>> = {}
    OBVIOUS
  <2> QED BY <1>2, <2>1 DEF Silent
<1>3. CASE Flows(ch, got, Elements(taken), sent, txSeq)
  BY <1>1, <1>3 DEF Flows, InLine
<1> QED BY <1>2, <1>3 DEF IInv, Streaming

\* The invariant holds in every state of every behaviour.
LEMMA AlwaysInv == Spec => []IInv
BY InitInv, NextInv, PTL DEF Spec

\* The receive side of the modes without retransmission keeps its shape: no list grows
\* beyond its maximum by more than the one frame that the comparison lets pass.
THEOREM TypeCorrect == Spec => []TypeOK
<1>1. IInv => TypeOK
  BY DEF IInv, Typed
<1> QED BY <1>1, AlwaysInv, PTL

\* Stream mode holds only frames beyond a gap, sorted, and a ready channel of basic mode
\* none, for every cache size, reorder timeout and link: DTAP_ReportExpectedStreamFrame
\* leaves no frame behind that could be handed over.
THEOREM NothingReadyAlwaysHeld == Spec => []NothingReadyIsHeld
BY InvHolds, AlwaysInv, PTL

\* No accepted frame is lost between DTAP_RecvStreamFrame or DTAP_RecvBasicFrame and the
\* upper layer, whatever timers and tasks do in between.
THEOREM AcceptedAlwaysKept == Spec => []AcceptedIsKept
BY InvKeeps, AlwaysInv, PTL

\* Stream mode hands messages over at most once and in order, on a link that delays a
\* frame by less than half the sequence numbers: one that comes later than that would be
\* taken for a new one by DTAP_IsFrameSeqSmaller.
THEOREM ReportedAlwaysInOrder ==
  ASSUME Depth <= SignMask
  PROVE  Spec => []ReportedInOrder
<1>1. IInv => ReportedInOrder
  BY InvOrders
<1> QED BY <1>1, AlwaysInv, PTL

=============================================================================
