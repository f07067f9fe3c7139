--------------------------- MODULE DtapSeqProofs ---------------------------
(***************************************************************************)
(* The arithmetic of sequence numbers, for every width: a window shorter   *)
(* than half the number space can be compared, indexed and acknowledged as *)
(* if its numbers did not wrap.  Also what loops over a list need: the     *)
(* least number of a set, the longest prefix of a list.                    *)
(***************************************************************************)
EXTENDS DtapSeq, NaturalsInduction, WellFoundedInduction, SequenceTheorems, TLAPS

\* The constants of DtapSeq, without division.
LEMMA SeqModFacts ==
  /\ SeqMod \in Nat /\ SeqMod >= 4
  /\ SignMask \in Nat /\ 2 * SignMask = SeqMod
  /\ SeqNum = 0 .. SeqMod - 1
  /\ SEQ_INIT = SeqMod
BY SeqMaxAssumption DEF SeqMod, SignMask, SeqNum, SEQ_INIT

\* SeqAdd without the modulus, for less than one turn of the number space.
LEMMA SeqAddValue ==
  ASSUME NEW a \in SeqNum, NEW k \in 0 .. SeqMod
  PROVE  SeqAdd(a, k) = IF a + k < SeqMod THEN a + k ELSE a + k - SeqMod
BY SeqModFacts DEF SeqAdd

\* A sum of sequence numbers is a sequence number.
LEMMA SeqAddType ==
  ASSUME NEW a \in SeqNum, NEW k \in Nat
  PROVE  SeqAdd(a, k) \in SeqNum
BY SeqModFacts DEF SeqAdd

\* GetNextFrameSeq is one step of SeqAdd.
LEMMA NextIsSeqAdd ==
  ASSUME NEW a \in SeqNum
  PROVE  GetNextFrameSeq(a) = SeqAdd(a, 1) /\ GetNextFrameSeq(a) \in SeqNum
<1>1. 1 \in 0 .. SeqMod
  BY SeqModFacts
<1>2. SeqAdd(a, 1) = IF a + 1 < SeqMod THEN a + 1 ELSE a + 1 - SeqMod
  BY <1>1, SeqAddValue
<1>3. SeqMax = SeqMod - 1
  BY SeqMaxAssumption DEF SeqMod
<1>4. GetNextFrameSeq(a) = SeqAdd(a, 1)
  BY <1>2, <1>3, SeqModFacts DEF GetNextFrameSeq
<1>5. SeqAdd(a, 1) \in SeqNum
  BY SeqAddType
<1> QED BY <1>4, <1>5

\* DTAP_IsFrameSeqSmaller without the modulus.
LEMMA SmallerValue ==
  ASSUME NEW a \in SeqNum, NEW b \in SeqNum
  PROVE  IsFrameSeqSmaller(a, b) <=>
           (IF a >= b THEN a - b ELSE a - b + SeqMod) >= SignMask
BY SeqModFacts DEF IsFrameSeqSmaller

\* Steps of SeqAdd add up.
LEMMA SeqAddAdd ==
  ASSUME NEW a \in SeqNum, NEW j \in Nat, NEW k \in Nat, j + k <= SeqMod
  PROVE  SeqAdd(SeqAdd(a, j), k) = SeqAdd(a, j + k)
<1> DEFINE b == SeqAdd(a, j)
<1>0. j \in 0 .. SeqMod /\ k \in 0 .. SeqMod /\ j + k \in 0 .. SeqMod
  BY SeqModFacts
<1>1. b \in SeqNum /\ b = IF a + j < SeqMod THEN a + j ELSE a + j - SeqMod
  BY <1>0, SeqAddValue, SeqAddType
<1>2. SeqAdd(b, k) = IF b + k < SeqMod THEN b + k ELSE b + k - SeqMod
  BY <1>0, <1>1, SeqAddValue
<1>3. SeqAdd(a, j + k) = IF a + (j + k) < SeqMod THEN a + (j + k) ELSE a + (j + k) - SeqMod
  BY <1>0, SeqAddValue
<1> HIDE DEF b
<1>4. SeqAdd(b, k) = SeqAdd(a, j + k)
  BY <1>1, <1>2, <1>3, SeqModFacts
<1> QED BY <1>4 DEF b

\* How far number q is behind number next.
Behind(q, next) == IF next >= q THEN next - q ELSE next - q + SeqMod

\* Adding nothing.
LEMMA SeqAddZero ==
  ASSUME NEW a \in SeqNum
  PROVE  SeqAdd(a, 0) = a
BY SeqModFacts, SeqAddValue

\* Inside a window shorter than half the number space, "smaller" is the order of the
\* positions.
LEMMA SmallerInWindow ==
  ASSUME NEW a \in SeqNum, NEW i \in 0 .. SignMask - 1, NEW j \in 0 .. SignMask - 1
  PROVE  IsFrameSeqSmaller(SeqAdd(a, i), SeqAdd(a, j)) <=> i < j
<1> DEFINE x == SeqAdd(a, i)
           y == SeqAdd(a, j)
<1>0. /\ i \in 0 .. SeqMod /\ j \in 0 .. SeqMod
      /\ i \in Nat /\ j \in Nat
  BY SeqModFacts
<1>1. x \in SeqNum /\ x = IF a + i < SeqMod THEN a + i ELSE a + i - SeqMod
  BY <1>0, SeqAddValue, SeqAddType
<1>2. y \in SeqNum /\ y = IF a + j < SeqMod THEN a + j ELSE a + j - SeqMod
  BY <1>0, SeqAddValue, SeqAddType
<1>3. IsFrameSeqSmaller(x, y) <=>
        (IF x >= y THEN x - y ELSE x - y + SeqMod) >= SignMask
  BY <1>1, <1>2, SmallerValue
<1> HIDE DEF x, y
<1>4. ((IF x >= y THEN x - y ELSE x - y + SeqMod) >= SignMask) <=> i < j
  BY <1>1, <1>2, SeqModFacts
<1>5. IsFrameSeqSmaller(x, y) <=> i < j
  BY <1>3, <1>4
<1> QED BY <1>5 DEF x, y

\* An acknowledgement that DTAP_SlideTxWindow accepts points into the window.
LEMMA AckDistance ==
  ASSUME NEW a \in SeqNum, NEW r \in SeqNum, NEW len \in 1 .. SignMask - 1,
         \/ IsFrameSeqSmaller(a, r) /\ IsFrameSeqSmaller(r, SeqAdd(a, len))
         \/ r = SeqAdd(a, len)
  PROVE  \E d \in 1 .. len : r = SeqAdd(a, d)
<1> DEFINE n == SeqAdd(a, len)
           d == IF r >= a THEN r - a ELSE r - a + SeqMod
<1>0. len \in 0 .. SeqMod /\ len \in Nat
  BY SeqModFacts
<1>1. n \in SeqNum /\ n = IF a + len < SeqMod THEN a + len ELSE a + len - SeqMod
  BY <1>0, SeqAddValue, SeqAddType
<1>2. d \in 0 .. SeqMod - 1
  BY SeqModFacts
<1>3. r = SeqAdd(a, d)
  BY <1>2, SeqModFacts, SeqAddValue
<1>4. CASE r = n
  BY <1>4
<1>5. CASE IsFrameSeqSmaller(a, r) /\ IsFrameSeqSmaller(r, n)
  <2>1. (IF a >= r THEN a - r ELSE a - r + SeqMod) >= SignMask
    BY <1>5, SmallerValue
  <2>2. (IF r >= n THEN r - n ELSE r - n + SeqMod) >= SignMask
    BY <1>5, <1>1, SmallerValue
  <2> HIDE DEF n
  <2>3. d \in 1 .. len
    BY <2>1, <2>2, <1>1, SeqModFacts
  <2> QED BY <2>3, <1>3
<1> QED BY <1>4, <1>5
-----------------------------------------------------------------------------
\* A function on 1 .. n is a sequence.
LEMMA FunctionIsSeq ==
  ASSUME NEW S, NEW n \in Nat, NEW f \in [1 .. n -> S]
  PROVE  f \in Seq(S) /\ Len(f) = n
BY LenProperties, SeqDef

\* A set of natural numbers that is not empty has a least element.
LEMMA LeastNat ==
  ASSUME NEW T \in SUBSET Nat, T # {}
  PROVE  \E m \in T : \A k \in T : m <= k
<1> DEFINE R == {ss \in Nat \X Nat : ss[1] < ss[2]}
<1>1. \E x \in T : \A y \in T : ~(<<y, x>> \in OpToRel(<, Nat))
  BY NatLessThanWellFounded, WFMin
<1>2. \E x \in T : \A y \in T : ~(<<y, x>> \in R)
  BY <1>1, Zenon DEF OpToRel
<1>3. ASSUME NEW x \in Nat, NEW y \in Nat, y < x
      PROVE  <<y, x>> \in R
  BY <1>3
<1>4. PICK x \in T : \A y \in T : ~(<<y, x>> \in R)
  BY <1>2
<1>5. \A y \in T : ~(y < x)
  BY <1>3, <1>4
<1> QED BY <1>5

\* A set of positions has a longest prefix: what the loops over a list stop at.
LEMMA LongestPrefix ==
  ASSUME NEW len \in Nat, NEW P \in SUBSET (1 .. len)
  PROVE  \E n \in 0 .. len : (\A j \in 1 .. n : j \in P) /\ (n < len => (n + 1) \notin P)
<1> DEFINE T == (1 .. len + 1) \ P
<1>1. T \in SUBSET Nat /\ len + 1 \in T
  OBVIOUS
<1>2. PICK m \in T : \A k \in T : m <= k
  BY <1>1, LeastNat
<1>3. m - 1 \in 0 .. len
  BY <1>1
<1>4. \A j \in 1 .. (m - 1) : j \in P
  BY <1>2, <1>3, <1>1
<1>5. (m - 1) < len => (m - 1) + 1 \notin P
  BY <1>2
<1> QED BY <1>3, <1>4, <1>5

\* f put into a list after its first c elements.
InsertAfter(list, c, f) == SubSeq(list, 1, c) \o <<f>> \o SubSeq(list, c + 1, Len(list))

\* The elements of the longer list.
LEMMA Inserted ==
  ASSUME NEW S, NEW list \in Seq(S), NEW f \in S, NEW c \in 0 .. Len(list)
  PROVE  /\ InsertAfter(list, c, f) \in Seq(S) /\ Len(InsertAfter(list, c, f)) = Len(list) + 1
         /\ \A i \in 1 .. Len(list) + 1 :
              InsertAfter(list, c, f)[i] =
                IF i <= c THEN list[i] ELSE IF i = c + 1 THEN f ELSE list[i - 1]
<1> DEFINE len == Len(list)
           front == SubSeq(list, 1, c)
           back == SubSeq(list, c + 1, len)
           h == InsertAfter(list, c, f)
<1>1. len \in Nat /\ c \in Nat /\ c <= len
  BY LenProperties
<1>5. /\ front \in Seq(S) /\ Len(front) = c
      /\ \A i \in 1 .. c : front[i] = list[i]
  <2>1. \A i \in 1 .. c : list[i] \in S
    BY <1>1, ElementOfSeq
  <2>2. /\ front \in Seq(S)
        /\ Len(front) = IF 1 <= c THEN c - 1 + 1 ELSE 0
        /\ \A i \in 1 .. c - 1 + 1 : front[i] = list[1 + i - 1]
    BY <1>1, <2>1, SubSeqProperties
  <2> HIDE DEF front
  <2> QED BY <1>1, <2>2
<1>6. /\ back \in Seq(S) /\ Len(back) = len - c
      /\ \A i \in 1 .. len - c : back[i] = list[c + i]
  <2>1. \A i \in c + 1 .. len : list[i] \in S
    BY <1>1, ElementOfSeq
  <2> HIDE DEF len
  <2>2. /\ back \in Seq(S)
        /\ Len(back) = IF c + 1 <= len THEN len - (c + 1) + 1 ELSE 0
        /\ \A i \in 1 .. len - (c + 1) + 1 : back[i] = list[c + 1 + i - 1]
    BY <1>1, <2>1, SubSeqProperties
  <2> HIDE DEF back
  <2> QED BY <1>1, <2>2
<1> HIDE DEF front, back, len, h
<1>7. /\ <<f>> \in Seq(S) /\ Len(<<f>>) = 1 /\ <<f>>[1] = f
  OBVIOUS
<1>8. PICK g \in Seq(S) :
        /\ g = front \o <<f>> /\ Len(g) = c + 1
        /\ \A i \in 1 .. c : g[i] = list[i]
        /\ g[c + 1] = f
  <2> DEFINE u == front \o <<f>>
  <2>1. /\ u \in Seq(S) /\ Len(u) = c + 1
        /\ \A i \in 1 .. c + 1 : u[i] = IF i <= c THEN front[i] ELSE <<f>>[i - c]
    BY <1>5, <1>7, ConcatProperties
  <2> HIDE DEF u
  <2>2. c + 1 \in 1 .. c + 1 /\ (c + 1) - c = 1 /\ ~(c + 1 <= c) /\ 1 .. c \subseteq 1 .. c + 1
    BY <1>1
  <2>3. u[c + 1] = f
    BY <2>1, <2>2, <1>7
  <2>4. \A i \in 1 .. c : u[i] = list[i]
    BY <2>1, <2>2, <1>5
  <2> QED BY <2>1, <2>3, <2>4 DEF u
<1>9. h = g \o back
  BY <1>8 DEF front, back, len, h, InsertAfter
<1>10. /\ h \in Seq(S) /\ Len(h) = Len(g) + Len(back)
       /\ \A i \in 1 .. Len(g) + Len(back) :
            h[i] = IF i <= Len(g) THEN g[i] ELSE back[i - Len(g)]
  BY <1>6, <1>9, ConcatProperties
<1>11. Len(g) = c + 1 /\ Len(g) + Len(back) = len + 1
  <2>1. Len(g) = c + 1 /\ Len(back) = len - c
    BY <1>6, <1>8
  <2> QED BY <1>1, <2>1
<1>12. /\ Len(h) = len + 1
       /\ \A i \in 1 .. len + 1 : h[i] = IF i <= c + 1 THEN g[i] ELSE back[i - (c + 1)]
  BY <1>10, <1>11, Zenon
<1>13. ASSUME NEW i \in 1 .. len + 1
       PROVE  h[i] = IF i <= c THEN list[i] ELSE IF i = c + 1 THEN f ELSE list[i - 1]
  <2>1. CASE i <= c
    BY <2>1, <1>1, <1>8, <1>12
  <2>2. CASE i = c + 1
    BY <2>2, <1>1, <1>8, <1>12
  <2>3. CASE i > c + 1
    <3>1. i - (c + 1) \in 1 .. len - c /\ c + (i - (c + 1)) = i - 1
      BY <2>3, <1>1
    <3>2. back[i - (c + 1)] = list[i - 1]
      BY <3>1, <1>6
    <3> QED BY <2>3, <3>2, <1>1, <1>12
  <2> QED BY <2>1, <2>2, <2>3, <1>1
<1> QED BY <1>10, <1>12, <1>13 DEF len, h

\* The rest of a list without its first k elements.
LEMMA Dropped ==
  ASSUME NEW S, NEW list \in Seq(S), NEW k \in 0 .. Len(list), NEW t,
         t = SubSeq(list, k + 1, Len(list))
  PROVE  /\ t \in Seq(S) /\ Len(t) = Len(list) - k
         /\ \A i \in 1 .. Len(list) - k : t[i] = list[k + i]
<1>1. PICK len \in Nat : len = Len(list)
  BY LenProperties
<1>2. \A i \in k + 1 .. len : list[i] \in S
  BY <1>1, ElementOfSeq
<1>3. /\ t \in Seq(S)
      /\ Len(t) = IF k + 1 <= len THEN len - (k + 1) + 1 ELSE 0
      /\ \A i \in 1 .. len - (k + 1) + 1 : t[i] = list[k + 1 + i - 1]
  BY <1>1, <1>2, SubSeqProperties
<1>4. k \in Nat /\ k <= len
  BY <1>1
<1> QED BY <1>1, <1>3, <1>4
=============================================================================
