------------------------ MODULE DtapReliableProofs ------------------------
(***************************************************************************)
(* The two windows of the reliable mode, for every window size, threshold, *)
(* message size, link capacity and width of the sequence numbers: first    *)
(* the send window, then the messages, the receive window and delivery.    *)
(*                                                                         *)
(* The invariants are not inductive on their own: DropAcked frees the      *)
(* acknowledged frames only because txList is consecutive from             *)
(* expectedAckSeq, and the list is typed only because DropAcked is defined *)
(* on it.  So Good joins the type of a channel, the shape of its send      *)
(* window and the timer that watches it; one lemma per handler says that   *)
(* the handler maps a good channel to a good channel, and one step per     *)
(* action puts the handlers together.                                      *)
(***************************************************************************)
EXTENDS DtapReliable, DtapSeqProofs

\* Replacing one element of a sequence.
LEMMA ExceptList ==
  ASSUME NEW S, NEW q \in Seq(S), NEW i \in 1 .. Len(q), NEW g \in S,
         NEW list, list = [q EXCEPT ![i] = g]
  PROVE  /\ list \in Seq(S) /\ Len(list) = Len(q)
         /\ \A j \in 1 .. Len(q) : list[j] = IF j = i THEN g ELSE q[j]
BY ExceptSeq

\* The assumptions on the constants, in terms of the sign bit.
LEMMA WindowFacts ==
  /\ WinSize \in Nat /\ WinSize >= 1 /\ WinSize < SignMask /\ WinSize < SeqMod
  /\ PollingThreshold \in Nat
  /\ 0 \in 0 .. PollingThreshold
  /\ 0 \in SeqNum /\ SEQ_INIT \notin SeqNum
BY ReliableAssumption, SeqModFacts DEF PollingThreshold

\* A typed channel whose send window is consistent and watched.
Good(s) == s \in Channel /\ TxWindow(s) /\ TxLossIsWatched(s)

\* DTAP_ReliableChannelCreate makes a good channel.
LEMMA InitGood == Good(InitChannel)
<1>1. InitChannel \in Channel
  BY WindowFacts, EmptySeq, ReliableAssumption DEF InitChannel, Channel, NoMsg
<1>2. TxWindow(InitChannel)
  BY WindowFacts, EmptySeq, SeqAddZero DEF InitChannel, TxWindow
<1>3. TxLossIsWatched(InitChannel)
  BY DEF InitChannel, TxLossIsWatched
<1> QED BY <1>1, <1>2, <1>3 DEF Good

\* DTAP_SendFrame adds a frame to what is to be transmitted.
LEMMA SendFrameGood ==
  ASSUME NEW s, Good(s), NEW f \in AckFrame \cup DataFrame, NEW ok \in BOOLEAN
  PROVE  Good(SendFrame(s, f, ok))
<1>1. Append(s.out, f) \in Seq(AckFrame \cup DataFrame)
  BY AppendProperties DEF Good, Channel
<1>2. SendFrame(s, f, ok) \in Channel
  BY <1>1 DEF Good, Channel, SendFrame
<1>3. TxWindow(SendFrame(s, f, ok)) /\ TxLossIsWatched(SendFrame(s, f, ok))
  BY DEF Good, Channel, SendFrame, TxWindow, TxLossIsWatched
<1> QED BY <1>2, <1>3 DEF Good

\* DTAP_SendAckFrame acknowledges with a sequence number of the receive window.
LEMMA SendAckFrameGood ==
  ASSUME NEW s, Good(s), NEW sBit \in BOOLEAN, NEW ok \in BOOLEAN
  PROVE  Good(SendAckFrame(s, sBit, ok))
<1> DEFINE f == [type |-> "ack", sBit |-> sBit,
                 reqSeq |-> IF sBit THEN s.expectedTxSeq ELSE s.bufferSeq]
<1>1. f \in AckFrame
  BY DEF Good, Channel, AckFrame
<1>2. Good(SendFrame(s, f, ok))
  BY <1>1, SendFrameGood
<1> QED BY <1>2 DEF SendAckFrame

\* A record of the send window is a typed frame with the number of its position.
LEMMA TxListElement ==
  ASSUME NEW s, Good(s), NEW i \in 1 .. Len(s.txList)
  PROVE  /\ s.txList[i] \in TxFrame
         /\ s.txList[i].frame \in DataFrame
         /\ s.txList[i].reTxCnt \in 0 .. MaxTxThreshold
         /\ s.txList[i].frame.txSeq \in SeqNum
<1>1. s.txList[i] \in TxFrame
  BY ElementOfSeq DEF Good, Channel
<1> QED BY <1>1 DEF TxFrame, DataFrame

\* Changing a frame of the send window without its sequence number keeps the window.
LEMMA SetTxFrame ==
  ASSUME NEW s, Good(s), NEW i \in 1 .. Len(s.txList), NEW g \in TxFrame,
         g.frame.txSeq = s.txList[i].frame.txSeq
  PROVE  \E list \in Seq(TxFrame) :
           /\ list = [s.txList EXCEPT ![i] = g] /\ Len(list) = Len(s.txList)
           /\ \A j \in 1 .. Len(s.txList) : list[j].frame.txSeq = s.txList[j].frame.txSeq
<1>1. s.txList \in Seq(TxFrame)
  BY DEF Good, Channel
<1>2. /\ [s.txList EXCEPT ![i] = g] \in Seq(TxFrame)
      /\ Len([s.txList EXCEPT ![i] = g]) = Len(s.txList)
      /\ \A j \in 1 .. Len(s.txList) :
           [s.txList EXCEPT ![i] = g][j].frame.txSeq = s.txList[j].frame.txSeq
  BY <1>1, ExceptSeq
<1> QED BY <1>2

\* What the send window needs to stay consistent when only its frames' contents change.
LEMMA SameWindow ==
  ASSUME NEW s, Good(s), NEW r \in Channel,
         Len(r.txList) = Len(s.txList),
         \A j \in 1 .. Len(s.txList) : r.txList[j].frame.txSeq = s.txList[j].frame.txSeq,
         r.nextTxSeq = s.nextTxSeq, r.expectedAckSeq = s.expectedAckSeq,
         s.retransTimer => r.retransTimer
  PROVE  Good(r)
<1>1. TxWindow(r)
  BY DEF Good, TxWindow
<1>2. r.txList # << >> => s.txList # << >>
  BY EmptySeq DEF Good, Channel
<1> QED BY <1>1, <1>2 DEF Good, TxLossIsWatched

\* Setting the P bit keeps the sequence number.
LEMMA PolledFrame ==
  ASSUME NEW f \in DataFrame
  PROVE  /\ [f EXCEPT !.pBit = TRUE] \in DataFrame
         /\ [f EXCEPT !.pBit = TRUE].txSeq = f.txSeq
BY DEF DataFrame

\* DTAP_RetransEnhanceFrame keeps the window and only ever starts the timer.
LEMMA RetransGood ==
  ASSUME NEW s, Good(s), NEW ok \in BOOLEAN
  PROVE  /\ Good(RetransEnhanceFrame(s, ok))
         /\ RetransEnhanceFrame(s, ok).nextTxSeq = s.nextTxSeq
         /\ RetransEnhanceFrame(s, ok).expectedAckSeq = s.expectedAckSeq
         /\ RetransEnhanceFrame(s, ok).isRecvFrame = s.isRecvFrame
         /\ Len(RetransEnhanceFrame(s, ok).txList) = Len(s.txList)
<1> DEFINE i == TxIndex(s.txList, s.reTxSeq)
           t == s.txList[i]
           polled == [t.frame EXCEPT !.pBit = TRUE]
           result == RetransResult(s, ok)
           r == RetransEnhanceFrame(s, ok)
<1>0. result \in {"find_frame_err", "reach_max_re_tx_cnt", "success", "send_err"}
  BY DEF RetransResult
<1>1. CASE result = "find_frame_err"
  <2>1. r = s BY <1>1 DEF RetransEnhanceFrame
  <2> QED BY <2>1
<1>2. CASE result = "reach_max_re_tx_cnt"
  <2>1. r = [s EXCEPT !.isDestroyMsgSent = TRUE] BY <1>2 DEF RetransEnhanceFrame
  <2> QED BY <2>1 DEF Good, Channel, TxWindow, TxLossIsWatched
<1>3. ASSUME result \in {"success", "send_err"}
      PROVE  i \in 1 .. Len(s.txList) /\ (result = "success" => t.reTxCnt < MaxTxThreshold)
  <2>1. HasTxSeq(s.txList, s.reTxSeq)
    BY <1>3 DEF RetransResult
  <2>2. i \in DOMAIN s.txList
    BY <2>1 DEF HasTxSeq, TxIndex
  <2>3. DOMAIN s.txList = 1 .. Len(s.txList)
    BY LenProperties DEF Good, Channel
  <2>4. ~(t.reTxCnt >= MaxTxThreshold)
    BY <1>3 DEF RetransResult
  <2> QED BY <2>2, <2>3, <2>4, TxListElement, ReliableAssumption
<1>4. CASE result = "send_err"
  <2>1. PICK n \in 1 .. Len(s.txList) : n = i
    BY <1>3, <1>4
  <2>2. s.txList[n] \in TxFrame /\ s.txList[n].frame \in DataFrame
    BY TxListElement
  <2>3. PICK p \in DataFrame : p = [s.txList[n].frame EXCEPT !.pBit = TRUE]
                               /\ p.txSeq = s.txList[n].frame.txSeq
    BY <2>2, PolledFrame
  <2>4. PICK g \in TxFrame : g = [s.txList[n] EXCEPT !.frame = p] /\ g.frame = p
    <3>1. ASSUME NEW t0 \in TxFrame
          PROVE  [t0 EXCEPT !.frame = p] \in TxFrame /\ [t0 EXCEPT !.frame = p].frame = p
      BY DEF TxFrame
    <3> QED BY <2>2, <3>1, Zenon
  <2>5. r = [s EXCEPT !.txList[n].frame = p]
    BY <1>4, <2>1, <2>3 DEF RetransEnhanceFrame
  <2>6. PICK list \in Seq(TxFrame) :
          /\ list = [s.txList EXCEPT ![n] = g] /\ Len(list) = Len(s.txList)
          /\ \A j \in 1 .. Len(s.txList) : list[j].frame.txSeq = s.txList[j].frame.txSeq
    <3>1. g.frame.txSeq = s.txList[n].frame.txSeq BY <2>3, <2>4
    <3> QED BY <3>1, SetTxFrame, Zenon
  <2> HIDE DEF r
  <2>7. r = [s EXCEPT !.txList = list]
    BY <2>4, <2>5, <2>6 DEF Good, Channel
  <2>8. /\ r \in Channel /\ r.txList = list
        /\ r.nextTxSeq = s.nextTxSeq /\ r.expectedAckSeq = s.expectedAckSeq
        /\ r.isRecvFrame = s.isRecvFrame /\ (s.retransTimer => r.retransTimer)
    BY <2>7 DEF Good, Channel
  <2>9. Good(r)
    BY <2>6, <2>8, SameWindow
  <2> QED BY <2>6, <2>8, <2>9 DEF r
<1>5. CASE result = "success"
  <2>1. PICK n \in 1 .. Len(s.txList) : n = i /\ s.txList[n].reTxCnt < MaxTxThreshold
    BY <1>3, <1>5
  <2>2. /\ s.txList[n] \in TxFrame /\ s.txList[n].frame \in DataFrame
        /\ s.txList[n].reTxCnt + 1 \in 0 .. MaxTxThreshold
    BY <2>1, TxListElement, ReliableAssumption
  <2>3. PICK p \in DataFrame : p = [s.txList[n].frame EXCEPT !.pBit = TRUE]
                               /\ p.txSeq = s.txList[n].frame.txSeq
    BY <2>2, PolledFrame
  <2>4. PICK g \in TxFrame : g = [frame |-> p, reTxCnt |-> s.txList[n].reTxCnt + 1]
                             /\ g.frame = p
    <3>1. ASSUME NEW c \in 0 .. MaxTxThreshold
          PROVE  /\ [frame |-> p, reTxCnt |-> c] \in TxFrame
                 /\ [frame |-> p, reTxCnt |-> c].frame = p
      BY DEF TxFrame
    <3> QED BY <2>2, <3>1, Zenon
  <2>5. PICK out \in Seq(AckFrame \cup DataFrame) : out = Append(s.out, p)
    BY AppendProperties DEF Good, Channel
  <2>0. r = [s EXCEPT !.txList[n] = g, !.out = out, !.retransTimer = TRUE]
    BY <1>5, <2>1, <2>3, <2>4, <2>5 DEF RetransEnhanceFrame
  <2>6. PICK list \in Seq(TxFrame) :
          /\ list = [s.txList EXCEPT ![n] = g] /\ Len(list) = Len(s.txList)
          /\ \A j \in 1 .. Len(s.txList) : list[j].frame.txSeq = s.txList[j].frame.txSeq
    <3>1. g.frame.txSeq = s.txList[n].frame.txSeq BY <2>3, <2>4
    <3> QED BY <3>1, SetTxFrame, Zenon
  <2> HIDE DEF r
  <2>7. r = [s EXCEPT !.txList = list, !.out = out, !.retransTimer = TRUE]
    BY <2>0, <2>6 DEF Good, Channel
  <2>8. /\ r \in Channel /\ r.txList = list
        /\ r.nextTxSeq = s.nextTxSeq /\ r.expectedAckSeq = s.expectedAckSeq
        /\ r.isRecvFrame = s.isRecvFrame /\ (s.retransTimer => r.retransTimer)
    BY <2>7 DEF Good, Channel
  <2>9. Good(r)
    BY <2>6, <2>8, SameWindow
  <2> QED BY <2>6, <2>8, <2>9 DEF r
<1> QED BY <1>0, <1>1, <1>2, <1>4, <1>5

\* Frames with the next numbers, appended to the window, extend it.
LEMMA ExtendWindow ==
  ASSUME NEW s, Good(s), NEW r \in Channel,
         NEW more \in Seq(TxFrame),
         \A i \in 1 .. Len(more) : more[i].frame.txSeq = SeqAdd(s.nextTxSeq, i - 1),
         r.txList = s.txList \o more,
         r.nextTxSeq = SeqAdd(s.nextTxSeq, Len(more)),
         r.expectedAckSeq = s.expectedAckSeq,
         Len(s.txList) + Len(more) <= WinSize,
         r.retransTimer
  PROVE  Good(r)
<1> DEFINE a == s.expectedAckSeq
           n == Len(s.txList)
           c == Len(more)
<1>1. /\ s.txList \in Seq(TxFrame) /\ a \in SeqNum
      /\ s.nextTxSeq = SeqAdd(a, n)
      /\ \A i \in 1 .. n : s.txList[i].frame.txSeq = SeqAdd(a, i - 1)
  BY DEF Good, Channel, TxWindow
<1>2. n \in Nat /\ c \in Nat /\ n + c <= WinSize /\ n + c <= SeqMod
  BY <1>1, LenProperties, WindowFacts, SeqModFacts
<1>3. /\ Len(r.txList) = n + c
      /\ \A i \in 1 .. n + c : r.txList[i] = IF i <= n THEN s.txList[i] ELSE more[i - n]
  BY <1>1, ConcatProperties
<1>4. r.nextTxSeq = SeqAdd(a, n + c)
  BY <1>1, <1>2, SeqAddAdd
<1>5. ASSUME NEW i \in 1 .. n + c
      PROVE  r.txList[i].frame.txSeq = SeqAdd(a, i - 1)
  <2>1. CASE i <= n
    BY <2>1, <1>1, <1>2, <1>3
  <2>2. CASE i > n
    <3> DEFINE k == i - n
    <3>2. r.txList[i] = more[k]
      BY <2>2, <1>2, <1>3
    <3> HIDE DEF n, c, a
    <3>1. k \in 1 .. c /\ k - 1 \in Nat /\ n + (k - 1) = i - 1 /\ n + (k - 1) <= SeqMod
      BY <2>2, <1>2, SeqModFacts
    <3>3. more[k].frame.txSeq = SeqAdd(s.nextTxSeq, k - 1)
      BY <3>1 DEF c
    <3> HIDE DEF k
    <3>4. SeqAdd(SeqAdd(a, n), k - 1) = SeqAdd(a, n + (k - 1))
      BY <3>1, <1>1, <1>2, SeqAddAdd
    <3> QED BY <3>1, <3>2, <3>3, <3>4, <1>1
  <2> QED BY <2>1, <2>2, <1>2
<1>6. TxWindow(r)
  BY <1>2, <1>3, <1>4, <1>5 DEF TxWindow
<1> QED BY <1>6 DEF Good, TxLossIsWatched

\* What DTAP_TriggerSendPolling leaves is a value of the counter.
LEMMA PollingType ==
  ASSUME NEW c \in 0 .. PollingThreshold, NEW n \in Nat
  PROVE  PollingAt(c, n) \in 0 .. PollingThreshold
BY WindowFacts DEF PollingAt

\* DTAP_PackEnhanceFrames numbers the frames of a message from nextTxSeq on.
LEMMA PackGood ==
  ASSUME NEW s, Good(s), NEW m \in Msg
  PROVE  LET cnt == FrameCnt[m][s.isRecvFrame]
         IN  /\ cnt \in Nat \ {0}
             /\ PackEnhanceFrames(s, m) \in [1 .. cnt -> DataFrame]
             /\ \A i \in 1 .. cnt :
                  PackEnhanceFrames(s, m)[i].txSeq = SeqAdd(s.nextTxSeq, i - 1)
<1> DEFINE cnt == FrameCnt[m][s.isRecvFrame]
           F(i) == [type   |-> IF s.isRecvFrame THEN "duplex" ELSE "simplex",
                    txSeq  |-> SeqAdd(s.nextTxSeq, i - 1),
                    reqSeq |-> IF s.isRecvFrame THEN s.expectedTxSeq ELSE SEQ_INIT,
                    pdu    |-> [msg |-> m, idx |-> i, cnt |-> cnt],
                    pBit   |-> PollingAt(s.sendPollingCounter, i - 1) = PollingThreshold]
<1>1. cnt \in Nat \ {0}
  BY ReliableAssumption DEF Good, Channel
<1> HIDE DEF cnt
<1>2. ASSUME NEW i \in 1 .. cnt
      PROVE  F(i) \in DataFrame
  <2>1. SeqAdd(s.nextTxSeq, i - 1) \in SeqNum
    BY <1>1, SeqAddType DEF Good, Channel
  <2>2. [msg |-> m, idx |-> i, cnt |-> cnt] \in Pdu
    BY <1>1 DEF Pdu
  <2>3. s.expectedTxSeq \in SeqNum /\ s.isRecvFrame \in BOOLEAN
    BY DEF Good, Channel
  <2> QED BY <2>1, <2>2, <2>3 DEF DataFrame
<1>3. PackEnhanceFrames(s, m) = [i \in 1 .. cnt |-> F(i)]
  BY DEF PackEnhanceFrames, cnt
<1>4. \A i \in 1 .. cnt : F(i).txSeq = SeqAdd(s.nextTxSeq, i - 1)
  OBVIOUS
<1> HIDE DEF F
<1>5. /\ PackEnhanceFrames(s, m) \in [1 .. cnt -> DataFrame]
      /\ \A i \in 1 .. cnt : PackEnhanceFrames(s, m)[i].txSeq = SeqAdd(s.nextTxSeq, i - 1)
  BY <1>2, <1>3, <1>4
<1> QED BY <1>1, <1>5 DEF cnt

\* Moving reTxSeq does not touch the window.
LEMMA SetReTxSeqGood ==
  ASSUME NEW s, Good(s), NEW q \in SeqNum
  PROVE  /\ Good([s EXCEPT !.reTxSeq = q])
         /\ [s EXCEPT !.reTxSeq = q].nextTxSeq = s.nextTxSeq
         /\ [s EXCEPT !.reTxSeq = q].isRecvFrame = s.isRecvFrame
         /\ [s EXCEPT !.reTxSeq = q].txList = s.txList
<1> DEFINE r == [s EXCEPT !.reTxSeq = q]
<1>1. /\ r \in Channel /\ r.txList = s.txList /\ r.nextTxSeq = s.nextTxSeq
      /\ r.expectedAckSeq = s.expectedAckSeq /\ r.retransTimer = s.retransTimer
      /\ r.isRecvFrame = s.isRecvFrame
  BY DEF Good, Channel
<1> HIDE DEF r
<1>2. Good(r)
  BY <1>1, SameWindow
<1> QED BY <1>1, <1>2 DEF r

\* The retransmission before new frames keeps the window.
LEMMA RetransBeforeSendGood ==
  ASSUME NEW s, Good(s), NEW ok \in BOOLEAN
  PROVE  /\ Good(RetransBeforeSend(s, ok))
         /\ RetransBeforeSend(s, ok).nextTxSeq = s.nextTxSeq
         /\ RetransBeforeSend(s, ok).isRecvFrame = s.isRecvFrame
         /\ Len(RetransBeforeSend(s, ok).txList) = Len(s.txList)
<1>1. CASE IsFrameSeqSmaller(s.reTxSeq, s.nextTxSeq)
  <2> DEFINE t == RetransEnhanceFrame(s, ok)
  <2>1. /\ Good(t) /\ t.nextTxSeq = s.nextTxSeq
        /\ t.isRecvFrame = s.isRecvFrame /\ Len(t.txList) = Len(s.txList)
    BY RetransGood
  <2>2. s.nextTxSeq \in SeqNum
    BY DEF Good, Channel
  <2>3. RetransBeforeSend(s, ok) = [t EXCEPT !.reTxSeq = s.nextTxSeq]
    BY <1>1 DEF RetransBeforeSend
  <2> HIDE DEF t
  <2> QED BY <2>1, <2>2, <2>3, SetReTxSeqGood
<1>2. CASE ~IsFrameSeqSmaller(s.reTxSeq, s.nextTxSeq)
  BY <1>2 DEF RetransBeforeSend
<1> QED BY <1>1, <1>2

\* DTAP_SendEnhanceFrameInner extends the window by the frames of the message.
LEMMA SendInnerGood ==
  ASSUME NEW s, Good(s), NEW m \in Msg, NEW ok \in BOOLEAN,
         Len(s.txList) + FrameCnt[m][s.isRecvFrame] <= WinSize
  PROVE  Good(SendEnhanceFrameInner(s, m, ok))
<1> DEFINE frames == PackEnhanceFrames(s, m)
           cnt == FrameCnt[m][s.isRecvFrame]
           s1 == RetransBeforeSend(s, ok)
           r == SendEnhanceFrameInner(s, m, ok)
<1>1. CASE SendGivesUp(s, ok)
  BY <1>1, RetransGood DEF SendEnhanceFrameInner
<1>2. CASE ~SendGivesUp(s, ok)
  <2>1. /\ cnt \in Nat \ {0} /\ frames \in [1 .. cnt -> DataFrame]
        /\ \A i \in 1 .. cnt : frames[i].txSeq = SeqAdd(s.nextTxSeq, i - 1)
    BY PackGood
  <2>2. /\ Good(s1) /\ s1.nextTxSeq = s.nextTxSeq /\ Len(s1.txList) = Len(s.txList)
    BY RetransBeforeSendGood
  <2>3. r = [s1 EXCEPT
                !.sendPollingCounter = PollingAt(@, cnt),
                !.out = @ \o frames,
                !.reTxSeq = SeqAdd(@, cnt),
                !.nextTxSeq = SeqAdd(@, cnt),
                !.txList = @ \o [i \in 1 .. cnt |-> [frame |-> frames[i], reTxCnt |-> 0]],
                !.retransTimer = TRUE,
                !.sent = @ \o [i \in 1 .. cnt |-> frames[i].pdu]]
    BY <1>2 DEF SendEnhanceFrameInner
  <2>4. Len(s1.txList) + cnt <= WinSize
    BY <2>2
  <2> HIDE DEF frames, cnt, s1, r
  <2>5. PICK more \in Seq(TxFrame) :
          /\ more = [i \in 1 .. cnt |-> [frame |-> frames[i], reTxCnt |-> 0]]
          /\ Len(more) = cnt
          /\ \A i \in 1 .. cnt : more[i].frame = frames[i]
    <3> DEFINE f == [i \in 1 .. cnt |-> [frame |-> frames[i], reTxCnt |-> 0]]
    <3>1. f \in [1 .. cnt -> TxFrame]
      BY <2>1, ReliableAssumption DEF TxFrame
    <3>2. \A i \in 1 .. cnt : f[i].frame = frames[i]
      OBVIOUS
    <3> HIDE DEF f
    <3>3. f \in Seq(TxFrame) /\ Len(f) = cnt
      BY <2>1, <3>1, FunctionIsSeq
    <3> QED BY <3>2, <3>3 DEF f
  <2>6. PICK put \in Seq(Pdu) : put = [i \in 1 .. cnt |-> frames[i].pdu]
    <3> DEFINE f == [i \in 1 .. cnt |-> frames[i].pdu]
    <3>1. f \in [1 .. cnt -> Pdu]
      BY <2>1 DEF DataFrame
    <3> HIDE DEF f
    <3>2. f \in Seq(Pdu)
      BY <2>1, <3>1, FunctionIsSeq
    <3> QED BY <3>2 DEF f
  <2>7. frames \in Seq(AckFrame \cup DataFrame)
    <3>1. frames \in [1 .. cnt -> AckFrame \cup DataFrame]
      BY <2>1
    <3> QED BY <2>1, <3>1, FunctionIsSeq
  <2>8. PICK list \in Seq(TxFrame) : list = s1.txList \o more
    BY <2>2, ConcatProperties DEF Good, Channel
  <2>9. PICK out \in Seq(AckFrame \cup DataFrame) : out = s1.out \o frames
    BY <2>2, <2>7, ConcatProperties DEF Good, Channel
  <2>10. PICK sent \in Seq(Pdu) : sent = s1.sent \o put
    BY <2>2, ConcatProperties DEF Good, Channel
  <2>11. /\ SeqAdd(s1.reTxSeq, cnt) \in SeqNum /\ SeqAdd(s1.nextTxSeq, cnt) \in SeqNum
         /\ PollingAt(s1.sendPollingCounter, cnt) \in 0 .. PollingThreshold
    BY <2>1, <2>2, SeqAddType, PollingType DEF Good, Channel
  <2>12. r = [s1 EXCEPT
                !.sendPollingCounter = PollingAt(s1.sendPollingCounter, cnt),
                !.out = out,
                !.reTxSeq = SeqAdd(s1.reTxSeq, cnt),
                !.nextTxSeq = SeqAdd(s1.nextTxSeq, cnt),
                !.txList = list,
                !.retransTimer = TRUE,
                !.sent = sent]
    BY <2>2, <2>3, <2>5, <2>6, <2>8, <2>9, <2>10 DEF Good, Channel
  <2>13. /\ r \in Channel /\ r.txList = s1.txList \o more
         /\ r.nextTxSeq = SeqAdd(s1.nextTxSeq, cnt)
         /\ r.expectedAckSeq = s1.expectedAckSeq /\ r.retransTimer
    BY <2>2, <2>8, <2>11, <2>12 DEF Good, Channel
  <2>14. \A i \in 1 .. Len(more) : more[i].frame.txSeq = SeqAdd(s1.nextTxSeq, i - 1)
    BY <2>1, <2>2, <2>5
  <2>15. Good(r)
    BY <2>2, <2>4, <2>5, <2>13, <2>14, ExtendWindow
  <2> QED BY <2>15 DEF r
<1> QED BY <1>1, <1>2

\* Fields outside the send window.
LEMMA SameWindowFields ==
  ASSUME NEW s, Good(s), NEW r \in Channel,
         r.txList = s.txList, r.nextTxSeq = s.nextTxSeq,
         r.expectedAckSeq = s.expectedAckSeq, r.retransTimer = s.retransTimer
  PROVE  Good(r)
BY SameWindow

\* DTAP_SendEnhanceFrame sends only what fits.
LEMMA SendEnhanceFrameGood ==
  ASSUME NEW s, Good(s), NEW m \in Msg, NEW ok \in BOOLEAN
  PROVE  Good(SendEnhanceFrame(s, m, ok))
<1> DEFINE need == Len(s.txList) + FrameCnt[m][s.isRecvFrame]
<1>1. CASE need > WinSize
  <2> DEFINE r == SendEnhanceFrame(s, m, ok)
  <2>1. r = [s EXCEPT !.cacheBuff = IF s.cacheBuff = NoMsg THEN m ELSE s.cacheBuff,
                      !.isTxWindowFull = TRUE]
    BY <1>1 DEF SendEnhanceFrame
  <2> HIDE DEF r
  <2>2. /\ r \in Channel /\ r.txList = s.txList /\ r.nextTxSeq = s.nextTxSeq
        /\ r.expectedAckSeq = s.expectedAckSeq /\ r.retransTimer = s.retransTimer
    BY <2>1 DEF Good, Channel
  <2>3. Good(r) BY <2>2, SameWindowFields
  <2> QED BY <2>3 DEF r
<1>2. CASE ~(need > WinSize)
  <2>1. PICK full \in BOOLEAN : full = (s.isTxWindowFull \/ need = WinSize)
    OBVIOUS
  <2> DEFINE t == [s EXCEPT !.isTxWindowFull = full]
  <2>2. /\ t \in Channel /\ t.txList = s.txList /\ t.nextTxSeq = s.nextTxSeq
        /\ t.expectedAckSeq = s.expectedAckSeq /\ t.retransTimer = s.retransTimer
        /\ t.isRecvFrame = s.isRecvFrame
    BY DEF Good, Channel
  <2>3. SendEnhanceFrame(s, m, ok) = SendEnhanceFrameInner(t, m, ok)
    BY <1>2, <2>1 DEF SendEnhanceFrame
  <2>4. need \in Nat /\ need <= WinSize
    <3>1. Len(s.txList) \in Nat
      BY LenProperties DEF Good, Channel
    <3>2. FrameCnt[m][s.isRecvFrame] \in Nat
      BY PackGood
    <3> QED BY <1>2, <3>1, <3>2, WindowFacts
  <2> HIDE DEF t
  <2>5. Good(t) BY <2>2, SameWindowFields
  <2>6. Len(t.txList) + FrameCnt[m][t.isRecvFrame] <= WinSize
    BY <2>2, <2>4
  <2> QED BY <2>3, <2>5, <2>6, SendInnerGood
<1> QED BY <1>1, <1>2

\* DTAP_TransSendCacheBuff with a cached message.
LEMMA TransSendCacheBuffGood ==
  ASSUME NEW s, Good(s), NEW ok \in BOOLEAN, s.cacheBuff # NoMsg
  PROVE  Good(TransSendCacheBuff(s, ok))
<1>1. CASE Len(s.txList) + FrameCnt[s.cacheBuff][s.isRecvFrame] >= WinSize
  BY <1>1 DEF TransSendCacheBuff
<1>2. CASE ~(Len(s.txList) + FrameCnt[s.cacheBuff][s.isRecvFrame] >= WinSize)
  <2> DEFINE t == [s EXCEPT !.isTxWindowFull = FALSE]
             u == SendEnhanceFrame(t, s.cacheBuff, ok)
             r == TransSendCacheBuff(s, ok)
  <2>1. s.cacheBuff \in Msg
    BY DEF Good, Channel
  <2>2. /\ t \in Channel /\ t.txList = s.txList /\ t.nextTxSeq = s.nextTxSeq
        /\ t.expectedAckSeq = s.expectedAckSeq /\ t.retransTimer = s.retransTimer
    BY DEF Good, Channel
  <2>3. r = [u EXCEPT !.cacheBuff = NoMsg, !.transBusy = FALSE]
    BY <1>2 DEF TransSendCacheBuff
  <2> HIDE DEF t
  <2>4. Good(t) BY <2>2, SameWindowFields
  <2>5. Good(u) BY <2>1, <2>4, SendEnhanceFrameGood
  <2> HIDE DEF u, r
  <2>6. /\ r \in Channel /\ r.txList = u.txList /\ r.nextTxSeq = u.nextTxSeq
        /\ r.expectedAckSeq = u.expectedAckSeq /\ r.retransTimer = u.retransTimer
    BY <2>3, <2>5 DEF Good, Channel
  <2>7. Good(r) BY <2>5, <2>6, SameWindowFields
  <2> QED BY <2>7 DEF r
<1> QED BY <1>1, <1>2

\* DTAP_TransChannelStatusChange.
LEMMA StatusChangeGood ==
  ASSUME NEW s, Good(s), NEW ok \in BOOLEAN
  PROVE  Good(TransChannelStatusChange(s, ok))
<1> DEFINE r == [s EXCEPT !.isTxWindowFull = FALSE, !.transBusy = FALSE]
<1>1. /\ r \in Channel /\ r.txList = s.txList /\ r.nextTxSeq = s.nextTxSeq
      /\ r.expectedAckSeq = s.expectedAckSeq /\ r.retransTimer = s.retransTimer
  BY DEF Good, Channel
<1>2. TransChannelStatusChange(s, ok) = s \/ TransChannelStatusChange(s, ok) = r
      \/ (s.cacheBuff # NoMsg /\ TransChannelStatusChange(s, ok) = TransSendCacheBuff(s, ok))
  BY DEF TransChannelStatusChange
<1> HIDE DEF r
<1>3. Good(r) BY <1>1, SameWindowFields
<1> QED BY <1>2, <1>3, TransSendCacheBuffGood

\* What DTAP_SlideTxWindow frees is exactly what lies before an accepted reqSeq.
LEMMA DropAckedIsSuffix ==
  ASSUME NEW s, Good(s), NEW d \in 1 .. Len(s.txList), NEW reqSeq,
         reqSeq = SeqAdd(s.expectedAckSeq, d)
  PROVE  DropAcked(s.txList, reqSeq) = SubSeq(s.txList, d + 1, Len(s.txList))
<1> DEFINE a == s.expectedAckSeq
           len == Len(s.txList)
           P(n) == /\ \A j \in 1 .. n : IsFrameSeqSmaller(s.txList[j].frame.txSeq, reqSeq)
                   /\ n < len => ~IsFrameSeqSmaller(s.txList[n + 1].frame.txSeq, reqSeq)
<1>1. /\ len \in Nat /\ len <= WinSize /\ a \in SeqNum
      /\ \A i \in 1 .. len : s.txList[i].frame.txSeq = SeqAdd(a, i - 1)
  BY LenProperties DEF Good, Channel, TxWindow
<1>2. ASSUME NEW j \in 1 .. len
      PROVE  IsFrameSeqSmaller(s.txList[j].frame.txSeq, reqSeq) <=> j <= d
  <2>1. j - 1 \in 0 .. SignMask - 1 /\ d \in 0 .. SignMask - 1
    BY <1>1, WindowFacts, SeqModFacts
  <2>2. IsFrameSeqSmaller(SeqAdd(a, j - 1), SeqAdd(a, d)) <=> j - 1 < d
    BY <1>1, <2>1, SmallerInWindow
  <2> QED BY <1>1, <2>2
<1>3. d \in 0 .. len /\ P(d)
  BY <1>1, <1>2
<1>4. ASSUME NEW n \in 0 .. len, P(n)
      PROVE  n = d
  <2>1. n <= d
    <3>1. CASE n = 0 BY <3>1
    <3>2. CASE n # 0 BY <3>2, <1>1, <1>2, <1>4
    <3> QED BY <3>1, <3>2
  <2>2. ~(n < d)
    <3>1. SUFFICES ASSUME n < d PROVE FALSE OBVIOUS
    <3>2. n + 1 \in 1 .. len /\ n < len BY <3>1, <1>1
    <3>3. IsFrameSeqSmaller(s.txList[n + 1].frame.txSeq, reqSeq) BY <3>1, <3>2, <1>2, <1>1
    <3> QED BY <3>2, <3>3, <1>4
  <2> QED BY <2>1, <2>2, <1>1
<1>5. (CHOOSE n \in 0 .. len : P(n)) = d
  <2> DEFINE c == CHOOSE n \in 0 .. len : P(n)
  <2>1. c \in 0 .. len /\ P(c)
    BY <1>3
  <2> HIDE DEF P, c
  <2>2. c = d BY <2>1, <1>4
  <2> QED BY <2>2 DEF c
<1> QED BY <1>5 DEF DropAcked

\* DTAP_SlideTxWindow moves the window forward by what the peer acknowledged.
LEMMA SlideTxWindowGood ==
  ASSUME NEW s, Good(s), NEW reqSeq \in SeqNum \cup {SEQ_INIT}
  PROVE  Good(SlideTxWindow(s, reqSeq))
<1> DEFINE moved == [s EXCEPT !.sendPollingCounter = 0,
                       !.reTxSeq = IF IsFrameSeqSmaller(s.reTxSeq, reqSeq) THEN reqSeq ELSE s.reTxSeq]
           r == SlideTxWindow(s, reqSeq)
<1>0. 0 \in 0 .. PollingThreshold
  BY WindowFacts
<1>1. CASE reqSeq = SEQ_INIT
  BY <1>1 DEF SlideTxWindow
<1>2. CASE reqSeq # SEQ_INIT /\ s.txList = << >>
  <2>1. r = [s EXCEPT !.sendPollingCounter = 0]
    BY <1>2 DEF SlideTxWindow
  <2> HIDE DEF r
  <2>2. /\ r \in Channel /\ r.txList = s.txList /\ r.nextTxSeq = s.nextTxSeq
        /\ r.expectedAckSeq = s.expectedAckSeq /\ r.retransTimer = s.retransTimer
    BY <2>1, <1>0 DEF Good, Channel
  <2>3. Good(r) BY <2>2, SameWindowFields
  <2> QED BY <2>3 DEF r
<1>3. CASE reqSeq # SEQ_INIT /\ s.txList # << >>
  <2>1. reqSeq \in SeqNum
    BY <1>3
  <2>2. /\ moved \in Channel /\ moved.txList = s.txList /\ moved.nextTxSeq = s.nextTxSeq
        /\ moved.expectedAckSeq = s.expectedAckSeq /\ moved.retransTimer = s.retransTimer
    BY <2>1, <1>0 DEF Good, Channel
  <2>3. CASE ~AckInWindow(s, reqSeq)
    <3>1. r = moved
      BY <1>3, <2>3 DEF SlideTxWindow
    <3> HIDE DEF moved, r
    <3>2. Good(r) BY <3>1, <2>2, SameWindowFields
    <3> QED BY <3>2 DEF r
  <2>4. CASE AckInWindow(s, reqSeq)
    <3> DEFINE a == s.expectedAckSeq
               len == Len(s.txList)
    <3>1. r = [moved EXCEPT !.expectedAckSeq = reqSeq,
                            !.txList = DropAcked(s.txList, reqSeq),
                            !.retransTimer = reqSeq # s.nextTxSeq]
      BY <1>3, <2>4, <2>2 DEF SlideTxWindow, RetransTimerAfterAck
    <3>2. /\ a \in SeqNum /\ s.txList \in Seq(TxFrame) /\ s.nextTxSeq = SeqAdd(a, len)
          /\ len \in 1 .. SignMask - 1 /\ len <= WinSize
          /\ \A i \in 1 .. len : s.txList[i].frame.txSeq = SeqAdd(a, i - 1)
      BY <1>3, EmptySeq, LenProperties, WindowFacts, SeqModFacts DEF Good, Channel, TxWindow
    <3>3. PICK d \in 1 .. len : reqSeq = SeqAdd(a, d)
      BY <2>1, <2>4, <3>2, AckDistance DEF AckInWindow
    <3>4. DropAcked(s.txList, reqSeq) = SubSeq(s.txList, d + 1, len)
      BY <3>3, DropAckedIsSuffix
    <3>5. PICK list \in Seq(TxFrame) :
            /\ list = SubSeq(s.txList, d + 1, len)
            /\ Len(list) = len - d
            /\ \A i \in 1 .. len - d : list[i] = s.txList[d + i]
      <4>1. \A i \in d + 1 .. len : s.txList[i] \in TxFrame
        BY <3>2, <3>3, ElementOfSeq
      <4>2. /\ SubSeq(s.txList, d + 1, len) \in Seq(TxFrame)
            /\ Len(SubSeq(s.txList, d + 1, len)) = IF d + 1 <= len THEN len - (d + 1) + 1 ELSE 0
            /\ \A i \in 1 .. len - (d + 1) + 1 :
                 SubSeq(s.txList, d + 1, len)[i] = s.txList[(d + 1) + i - 1]
        BY <3>2, <3>3, <4>1, SubSeqProperties
      <4> HIDE DEF len
      <4>3. Len(SubSeq(s.txList, d + 1, len)) = len - d
        BY <4>2, <3>2, <3>3
      <4>4. ASSUME NEW i \in 1 .. len - d
            PROVE  SubSeq(s.txList, d + 1, len)[i] = s.txList[d + i]
        <5>1. i \in 1 .. len - (d + 1) + 1 /\ (d + 1) + i - 1 = d + i
          BY <3>2, <3>3
        <5> QED BY <4>2, <5>1
      <4> QED BY <4>2, <4>3, <4>4
    <3> DEFINE timer == reqSeq # s.nextTxSeq
    <3>6. timer \in BOOLEAN
      OBVIOUS
    <3>7. r = [moved EXCEPT !.expectedAckSeq = reqSeq, !.txList = list, !.retransTimer = timer]
      BY <3>1, <3>4, <3>5
    <3> HIDE DEF moved, r, timer
    <3>8. /\ r \in Channel /\ r.txList = list /\ r.nextTxSeq = s.nextTxSeq
          /\ r.expectedAckSeq = reqSeq /\ r.retransTimer = timer
      BY <3>6, <3>7, <2>1, <2>2 DEF Channel
    <3> HIDE DEF len, a
    <3>9. TxWindow(r)
      <4>1. Len(r.txList) = len - d /\ len - d <= WinSize /\ len - d \in Nat
        BY <3>2, <3>3, <3>5, <3>8, WindowFacts
      <4>2. SeqAdd(SeqAdd(a, d), len - d) = SeqAdd(a, d + (len - d))
        BY <4>1, <3>2, <3>3, SeqAddAdd, WindowFacts, SeqModFacts
      <4>3. r.nextTxSeq = SeqAdd(reqSeq, len - d)
        <5>1. d + (len - d) = len BY <3>2, <3>3
        <5> QED BY <4>2, <5>1, <3>2, <3>3, <3>8
      <4>4. ASSUME NEW i \in 1 .. len - d
            PROVE  r.txList[i].frame.txSeq = SeqAdd(reqSeq, i - 1)
        <5>1. d + i \in 1 .. len /\ i - 1 \in Nat /\ d \in Nat /\ d + (i - 1) = (d + i) - 1
              /\ d + (i - 1) <= SeqMod
          BY <3>2, <3>3, WindowFacts, SeqModFacts
        <5>2. r.txList[i].frame.txSeq = SeqAdd(a, (d + i) - 1)
          BY <5>1, <3>2, <3>5, <3>8
        <5>3. SeqAdd(SeqAdd(a, d), i - 1) = SeqAdd(a, d + (i - 1))
          BY <5>1, <3>2, SeqAddAdd
        <5> QED BY <5>1, <5>2, <5>3, <3>3
      <4> QED BY <4>1, <4>3, <4>4, <3>8 DEF TxWindow
    <3>10. TxLossIsWatched(r)
      <4>1. CASE timer
        BY <4>1, <3>8 DEF TxLossIsWatched
      <4>2. CASE ~timer
        <5>1. SeqAdd(a, d) = SeqAdd(a, len)
          BY <4>2, <3>2, <3>3 DEF timer
        <5>2. d = len
          <6>1. d \in 0 .. SignMask - 1 /\ len \in 0 .. SignMask - 1
            BY <3>2, <3>3, SeqModFacts
          <6>2. /\ IsFrameSeqSmaller(SeqAdd(a, d), SeqAdd(a, len)) <=> d < len
                /\ IsFrameSeqSmaller(SeqAdd(a, d), SeqAdd(a, d)) <=> d < d
            BY <6>1, <3>2, SmallerInWindow
          <6> QED BY <6>1, <6>2, <5>1, <3>3
        <5>3. r.txList = << >>
          BY <5>2, <3>2, <3>5, <3>8, EmptySeq
        <5> QED BY <5>3 DEF TxLossIsWatched
      <4> QED BY <4>1, <4>2
    <3>11. Good(r) BY <3>8, <3>9, <3>10 DEF Good
    <3> QED BY <3>11 DEF r
  <2> QED BY <2>3, <2>4
<1> QED BY <1>1, <1>2, <1>3

-----------------------------------------------------------------------------
\* The insertion of DTAP_SlideRxWindow yields a list of received frames.
LEMMA InsertRxType ==
  ASSUME NEW list \in Seq(RxFrame), NEW f \in RxFrame
  PROVE  InsertRx(list, f) \in Seq(RxFrame)
<1> DEFINE len == Len(list)
           P(n) == /\ \A j \in 1 .. n : ~IsFrameSeqSmaller(f.txSeq, list[j].txSeq)
                   /\ n < len => IsFrameSeqSmaller(f.txSeq, list[n + 1].txSeq)
           c == CHOOSE n \in 0 .. len : P(n)
           S == {j \in 1 .. len : ~IsFrameSeqSmaller(f.txSeq, list[j].txSeq)}
<1>1. len \in Nat
  BY LenProperties
<1>2. \E n \in 0 .. len : P(n)
  <2>1. PICK n \in 0 .. len : (\A j \in 1 .. n : j \in S) /\ (n < len => (n + 1) \notin S)
    <3> HIDE DEF S
    <3>1. S \in SUBSET (1 .. len) BY DEF S
    <3> QED BY <1>1, <3>1, LongestPrefix
  <2>2. n + 1 \in 1 .. len \/ ~(n < len)
    BY <1>1
  <2> QED BY <2>1, <2>2
<1>3. c \in 0 .. len
  BY <1>2
<1>4. InsertRx(list, f) = SubSeq(list, 1, c) \o <<f>> \o SubSeq(list, c + 1, len)
  BY DEF InsertRx
<1> HIDE DEF c, len, P
<1>5. SubSeq(list, 1, c) \in Seq(RxFrame) /\ SubSeq(list, c + 1, len) \in Seq(RxFrame)
  <2>1. \A i \in 1 .. c : list[i] \in RxFrame
    BY <1>1, <1>3, ElementOfSeq DEF len
  <2>2. \A i \in c + 1 .. len : list[i] \in RxFrame
    BY <1>1, <1>3, ElementOfSeq DEF len
  <2> QED BY <1>1, <1>3, <2>1, <2>2, SubSeqProperties
<1>6. <<f>> \in Seq(RxFrame)
  OBVIOUS
<1> QED BY <1>4, <1>5, <1>6, ConcatProperties

\* The search for the next expected number ends in a sequence number.
LEMMA NextMissingType ==
  ASSUME NEW list, NEW seq \in SeqNum
  PROVE  NextMissing(list, seq) \in SeqNum
<1> DEFINE missing == {k \in 1 .. WinSize : ~HasRxSeq(list, SeqAdd(seq, k))}
           c == CHOOSE k \in missing : \A j \in missing : k <= j
<1>1. CASE missing = {}
  BY <1>1 DEF NextMissing
<1>2. CASE missing # {}
  <2>1. missing \in SUBSET Nat
    BY WindowFacts
  <2> HIDE DEF missing
  <2>2. \E k \in missing : \A j \in missing : k <= j
    BY <1>2, <2>1, LeastNat
  <2>3. c \in missing
    BY <2>2
  <2>4. NextMissing(list, seq) = SeqAdd(seq, c)
    BY <1>2 DEF NextMissing, missing
  <2> QED BY <2>1, <2>3, <2>4, SeqAddType
<1> QED BY <1>1, <1>2

\* DTAP_SlideRxWindow leaves the send window alone.
LEMMA SlideRxWindowGood ==
  ASSUME NEW s, Good(s), NEW txSeq \in SeqNum, NEW pdu \in Pdu
  PROVE  Good(SlideRxWindow(s, txSeq, pdu))
<1> DEFINE f == [txSeq |-> txSeq, pdu |-> pdu, trims |-> 0]
           r == SlideRxWindow(s, txSeq, pdu)
<1>1. f \in RxFrame
  BY DEF RxFrame
<1> HIDE DEF f
<1>2. PICK list \in Seq(RxFrame) : list = InsertRx(s.rxList, f)
  BY <1>1, InsertRxType DEF Good, Channel
<1>3. PICK next \in SeqNum : next = NextMissing(list, txSeq)
  BY NextMissingType
<1> DEFINE advances == txSeq = s.expectedTxSeq /\ next # txSeq
           max == IF IsFrameSeqSmaller(s.maxExpectedTxSeq, txSeq) \/ s.maxExpectedTxSeq = txSeq
                  THEN GetNextFrameSeq(txSeq) ELSE s.maxExpectedTxSeq
<1>4. r = [s EXCEPT !.isRecvFrame = TRUE, !.rxList = list,
                    !.expectedTxSeq = IF advances THEN next ELSE s.expectedTxSeq,
                    !.nackCnt = IF advances THEN 0 ELSE s.nackCnt,
                    !.maxExpectedTxSeq = max]
  BY <1>2, <1>3 DEF SlideRxWindow, f
<1>5. max \in SeqNum
  BY NextIsSeqAdd DEF Good, Channel
<1>6. 0 \in 0 .. MaxTxThreshold
  BY ReliableAssumption
<1> HIDE DEF r, max, advances
<1>7. /\ r \in Channel /\ r.txList = s.txList /\ r.nextTxSeq = s.nextTxSeq
      /\ r.expectedAckSeq = s.expectedAckSeq /\ r.retransTimer = s.retransTimer
  BY <1>4, <1>5, <1>6 DEF Good, Channel
<1>8. Good(r) BY <1>7, SameWindowFields
<1> QED BY <1>8 DEF r

\* DTAP_OperateReorderTimer.
LEMMA OperateReorderTimerGood ==
  ASSUME NEW s, Good(s)
  PROVE  Good(OperateReorderTimer(s))
<1> DEFINE timer == IF s.reorderTimer THEN s.expectedTxSeq # s.maxExpectedTxSeq
                    ELSE IsFrameSeqSmaller(s.expectedTxSeq, s.maxExpectedTxSeq)
           r == OperateReorderTimer(s)
<1>1. r = [s EXCEPT !.reorderTimer = timer]
  BY DEF OperateReorderTimer
<1>2. timer \in BOOLEAN
  <2>1. (s.expectedTxSeq # s.maxExpectedTxSeq) \in BOOLEAN
    OBVIOUS
  <2>2. IsFrameSeqSmaller(s.expectedTxSeq, s.maxExpectedTxSeq) \in BOOLEAN
    BY DEF IsFrameSeqSmaller
  <2>3. CASE s.reorderTimer
    BY <2>1, <2>3, Zenon
  <2>4. CASE ~s.reorderTimer
    BY <2>2, <2>4, Zenon
  <2> QED BY <2>3, <2>4
<1> HIDE DEF timer, r
<1>3. /\ r \in Channel /\ r.txList = s.txList /\ r.nextTxSeq = s.nextTxSeq
      /\ r.expectedAckSeq = s.expectedAckSeq /\ r.retransTimer = s.retransTimer
  BY <1>1, <1>2 DEF Good, Channel
<1>4. Good(r) BY <1>3, SameWindowFields
<1> QED BY <1>4 DEF r

\* The frames that can be handed over are a prefix of the list.
LEMMA DeliverableType ==
  ASSUME NEW s, s \in Channel
  PROVE  Deliverable(s) \in 0 .. Len(s.rxList)
<1> DEFINE len == Len(s.rxList)
           P(n) == /\ \A j \in 1 .. n : s.rxList[j].txSeq = SeqAdd(s.bufferSeq, j - 1)
                   /\ n < len => s.rxList[n + 1].txSeq # SeqAdd(s.bufferSeq, n)
           S == {j \in 1 .. len : s.rxList[j].txSeq = SeqAdd(s.bufferSeq, j - 1)}
<1>1. len \in Nat
  BY LenProperties DEF Channel
<1>2. \E n \in 0 .. len : P(n)
  <2>1. PICK n \in 0 .. len : (\A j \in 1 .. n : j \in S) /\ (n < len => (n + 1) \notin S)
    <3> HIDE DEF S
    <3>1. S \in SUBSET (1 .. len) BY DEF S
    <3> QED BY <1>1, <3>1, LongestPrefix
  <2>2. n < len => n + 1 \in 1 .. len /\ (n + 1) - 1 = n
    BY <1>1
  <2> QED BY <2>1, <2>2
<1>3. Deliverable(s) = CHOOSE n \in 0 .. len : P(n)
  BY DEF Deliverable
<1> QED BY <1>2, <1>3

\* DTAP_RecvEnhanceFrameInner takes frames off the receive window only.
LEMMA RecvInnerGood ==
  ASSUME NEW s, Good(s), NEW k \in HandOvers(s)
  PROVE  Good(RecvEnhanceFrameInner(s, k))
<1> DEFINE n == Deliverable(s)
           len == Len(s.rxList)
           r == RecvEnhanceFrameInner(s, k)
<1>0. s \in Channel /\ s.rxList \in Seq(RxFrame) /\ len \in Nat
  BY LenProperties DEF Good, Channel
<1>1. n \in 0 .. len
  BY <1>0, DeliverableType
<1>2. CASE s.isRxWindowFull
  BY <1>2 DEF RecvEnhanceFrameInner
<1>3. CASE ~s.isRxWindowFull
  <2>1. k \in 0 .. n
    BY <1>3 DEF HandOvers
  <2>2. k \in 0 .. len
    BY <1>0, <1>1, <2>1
  <2>3. PICK taken \in Seq(HandOver) :
          taken = [i \in 1 .. k |-> [pdu |-> s.rxList[i].pdu, trims |-> s.rxList[i].trims]]
    <3> DEFINE f == [i \in 1 .. k |-> [pdu |-> s.rxList[i].pdu, trims |-> s.rxList[i].trims]]
    <3>1. ASSUME NEW i \in 1 .. k
          PROVE  [pdu |-> s.rxList[i].pdu, trims |-> s.rxList[i].trims] \in HandOver
      <4>1. s.rxList[i] \in RxFrame
        BY <1>0, <2>2, ElementOfSeq
      <4> QED BY <4>1 DEF RxFrame, HandOver
    <3>2. f \in [1 .. k -> HandOver]
      BY <3>1
    <3> HIDE DEF f
    <3>3. f \in Seq(HandOver)
      BY <2>2, <3>2, FunctionIsSeq
    <3> QED BY <3>3 DEF f
  <2>4. PICK handed \in Seq(HandOver) : handed = s.handed \o taken
    BY ConcatProperties DEF Good, Channel
  <2>5. PICK rest \in Seq(RxFrame) :
          rest = SubSeq(s.rxList, k + 1, len) /\ Len(rest) = len - k
    <3>1. \A i \in k + 1 .. len : s.rxList[i] \in RxFrame
      BY <1>0, <2>2, ElementOfSeq
    <3> HIDE DEF len
    <3>2. /\ SubSeq(s.rxList, k + 1, len) \in Seq(RxFrame)
          /\ Len(SubSeq(s.rxList, k + 1, len)) =
               IF k + 1 <= len THEN len - (k + 1) + 1 ELSE 0
      BY <1>0, <2>2, <3>1, SubSeqProperties
    <3>3. Len(SubSeq(s.rxList, k + 1, len)) = len - k
      BY <1>0, <2>2, <3>2
    <3> QED BY <3>2, <3>3
  <2>6. SeqAdd(s.bufferSeq, k) \in SeqNum
    BY <2>2, SeqAddType DEF Good, Channel
  <2> DEFINE moved == [s EXCEPT !.bufferSeq = SeqAdd(s.bufferSeq, k),
                                !.rxList = rest, !.handed = handed]
  <2>7. /\ moved \in Channel /\ moved.txList = s.txList /\ moved.nextTxSeq = s.nextTxSeq
        /\ moved.expectedAckSeq = s.expectedAckSeq /\ moved.retransTimer = s.retransTimer
        /\ moved.rxList = rest
    BY <2>6 DEF Good, Channel
  <2>8. r = IF k = n THEN moved
            ELSE [moved EXCEPT !.rxList[1].trims = @ + 1, !.isRxWindowFull = TRUE]
    BY <1>3, <2>3, <2>4, <2>5 DEF RecvEnhanceFrameInner
  <2> HIDE DEF r, moved
  <2>9. Good(moved) BY <2>7, SameWindowFields
  <2>10. CASE k = n
    BY <2>8, <2>9, <2>10 DEF r
  <2>11. CASE k # n
    <3>1. 1 \in 1 .. Len(rest)
      BY <2>1, <2>11, <1>1, <2>5, <1>0
    <3>2. rest[1] \in RxFrame
      BY <3>1, ElementOfSeq
    <3>3. PICK g \in RxFrame : g = [rest[1] EXCEPT !.trims = rest[1].trims + 1]
      <4>1. ASSUME NEW t \in RxFrame
            PROVE  [t EXCEPT !.trims = t.trims + 1] \in RxFrame
        BY DEF RxFrame
      <4> QED BY <3>2, <4>1, Zenon
    <3>4. PICK list \in Seq(RxFrame) : list = [rest EXCEPT ![1] = g]
      BY <3>1, ExceptSeq
    <3>5. r = [moved EXCEPT !.rxList = list, !.isRxWindowFull = TRUE]
      BY <2>7, <2>8, <2>11, <3>3, <3>4 DEF Channel
    <3>6. /\ r \in Channel /\ r.txList = moved.txList /\ r.nextTxSeq = moved.nextTxSeq
          /\ r.expectedAckSeq = moved.expectedAckSeq /\ r.retransTimer = moved.retransTimer
      BY <3>5, <2>7 DEF Channel
    <3>7. Good(r) BY <3>6, <2>9, SameWindowFields
    <3> QED BY <3>7 DEF r
  <2> QED BY <2>10, <2>11
<1> QED BY <1>2, <1>3

\* DTAP_RecvEnhanceFrame for an acknowledgement.
LEMMA RecvAckFrameGood ==
  ASSUME NEW s, Good(s), NEW f \in AckFrame, NEW ok \in BOOLEAN
  PROVE  Good(RecvAckFrame(s, f, ok))
<1> DEFINE asked == [s EXCEPT !.reTxSeq = f.reqSeq]
           s1 == IF f.sBit THEN RetransEnhanceFrame(asked, ok) ELSE s
<1>1. f.reqSeq \in SeqNum
  BY DEF AckFrame
<1>2. Good(asked)
  BY <1>1, SetReTxSeqGood
<1>3. Good(s1)
  BY <1>2, RetransGood
<1>4. \/ RecvAckFrame(s, f, ok) = s1
      \/ RecvAckFrame(s, f, ok) = TransChannelStatusChange(SlideTxWindow(s1, f.reqSeq), ok)
  BY DEF RecvAckFrame
<1> HIDE DEF s1
<1>5. Good(SlideTxWindow(s1, f.reqSeq))
  BY <1>1, <1>3, SlideTxWindowGood
<1>6. Good(TransChannelStatusChange(SlideTxWindow(s1, f.reqSeq), ok))
  BY <1>5, StatusChangeGood
<1> QED BY <1>3, <1>4, <1>6

\* DTAP_RecvEnhanceFrame for a data frame.
LEMMA RecvIntoWindowGood ==
  ASSUME NEW s, Good(s), NEW f \in DataFrame
  PROVE  Good(RecvIntoWindow(s, f))
<1>1. f.reqSeq \in SeqNum \cup {SEQ_INIT} /\ f.txSeq \in SeqNum /\ f.pdu \in Pdu
  BY DEF DataFrame
<1>2. Good(SlideTxWindow(s, f.reqSeq))
  BY <1>1, SlideTxWindowGood
<1>3. Good(SlideRxWindow(SlideTxWindow(s, f.reqSeq), f.txSeq, f.pdu))
  BY <1>1, <1>2, SlideRxWindowGood
<1> QED BY <1>3, OperateReorderTimerGood DEF RecvIntoWindow

\* The whole handler of a data frame.
LEMMA RecvDataFrameGood ==
  ASSUME NEW s, Good(s), NEW f \in DataFrame, NEW ok \in BOOLEAN,
         NEW k \in HandOvers(RecvIntoWindow(s, f))
  PROVE  Good(RecvDataFrame(s, f, k, ok))
<1> DEFINE s1 == RecvEnhanceFrameInner(RecvIntoWindow(s, f), k)
           s2 == IF f.pBit THEN SendAckFrame(s1, FALSE, ok) ELSE s1
<1>1. Good(s1)
  BY RecvIntoWindowGood, RecvInnerGood
<1>2. RecvDataFrame(s, f, k, ok) = TransChannelStatusChange(s2, ok)
  BY DEF RecvDataFrame
<1> HIDE DEF s1
<1>3. Good(s2)
  BY <1>1, SendAckFrameGood
<1> HIDE DEF s2
<1> QED BY <1>2, <1>3, StatusChangeGood

-----------------------------------------------------------------------------
\* The link holds frames.
LEMMA TransmitType ==
  ASSUME NEW S, NEW queue \in Seq(S), NEW frames \in Seq(S)
  PROVE  Transmit(queue, frames) \in Seq(S)
<1> DEFINE all == queue \o frames
           n == IF Len(all) <= NetCap THEN Len(all) ELSE NetCap
<1>1. all \in Seq(S)
  BY ConcatProperties
<1>2. Len(all) \in Nat /\ n \in 0 .. Len(all)
  BY <1>1, LenProperties, ReliableAssumption
<1>3. Transmit(queue, frames) = SubSeq(all, 1, n)
  BY DEF Transmit
<1> HIDE DEF all, n
<1>4. \A i \in 1 .. n : all[i] \in S
  BY <1>1, <1>2, ElementOfSeq
<1> QED BY <1>2, <1>3, <1>4, SubSeqProperties

\* The inductive invariant: every channel that exists has a consistent send window whose
\* frames are watched by the retransmission timer.
IInv == TypeOK /\ \A e \in Endpoint : alive[e] => Good(ch[e])

\* What a handler leaves satisfies the invariant once its frames are on the link.
LEMMA HandlerKeepsInv ==
  ASSUME IInv, NEW e \in Endpoint, NEW s, Good(s),
         ch' = [ch EXCEPT ![e] = [s EXCEPT !.out = << >>]],
         net' \in [Endpoint -> Seq(AckFrame \cup DataFrame)],
         alive' = alive,
         offered' \in [Endpoint -> Nat]
  PROVE  IInv'
<1> DEFINE r == [s EXCEPT !.out = << >>]
<1>1. << >> \in Seq(AckFrame \cup DataFrame)
  BY EmptySeq
<1>2. /\ r \in Channel /\ r.txList = s.txList /\ r.nextTxSeq = s.nextTxSeq
      /\ r.expectedAckSeq = s.expectedAckSeq /\ r.retransTimer = s.retransTimer
  BY <1>1 DEF Good, Channel
<1> HIDE DEF r
<1>3. Good(r) BY <1>2, SameWindowFields
<1>4. ch' = [ch EXCEPT ![e] = r]
  BY DEF r
<1>5. ch' \in [Endpoint -> Channel]
  BY <1>2, <1>4 DEF IInv, TypeOK
<1>6. TypeOK'
  BY <1>5 DEF IInv, TypeOK
<1>7. ASSUME NEW x \in Endpoint, alive'[x]
      PROVE  Good(ch'[x])
  <2>1. CASE x = e
    BY <2>1, <1>3, <1>4 DEF IInv, TypeOK
  <2>2. CASE x # e
    BY <2>2, <1>4, <1>7 DEF IInv, TypeOK
  <2> QED BY <2>1, <2>2
<1> QED BY <1>6, <1>7 DEF IInv, Good, TxWindow, TxLossIsWatched

\* The two endpoints are distinct.
LEMMA PeerType ==
  ASSUME NEW e \in Endpoint
  PROVE  Peer(e) \in Endpoint /\ Peer(e) # e
BY ReliableAssumption DEF Peer, Endpoint

\* Commit puts the frames of a handler on the link.
LEMMA CommitKeepsInv ==
  ASSUME IInv, NEW e \in Endpoint, NEW s, Good(s), Commit(e, s), alive' = alive,
         offered' \in [Endpoint -> Nat]
  PROVE  IInv'
<1>1. s.out \in Seq(AckFrame \cup DataFrame)
  BY DEF Good, Channel
<1>2. net[Peer(e)] \in Seq(AckFrame \cup DataFrame)
  BY PeerType DEF IInv, TypeOK
<1>3. Transmit(net[Peer(e)], s.out) \in Seq(AckFrame \cup DataFrame)
  BY <1>1, <1>2, TransmitType
<1>4. net' \in [Endpoint -> Seq(AckFrame \cup DataFrame)]
  BY <1>3, PeerType DEF IInv, TypeOK, Commit
<1> QED BY <1>4, HandlerKeepsInv DEF Commit

\* Receive takes a frame off the link and puts the answers on it.
LEMMA ReceiveKeepsInv ==
  ASSUME IInv, NEW e \in Endpoint, NEW s, Good(s), net[e] # << >>, Receive(e, s)
  PROVE  IInv'
<1>1. s.out \in Seq(AckFrame \cup DataFrame)
  BY DEF Good, Channel
<1>2. net[Peer(e)] \in Seq(AckFrame \cup DataFrame) /\ Tail(net[e]) \in Seq(AckFrame \cup DataFrame)
  BY PeerType, HeadTailProperties DEF IInv, TypeOK
<1>3. Transmit(net[Peer(e)], s.out) \in Seq(AckFrame \cup DataFrame)
  BY <1>1, <1>2, TransmitType
<1>4. net' \in [Endpoint -> Seq(AckFrame \cup DataFrame)]
  BY <1>2, <1>3, PeerType DEF IInv, TypeOK, Receive
<1>5. offered' \in [Endpoint -> Nat] /\ alive' = alive
  BY DEF IInv, TypeOK, Receive
<1> QED BY <1>4, <1>5, HandlerKeepsInv DEF Receive

\* Both channels start empty.
LEMMA InitInv == Init => IInv
<1> SUFFICES ASSUME Init PROVE IInv
  OBVIOUS
<1>1. ch = [e \in Endpoint |-> InitChannel] /\ InitChannel \in Channel
  BY InitGood DEF Init, Good
<1>2. << >> \in Seq(AckFrame \cup DataFrame)
  BY EmptySeq
<1>3. TypeOK
  BY <1>1, <1>2 DEF Init, TypeOK
<1>4. \A e \in Endpoint : Good(ch[e])
  BY <1>1, InitGood
<1> QED BY <1>3, <1>4 DEF IInv

\* Every step keeps the invariant, whatever frames arrive, are lost or are sent again.
LEMMA NextInv ==
  ASSUME IInv, [Next]_vars
  PROVE  IInv'
<1>0. SendOutcomes \subseteq BOOLEAN
  BY ReliableAssumption
<1>1. ASSUME NEW e \in Endpoint, Send(e)
      PROVE  IInv'
  <2> DEFINE m == offered[e] + 1
  <2>1. PICK ok \in SendOutcomes :
          Commit(e, [SendEnhanceFrame(ch[e], m, ok)
                       EXCEPT !.transBusy = SendReportsFull(ch[e], m, ok)])
    BY <1>1 DEF Send
  <2> DEFINE s == SendEnhanceFrame(ch[e], m, ok)
             busy == SendReportsFull(ch[e], m, ok)
             r == [s EXCEPT !.transBusy = busy]
  <2>2. Good(ch[e]) /\ offered[e] \in Nat
    BY <1>1 DEF Send, IInv, TypeOK
  <2>3. m \in Msg
    <3>1. offered[e] < MaxMsg[e]
      BY <1>1 DEF Send
    <3>2. MaxMsg[e] \in Nat /\ 1 .. MaxMsg[e] \subseteq Msg
      BY ReliableAssumption
    <3>3. m \in 1 .. MaxMsg[e]
      BY <2>2, <3>1, <3>2
    <3> QED BY <3>2, <3>3
  <2>4. Good(s)
    BY <1>0, <2>2, <2>3, SendEnhanceFrameGood
  <2>5. busy \in BOOLEAN
    BY DEF SendReportsFull
  <2>6. Commit(e, r)
    BY <2>1
  <2> HIDE DEF s, busy, r
  <2>7. /\ r \in Channel /\ r.txList = s.txList /\ r.nextTxSeq = s.nextTxSeq
        /\ r.expectedAckSeq = s.expectedAckSeq /\ r.retransTimer = s.retransTimer
    BY <2>4, <2>5 DEF Good, Channel, r
  <2>8. Good(r) BY <2>4, <2>7, SameWindowFields
  <2>9. alive' = alive /\ offered' \in [Endpoint -> Nat]
    BY <1>1, <2>2 DEF Send, IInv, TypeOK
  <2> QED BY <2>6, <2>8, <2>9, CommitKeepsInv
<1>2. ASSUME NEW e \in Endpoint, RecvAck(e)
      PROVE  IInv'
  <2>1. PICK ok \in SendOutcomes : Receive(e, RecvAckFrame(ch[e], Head(net[e]), ok))
    BY <1>2 DEF RecvAck
  <2>2. Good(ch[e]) /\ net[e] # << >> /\ Head(net[e]) \in AckFrame \cup DataFrame
    BY <1>2, HeadTailProperties DEF RecvAck, IInv, TypeOK
  <2>3. Head(net[e]) \in AckFrame
    BY <1>2, <2>2 DEF RecvAck, DataFrame
  <2>4. Good(RecvAckFrame(ch[e], Head(net[e]), ok))
    BY <1>0, <2>2, <2>3, RecvAckFrameGood
  <2> QED BY <2>1, <2>2, <2>4, ReceiveKeepsInv
<1>3. ASSUME NEW e \in Endpoint, RecvData(e)
      PROVE  IInv'
  <2>1. PICK ok \in SendOutcomes, k \in HandOvers(RecvIntoWindow(ch[e], Head(net[e]))) :
          Receive(e, RecvDataFrame(ch[e], Head(net[e]), k, ok))
    BY <1>3 DEF RecvData
  <2>2. Good(ch[e]) /\ net[e] # << >> /\ Head(net[e]) \in AckFrame \cup DataFrame
    BY <1>3, HeadTailProperties DEF RecvData, IInv, TypeOK
  <2>3. Head(net[e]) \in DataFrame
    BY <1>3, <2>2 DEF RecvData, AckFrame
  <2>4. Good(RecvDataFrame(ch[e], Head(net[e]), k, ok))
    BY <1>0, <2>2, <2>3, RecvDataFrameGood
  <2> QED BY <2>1, <2>2, <2>4, ReceiveKeepsInv
<1>4. ASSUME NEW e \in Endpoint, RefuseData(e)
      PROVE  IInv'
  <2>1. Good(ch[e]) /\ net[e] # << >> /\ Receive(e, ch[e])
    BY <1>4 DEF RefuseData, IInv
  <2> QED BY <2>1, ReceiveKeepsInv
<1>5. ASSUME NEW e \in Endpoint, LoseFrame(e)
      PROVE  IInv'
  <2>1. net[e] \in Seq(AckFrame \cup DataFrame) /\ net[e] # << >>
    BY <1>5 DEF LoseFrame, IInv, TypeOK
  <2>2. Tail(net[e]) \in Seq(AckFrame \cup DataFrame)
    BY <2>1, HeadTailProperties
  <2>3. net' \in [Endpoint -> Seq(AckFrame \cup DataFrame)]
    BY <1>5, <2>2 DEF LoseFrame, IInv, TypeOK
  <2>4. UNCHANGED <<ch, alive, offered>>
    BY <1>5 DEF LoseFrame
  <2> QED BY <2>3, <2>4 DEF IInv, TypeOK, Good, TxWindow, TxLossIsWatched
<1>6. ASSUME NEW e \in Endpoint, RspTimerExpireProc(e)
      PROVE  IInv'
  <2>1. PICK ok \in SendOutcomes : Commit(e, SendAckFrame(ch[e], FALSE, ok))
    BY <1>6 DEF RspTimerExpireProc
  <2>2. Good(SendAckFrame(ch[e], FALSE, ok))
    BY <1>0, <1>6, SendAckFrameGood DEF RspTimerExpireProc, IInv
  <2>3. alive' = alive /\ offered' \in [Endpoint -> Nat]
    BY <1>6 DEF RspTimerExpireProc, IInv, TypeOK
  <2> QED BY <2>1, <2>2, <2>3, CommitKeepsInv
<1>7. ASSUME NEW e \in Endpoint, ReorderTimerExpireProc(e)
      PROVE  IInv'
  <2>0. Good(ch[e]) /\ alive' = alive /\ offered' \in [Endpoint -> Nat]
    BY <1>7 DEF ReorderTimerExpireProc, IInv, TypeOK
  <2>1. CASE ch[e].nackCnt >= MaxTxThreshold
    <3> DEFINE s == ch[e]
               r == [s EXCEPT !.isDestroyMsgSent = TRUE]
    <3>1. Commit(e, r)
      BY <1>7, <2>1 DEF ReorderTimerExpireProc
    <3>2. /\ r \in Channel /\ r.txList = s.txList /\ r.nextTxSeq = s.nextTxSeq
          /\ r.expectedAckSeq = s.expectedAckSeq /\ r.retransTimer = s.retransTimer
      BY <2>0 DEF Good, Channel
    <3> HIDE DEF s, r
    <3>3. Good(s) BY <2>0 DEF s
    <3>4. Good(r) BY <3>2, <3>3, SameWindowFields
    <3> QED BY <3>1, <3>4, <2>0, CommitKeepsInv
  <2>2. CASE ~(ch[e].nackCnt >= MaxTxThreshold)
    <3>1. PICK ok \in SendOutcomes :
            Commit(e, [SendAckFrame(ch[e], TRUE, ok)
                         EXCEPT !.nackCnt = IF ok THEN @ + 1 ELSE @])
      BY <1>7, <2>2 DEF ReorderTimerExpireProc
    <3> DEFINE s == SendAckFrame(ch[e], TRUE, ok)
               r == [s EXCEPT !.nackCnt = IF ok THEN @ + 1 ELSE @]
    <3>2. Good(s)
      BY <1>0, <2>0, SendAckFrameGood
    <3>3. s.nackCnt = ch[e].nackCnt
      BY <2>0 DEF SendAckFrame, SendFrame, Good, Channel
    <3>4. ch[e].nackCnt \in 0 .. MaxTxThreshold /\ ch[e].nackCnt + 1 \in 0 .. MaxTxThreshold
      <4>1. PICK n \in 0 .. MaxTxThreshold : n = ch[e].nackCnt
        BY <2>0 DEF Good, Channel
      <4>2. MaxTxThreshold \in Nat /\ ~(n >= MaxTxThreshold)
        BY <2>2, <4>1, ReliableAssumption
      <4>3. n + 1 \in 0 .. MaxTxThreshold
        BY <4>2
      <4> QED BY <4>1, <4>3
    <3>5. Commit(e, r)
      BY <3>1
    <3> HIDE DEF s
    <3>6. /\ r \in Channel /\ r.txList = s.txList /\ r.nextTxSeq = s.nextTxSeq
          /\ r.expectedAckSeq = s.expectedAckSeq /\ r.retransTimer = s.retransTimer
      BY <3>2, <3>3, <3>4 DEF Good, Channel
    <3> HIDE DEF r
    <3>7. Good(r) BY <3>2, <3>6, SameWindowFields
    <3> QED BY <3>5, <3>7, <2>0, CommitKeepsInv
  <2> QED BY <2>1, <2>2
<1>8. ASSUME NEW e \in Endpoint, RetransTimerExpireProc(e)
      PROVE  IInv'
  <2>1. PICK ok \in SendOutcomes :
          Commit(e, RetransEnhanceFrame([ch[e] EXCEPT !.reTxSeq = ch[e].expectedAckSeq], ok))
    BY <1>8 DEF RetransTimerExpireProc
  <2>2. Good(ch[e]) /\ alive' = alive /\ offered' \in [Endpoint -> Nat]
    BY <1>8 DEF RetransTimerExpireProc, IInv, TypeOK
  <2>3. ch[e].expectedAckSeq \in SeqNum
    BY <2>2 DEF Good, Channel
  <2>4. Good([ch[e] EXCEPT !.reTxSeq = ch[e].expectedAckSeq])
    BY <2>2, <2>3, SetReTxSeqGood
  <2>5. Good(RetransEnhanceFrame([ch[e] EXCEPT !.reTxSeq = ch[e].expectedAckSeq], ok))
    BY <1>0, <2>4, RetransGood
  <2> QED BY <2>1, <2>2, <2>5, CommitKeepsInv
<1>9. ASSUME NEW e \in Endpoint, SetTransChannelStatus(e)
      PROVE  IInv'
  <2> DEFINE s == ch[e]
             room == [s EXCEPT !.isRxWindowFull = FALSE]
  <2>1. PICK k \in HandOvers(room) : Commit(e, RecvEnhanceFrameInner(room, k))
    BY <1>9 DEF SetTransChannelStatus
  <2>2. Good(s) /\ alive' = alive /\ offered' \in [Endpoint -> Nat]
    BY <1>9 DEF SetTransChannelStatus, IInv, TypeOK
  <2>3. /\ room \in Channel /\ room.txList = s.txList /\ room.nextTxSeq = s.nextTxSeq
        /\ room.expectedAckSeq = s.expectedAckSeq /\ room.retransTimer = s.retransTimer
    BY <2>2 DEF Good, Channel
  <2> HIDE DEF s, room
  <2>4. Good(room) BY <2>2, <2>3, SameWindowFields
  <2>5. Good(RecvEnhanceFrameInner(room, k)) BY <2>4, RecvInnerGood
  <2> QED BY <2>1, <2>2, <2>5, CommitKeepsInv
<1>10. ASSUME NEW e \in Endpoint, ChannelDel(e)
       PROVE  IInv'
  <2> DEFINE s == ch[e]
             r == [s EXCEPT !.txList = << >>, !.rxList = << >>, !.cacheBuff = NoMsg,
                            !.retransTimer = FALSE, !.reorderTimer = FALSE]
  <2>0. /\ ch \in [Endpoint -> Channel] /\ alive \in [Endpoint -> BOOLEAN]
        /\ alive' = [alive EXCEPT ![e] = FALSE] /\ net' = net /\ offered' = offered
        /\ ch' = [ch EXCEPT ![e].txList = << >>, ![e].rxList = << >>, ![e].cacheBuff = NoMsg,
                        ![e].retransTimer = FALSE, ![e].reorderTimer = FALSE]
    BY <1>10 DEF ChannelDel, IInv, TypeOK
  <2>1. ch' = [ch EXCEPT ![e] = r]
    BY <2>0
  <2>2. << >> \in Seq(TxFrame) /\ << >> \in Seq(RxFrame)
    BY EmptySeq
  <2>11. s \in Channel
    BY <2>0
  <2> HIDE DEF s
  <2>3. r \in Channel
    BY <2>11, <2>2 DEF Channel
  <2> HIDE DEF r
  <2>12. ch' \in [Endpoint -> Channel]
    BY <2>0, <2>1, <2>3
  <2>13. alive' \in [Endpoint -> BOOLEAN]
    BY <2>0
  <2>4. TypeOK'
    BY <2>0, <2>12, <2>13 DEF IInv, TypeOK
  <2>5. ASSUME NEW x \in Endpoint, alive'[x]
        PROVE  Good(ch'[x])
    <3>1. x # e /\ alive[x]
      BY <2>0, <2>5
    <3>2. ch'[x] = ch[x]
      BY <2>0, <2>1, <3>1
    <3> QED BY <3>1, <3>2 DEF IInv
  <2> QED BY <2>4, <2>5 DEF IInv, Good, TxWindow, TxLossIsWatched
<1>11. CASE UNCHANGED vars
  BY <1>11 DEF vars, IInv, TypeOK, Good, TxWindow, TxLossIsWatched
<1> QED
  BY <1>1, <1>2, <1>3, <1>4, <1>5, <1>6, <1>7, <1>8, <1>9, <1>10, <1>11 DEF Next

\* The invariant holds in every reachable state, for windows, thresholds, messages and
\* link capacities of any size.
THEOREM InvariantHolds == Spec => []IInv
BY InitInv, NextInv, PTL DEF Spec

\* Type correctness of both channels and the link.
THEOREM TypeCorrect == Spec => []TypeOK
<1>1. IInv => TypeOK
  BY DEF IInv
<1> QED BY <1>1, InvariantHolds, PTL

\* The send window is consecutive, bounded and delimited by expectedAckSeq and nextTxSeq,
\* whatever acknowledgements arrive: lost, late, repeated, negative or piggybacked.
THEOREM TxWindowStaysConsistent == Spec => []TxWindowConsistent
<1>1. IInv => TxWindowConsistent
  BY DEF IInv, TxWindowConsistent, Good
<1> QED BY <1>1, InvariantHolds, PTL

\* Unacknowledged frames always keep the retransmission timer running.
THEOREM UnackedAlwaysWatched == Spec => []UnackedIsWatched
<1>1. IInv => UnackedIsWatched
  BY DEF IInv, UnackedIsWatched, Good
<1> QED BY <1>1, InvariantHolds, PTL

-----------------------------------------------------------------------------
\* The client's messages are kept, and a cached one keeps the client waiting.
Kept(s, k) ==
    /\ s.cacheBuff # NoMsg => s.transBusy
    /\ ~s.isDestroyMsgSent => KeptMessages(s, k)

\* A handler that neither takes nor sends a message; it may ask for the release.
Calm(s, r) ==
    /\ r.sent = s.sent /\ r.cacheBuff = s.cacheBuff /\ r.transBusy = s.transBusy
    /\ s.isDestroyMsgSent => r.isDestroyMsgSent

\* What is kept stays kept in a calm step.
LEMMA CalmKept ==
  ASSUME NEW s, NEW r, NEW k, Kept(s, k), Calm(s, r)
  PROVE  Kept(r, k)
BY DEF Kept, Calm, KeptMessages

\* Calm steps in a row are calm.
LEMMA CalmTwice ==
  ASSUME NEW s, NEW r, NEW t, Calm(s, r), Calm(r, t)
  PROVE  Calm(s, t)
BY DEF Calm

\* DTAP_SendFrame and DTAP_SendAckFrame.
LEMMA SendFrameCalm ==
  ASSUME NEW s \in Channel, NEW f, NEW ok
  PROVE  Calm(s, SendFrame(s, f, ok))
BY DEF Calm, SendFrame, Channel

LEMMA SendAckFrameCalm ==
  ASSUME NEW s \in Channel, NEW sBit, NEW ok
  PROVE  Calm(s, SendAckFrame(s, sBit, ok))
BY SendFrameCalm DEF SendAckFrame

\* Moving reTxSeq.
LEMMA SetReTxSeqCalm ==
  ASSUME NEW s \in Channel, NEW q
  PROVE  Calm(s, [s EXCEPT !.reTxSeq = q])
BY DEF Calm, Channel

\* DTAP_RetransEnhanceFrame, and the release it asks for at the retry limit.
LEMMA RetransCalm ==
  ASSUME NEW s \in Channel, NEW ok \in BOOLEAN
  PROVE  /\ Calm(s, RetransEnhanceFrame(s, ok))
         /\ RetransResult(s, ok) = "reach_max_re_tx_cnt" =>
              RetransEnhanceFrame(s, ok).isDestroyMsgSent
<1> DEFINE i == TxIndex(s.txList, s.reTxSeq)
           polled == [s.txList[i].frame EXCEPT !.pBit = TRUE]
           result == RetransResult(s, ok)
           r == RetransEnhanceFrame(s, ok)
           g == [s.txList[i] EXCEPT !.frame = polled]
           h == [frame |-> polled, reTxCnt |-> s.txList[i].reTxCnt + 1]
<1>0. result \in {"find_frame_err", "reach_max_re_tx_cnt", "success", "send_err"}
  BY DEF RetransResult
<1>1. CASE result = "find_frame_err"
  <2>1. r = s BY <1>1 DEF RetransEnhanceFrame
  <2> QED BY <1>1, <2>1 DEF Calm
<1>2. CASE result = "reach_max_re_tx_cnt"
  <2>1. r = [s EXCEPT !.isDestroyMsgSent = TRUE] BY <1>2 DEF RetransEnhanceFrame
  <2> QED BY <2>1 DEF Calm, Channel
<1>3. CASE result = "send_err"
  <2>1. r = [s EXCEPT !.txList[i].frame = polled]
    BY <1>3 DEF RetransEnhanceFrame
  <2>2. PICK list : r = [s EXCEPT !.txList = list]
    BY <2>1
  <2> HIDE DEF r
  <2>3. Calm(s, r)
    BY <2>2 DEF Calm, Channel
  <2> QED BY <1>3, <2>3 DEF r
<1>4. CASE result = "success"
  <2>1. r = [s EXCEPT !.txList[i] = [frame |-> polled, reTxCnt |-> @.reTxCnt + 1],
                      !.out = Append(@, polled), !.retransTimer = TRUE]
    BY <1>4 DEF RetransEnhanceFrame
  <2>2. PICK list, out : r = [s EXCEPT !.txList = list, !.out = out, !.retransTimer = TRUE]
    BY <2>1
  <2> HIDE DEF r
  <2>3. Calm(s, r)
    BY <2>2 DEF Calm, Channel
  <2> QED BY <1>4, <2>3 DEF r
<1> QED BY <1>0, <1>1, <1>2, <1>3, <1>4

\* DTAP_SlideTxWindow.
LEMMA SlideTxCalm ==
  ASSUME NEW s \in Channel, NEW reqSeq
  PROVE  Calm(s, SlideTxWindow(s, reqSeq))
<1> DEFINE q == IF IsFrameSeqSmaller(s.reTxSeq, reqSeq) THEN reqSeq ELSE s.reTxSeq
           moved == [s EXCEPT !.sendPollingCounter = 0, !.reTxSeq = q]
           r == SlideTxWindow(s, reqSeq)
<1>1. \/ r = s \/ r = [s EXCEPT !.sendPollingCounter = 0] \/ r = moved
      \/ r = [moved EXCEPT !.expectedAckSeq = reqSeq,
                           !.txList = DropAcked(@, reqSeq),
                           !.retransTimer = RetransTimerAfterAck(s, reqSeq)]
  BY DEF SlideTxWindow
<1> HIDE DEF r, q
<1>2. Calm(s, r)
  BY <1>1 DEF Calm, Channel
<1> QED BY <1>2 DEF r

\* DTAP_SlideRxWindow, DTAP_OperateReorderTimer and DTAP_RecvEnhanceFrameInner.
LEMMA SlideRxCalm ==
  ASSUME NEW s \in Channel, NEW txSeq, NEW pdu
  PROVE  Calm(s, SlideRxWindow(s, txSeq, pdu))
BY DEF Calm, Channel, SlideRxWindow

LEMMA OperateReorderTimerCalm ==
  ASSUME NEW s \in Channel
  PROVE  Calm(s, OperateReorderTimer(s))
BY DEF Calm, Channel, OperateReorderTimer

LEMMA RecvInnerCalm ==
  ASSUME NEW s \in Channel, NEW k
  PROVE  Calm(s, RecvEnhanceFrameInner(s, k))
<1> DEFINE r == RecvEnhanceFrameInner(s, k)
<1>1. \E b, list, h, full : r = [s EXCEPT !.bufferSeq = b, !.rxList = list, !.handed = h,
                                          !.isRxWindowFull = full]
      \/ r = s \/ r = [s EXCEPT !.bufferSeq = b, !.rxList = list, !.handed = h]
  <2> DEFINE taken == [i \in 1 .. k |-> [pdu |-> s.rxList[i].pdu, trims |-> s.rxList[i].trims]]
             rest == SubSeq(s.rxList, k + 1, Len(s.rxList))
             moved == [s EXCEPT !.bufferSeq = SeqAdd(@, k), !.rxList = rest,
                                !.handed = @ \o taken]
  <2>1. r = s \/ r = moved
        \/ r = [moved EXCEPT !.rxList[1].trims = @ + 1, !.isRxWindowFull = TRUE]
    BY DEF RecvEnhanceFrameInner
  <2> HIDE DEF r, taken, rest
  <2>2. CASE r = s BY <2>2
  <2>3. CASE r = moved BY <2>3
  <2>4. CASE r = [moved EXCEPT !.rxList[1].trims = @ + 1, !.isRxWindowFull = TRUE]
    <3>1. moved.rxList = rest
      BY DEF Channel
    <3>2. r = [s EXCEPT !.bufferSeq = SeqAdd(s.bufferSeq, k),
                        !.rxList = [rest EXCEPT ![1].trims = rest[1].trims + 1],
                        !.handed = s.handed \o taken,
                        !.isRxWindowFull = TRUE]
      BY <2>4, <3>1 DEF Channel
    <3> QED BY <3>2
  <2> QED BY <2>1, <2>2, <2>3, <2>4
<1> HIDE DEF r
<1>2. Calm(s, r)
  BY <1>1 DEF Calm, Channel
<1> QED BY <1>2 DEF r

-----------------------------------------------------------------------------
\* The fragments of message m, cut into cnt frames.
Fragments(m, cnt) == [i \in 1 .. cnt |-> [msg |-> m, idx |-> i, cnt |-> cnt]]

\* They are PDUs, the first and the last of a message, each following the one before.
LEMMA FragmentsFacts ==
  ASSUME NEW m \in Msg, NEW cnt \in Nat \ {0}
  PROVE  /\ Fragments(m, cnt) \in Seq(Pdu) /\ Len(Fragments(m, cnt)) = cnt
         /\ \A i \in 1 .. cnt : /\ Fragments(m, cnt)[i].msg = m
                                /\ Fragments(m, cnt)[i].idx = i
                                /\ Fragments(m, cnt)[i].cnt = cnt
         /\ \A i \in 1 .. cnt - 1 : Follows(Fragments(m, cnt)[i], Fragments(m, cnt)[i + 1])
<1> DEFINE f == Fragments(m, cnt)
<1>1. f \in [1 .. cnt -> Pdu]
  BY DEF Fragments, Pdu
<1>2. \A i \in 1 .. cnt : f[i] = [msg |-> m, idx |-> i, cnt |-> cnt]
  BY DEF Fragments
<1> HIDE DEF f
<1>3. f \in Seq(Pdu) /\ Len(f) = cnt
  BY <1>1, FunctionIsSeq
<1>4. ASSUME NEW i \in 1 .. cnt - 1
      PROVE  Follows(f[i], f[i + 1])
  <2>1. i \in 1 .. cnt /\ i + 1 \in 1 .. cnt /\ i # cnt
    OBVIOUS
  <2>2. /\ f[i] = [msg |-> m, idx |-> i, cnt |-> cnt]
        /\ f[i + 1] = [msg |-> m, idx |-> i + 1, cnt |-> cnt]
    BY <1>2, <2>1
  <2> QED BY <2>1, <2>2 DEF Follows
<1>5. ASSUME NEW i \in 1 .. cnt
      PROVE  f[i].msg = m /\ f[i].idx = i /\ f[i].cnt = cnt
  <2>1. f[i] = [msg |-> m, idx |-> i, cnt |-> cnt]
    BY <1>2
  <2> QED BY <2>1
<1> QED BY <1>3, <1>4, <1>5 DEF f

\* The next message, appended whole, is one more message.
LEMMA OneMoreMessage ==
  ASSUME NEW put \in Seq(Pdu), NEW k \in Nat, k + 1 \in Msg, WholeMessages(put, k),
         NEW cnt \in Nat \ {0}
  PROVE  WholeMessages(put \o Fragments(k + 1, cnt), k + 1)
<1>0. PICK m \in Msg : m = k + 1
  OBVIOUS
<1>1. PICK more \in Seq(Pdu) :
        /\ more = Fragments(m, cnt) /\ Len(more) = cnt
        /\ \A i \in 1 .. cnt : more[i].msg = m /\ more[i].idx = i /\ more[i].cnt = cnt
        /\ \A i \in 1 .. cnt - 1 : Follows(more[i], more[i + 1])
  BY FragmentsFacts
<1>2. PICK n \in Nat : n = Len(put)
  BY LenProperties
<1>3. PICK all \in Seq(Pdu) : all = put \o more
  BY ConcatProperties
<1>4. /\ Len(all) = n + cnt
      /\ \A i \in 1 .. n + cnt : all[i] = IF i <= n THEN put[i] ELSE more[i - n]
  <2>1. /\ Len(put \o more) = Len(put) + Len(more)
        /\ \A i \in 1 .. Len(put) + Len(more) :
             (put \o more)[i] = IF i <= Len(put) THEN put[i] ELSE more[i - Len(put)]
    BY ConcatProperties, Zenon
  <2> QED BY <1>1, <1>2, <1>3, <2>1, Zenon
<1>5. (k = 0 => n = 0) /\ (k # 0 => n > 0)
  BY <1>2, EmptySeq DEF WholeMessages
<1>6. all[n + cnt].msg = m /\ all[n + cnt].idx = all[n + cnt].cnt
  <2>1. n + cnt \in 1 .. n + cnt /\ ~(n + cnt <= n) /\ (n + cnt) - n = cnt /\ cnt \in 1 .. cnt
    OBVIOUS
  <2> QED BY <1>1, <1>4, <2>1
<1>7. all[n + 1].msg = m /\ all[n + 1].idx = 1
  <2>1. n + 1 \in 1 .. n + cnt /\ ~(n + 1 <= n) /\ (n + 1) - n = 1 /\ 1 \in 1 .. cnt
    OBVIOUS
  <2> QED BY <1>1, <1>4, <2>1
<1>8. all[1].msg = 1 /\ all[1].idx = 1
  <2>1. CASE k = 0
    BY <1>0, <1>5, <1>7, <2>1
  <2>2. CASE k # 0
    <3>1. 1 \in 1 .. n + cnt /\ 1 <= n
      BY <1>5, <2>2
    <3> QED BY <1>4, <2>2, <3>1 DEF WholeMessages
  <2> QED BY <2>1, <2>2
<1>9. ASSUME NEW i \in 1 .. (n + cnt) - 1
      PROVE  Follows(all[i], all[i + 1])
  <2>1. i \in 1 .. n + cnt /\ i + 1 \in 1 .. n + cnt
    OBVIOUS
  <2>2. CASE i < n
    <3>1. i \in 1 .. n - 1 /\ i <= n /\ i + 1 <= n /\ k # 0
      BY <1>5, <2>2
    <3>2. all[i] = put[i] /\ all[i + 1] = put[i + 1]
      BY <1>4, <2>1, <3>1
    <3> QED BY <1>2, <3>1, <3>2 DEF WholeMessages
  <2>3. CASE i = n
    <3>1. i <= n /\ k # 0
      BY <1>5, <2>3
    <3>2. all[i] = put[n]
      BY <1>4, <2>1, <2>3, <3>1
    <3>3. put[n].msg = k /\ put[n].idx = put[n].cnt
      BY <1>2, <3>1 DEF WholeMessages
    <3>4. all[i + 1].msg = m /\ all[i + 1].idx = 1
      BY <1>7, <2>3
    <3> QED BY <1>0, <3>2, <3>3, <3>4 DEF Follows
  <2>4. CASE i > n
    <3>1. /\ i - n \in 1 .. cnt - 1 /\ ~(i <= n) /\ ~(i + 1 <= n)
          /\ (i + 1) - n = (i - n) + 1
      BY <2>4
    <3>2. all[i] = more[i - n] /\ all[i + 1] = more[(i + 1) - n]
      BY <1>4, <2>1, <3>1, Zenon
    <3>3. all[i + 1] = more[(i - n) + 1]
      BY <3>1, <3>2
    <3> QED BY <1>1, <3>1, <3>2, <3>3, Zenon
  <2> QED BY <2>2, <2>3, <2>4
<1>10. all # << >> /\ m # 0
  BY <1>0, <1>4, EmptySeq
<1>11. WholeMessages(all, m)
  BY <1>4, <1>6, <1>8, <1>9, <1>10 DEF WholeMessages
<1> QED BY <1>0, <1>1, <1>3, <1>11

\* r is s after message m has gone into the send window, or after giving up.
SendsMessage(s, r, m) ==
    /\ r.cacheBuff = s.cacheBuff /\ r.transBusy = s.transBusy
    /\ s.isDestroyMsgSent => r.isDestroyMsgSent
    /\ \/ r.isDestroyMsgSent
       \/ \A k \in Nat : WholeMessages(s.sent, k) /\ m = k + 1 => WholeMessages(r.sent, m)

\* DTAP_SendEnhanceFrameInner sends the whole message, unless the retransmission before
\* it reached its limit: then the release has been asked for.
LEMMA SendInnerWhole ==
  ASSUME NEW s, Good(s), NEW m \in Msg, NEW ok \in BOOLEAN
  PROVE  SendsMessage(s, SendEnhanceFrameInner(s, m, ok), m)
<1> DEFINE frames == PackEnhanceFrames(s, m)
           cnt == FrameCnt[m][s.isRecvFrame]
           s1 == RetransBeforeSend(s, ok)
           r == SendEnhanceFrameInner(s, m, ok)
<1>0. s \in Channel
  BY DEF Good
<1>1. CASE SendGivesUp(s, ok)
  <2>1. r = RetransEnhanceFrame(s, ok)
    BY <1>1 DEF SendEnhanceFrameInner
  <2>2. Calm(s, r) /\ r.isDestroyMsgSent
    BY <1>0, <1>1, <2>1, RetransCalm DEF SendGivesUp
  <2> QED BY <2>2 DEF Calm, SendsMessage
<1>2. CASE ~SendGivesUp(s, ok)
  <2>1. cnt \in Nat \ {0}
    BY PackGood
  <2>2. [i \in 1 .. cnt |-> frames[i].pdu] = Fragments(m, cnt)
    BY DEF PackEnhanceFrames, Fragments
  <2>3. Good(s1) /\ Calm(s, s1)
    <3>1. Good(s1)
      BY RetransBeforeSendGood
    <3>2. CASE IsFrameSeqSmaller(s.reTxSeq, s.nextTxSeq)
      <4> DEFINE t == RetransEnhanceFrame(s, ok)
      <4>1. t \in Channel /\ Calm(s, t)
        BY <1>0, RetransCalm, RetransGood DEF Good
      <4>2. s1 = [t EXCEPT !.reTxSeq = s.nextTxSeq]
        BY <3>2 DEF RetransBeforeSend
      <4> HIDE DEF t, s1
      <4>3. Calm(t, s1)
        BY <4>1, <4>2, SetReTxSeqCalm
      <4>4. Calm(s, s1)
        BY <4>1, <4>3, CalmTwice
      <4> QED BY <3>1, <4>4 DEF s1
    <3>3. CASE ~IsFrameSeqSmaller(s.reTxSeq, s.nextTxSeq)
      BY <3>1, <3>3 DEF RetransBeforeSend, Calm
    <3> QED BY <3>2, <3>3
  <2>4. r = [s1 EXCEPT
                !.sendPollingCounter = PollingAt(@, cnt),
                !.out = @ \o frames,
                !.reTxSeq = SeqAdd(@, cnt),
                !.nextTxSeq = SeqAdd(@, cnt),
                !.txList = @ \o [i \in 1 .. cnt |-> [frame |-> frames[i], reTxCnt |-> 0]],
                !.retransTimer = TRUE,
                !.sent = @ \o [i \in 1 .. cnt |-> frames[i].pdu]]
    BY <1>2 DEF SendEnhanceFrameInner
  <2>5. PICK list : list = [i \in 1 .. cnt |-> [frame |-> frames[i], reTxCnt |-> 0]]
    OBVIOUS
  <2>6. r = [s1 EXCEPT !.sendPollingCounter = PollingAt(@, cnt), !.out = @ \o frames,
                !.reTxSeq = SeqAdd(@, cnt), !.nextTxSeq = SeqAdd(@, cnt),
                !.txList = @ \o list, !.retransTimer = TRUE,
                !.sent = @ \o Fragments(m, cnt)]
    BY <2>2, <2>4, <2>5
  <2> HIDE DEF frames, cnt, s1, r
  <2>7. /\ r.sent = s1.sent \o Fragments(m, cnt)
        /\ r.cacheBuff = s1.cacheBuff /\ r.transBusy = s1.transBusy
        /\ r.isDestroyMsgSent = s1.isDestroyMsgSent
    BY <2>3, <2>6 DEF Good, Channel
  <2>8. r.sent = s.sent \o Fragments(m, cnt)
    BY <2>3, <2>7 DEF Calm
  <2>9. s.sent \in Seq(Pdu)
    BY <1>0 DEF Channel
  <2>10. ASSUME NEW k \in Nat, WholeMessages(s.sent, k), m = k + 1
         PROVE  WholeMessages(r.sent, m)
    BY <2>1, <2>8, <2>9, <2>10, OneMoreMessage
  <2>11. SendsMessage(s, r, m)
    BY <2>3, <2>7, <2>10 DEF SendsMessage, Calm
  <2> QED BY <2>11 DEF r
<1> QED BY <1>1, <1>2


\* DTAP_SendEnhanceFrame for a message that fits sends it.
LEMMA FittingMessageSent ==
  ASSUME NEW s, Good(s), NEW m \in Msg, NEW ok \in BOOLEAN,
         ~(Len(s.txList) + FrameCnt[m][s.isRecvFrame] > WinSize)
  PROVE  SendsMessage(s, SendEnhanceFrame(s, m, ok), m)
<1> DEFINE need == Len(s.txList) + FrameCnt[m][s.isRecvFrame]
<1>1. PICK full \in BOOLEAN : full = (s.isTxWindowFull \/ need = WinSize)
  OBVIOUS
<1> DEFINE t == [s EXCEPT !.isTxWindowFull = full]
<1>2. /\ t \in Channel /\ t.txList = s.txList /\ t.nextTxSeq = s.nextTxSeq
      /\ t.expectedAckSeq = s.expectedAckSeq /\ t.retransTimer = s.retransTimer
      /\ Calm(s, t) /\ t.isDestroyMsgSent = s.isDestroyMsgSent
  BY DEF Good, Channel, Calm
<1>3. SendEnhanceFrame(s, m, ok) = SendEnhanceFrameInner(t, m, ok)
  BY <1>1 DEF SendEnhanceFrame
<1> HIDE DEF t
<1>4. Good(t)
  BY <1>2, SameWindowFields
<1>5. SendsMessage(t, SendEnhanceFrameInner(t, m, ok), m)
  BY <1>4, SendInnerWhole
<1> QED BY <1>2, <1>3, <1>5 DEF SendsMessage, Calm

\* A message of the client is sent or cached, and then the client is told to wait.
LEMMA SendKeeps ==
  ASSUME NEW s, Good(s), NEW k \in Nat, NEW m \in Msg, m = k + 1, NEW ok \in BOOLEAN,
         Kept(s, k), ~s.transBusy
  PROVE  Kept([SendEnhanceFrame(s, m, ok) EXCEPT !.transBusy = SendReportsFull(s, m, ok)], m)
<1> DEFINE need == Len(s.txList) + FrameCnt[m][s.isRecvFrame]
           u == SendEnhanceFrame(s, m, ok)
           busy == SendReportsFull(s, m, ok)
           r == [u EXCEPT !.transBusy = busy]
<1>1. s.cacheBuff = NoMsg /\ m # NoMsg /\ m - 1 = k
  BY ReliableAssumption DEF Kept
<1>2. u \in Channel
  BY SendEnhanceFrameGood DEF Good
<1>3. CASE need > WinSize
  <2>1. u = [s EXCEPT !.cacheBuff = m, !.isTxWindowFull = TRUE]
    BY <1>1, <1>3 DEF SendEnhanceFrame
  <2>2. busy
    BY <1>3 DEF SendReportsFull
  <2> HIDE DEF u, busy
  <2>3. /\ r.cacheBuff = m /\ r.sent = s.sent /\ r.transBusy
        /\ r.isDestroyMsgSent = s.isDestroyMsgSent
    BY <1>2, <2>1, <2>2 DEF Good, Channel
  <2>4. ~s.isDestroyMsgSent => WholeMessages(s.sent, k)
    BY <1>1 DEF Kept, KeptMessages
  <2> HIDE DEF r
  <2>5. Kept(r, m)
    BY <1>1, <2>3, <2>4 DEF Kept, KeptMessages
  <2> QED BY <2>5 DEF r, u, busy
<1>4. CASE ~(need > WinSize)
  <2>1. SendsMessage(s, u, m)
    BY <1>4, FittingMessageSent
  <2> HIDE DEF u, busy
  <2>2. /\ r.cacheBuff = u.cacheBuff /\ r.sent = u.sent
        /\ r.isDestroyMsgSent = u.isDestroyMsgSent
    BY <1>2 DEF Channel
  <2> HIDE DEF r
  <2>3. r.cacheBuff = NoMsg
    BY <1>1, <2>1, <2>2 DEF SendsMessage
  <2>4. ASSUME ~r.isDestroyMsgSent
        PROVE  WholeMessages(r.sent, m)
    <3>1. WholeMessages(s.sent, k)
      BY <1>1, <2>1, <2>2, <2>4 DEF Kept, KeptMessages, SendsMessage
    <3> QED BY <2>1, <2>2, <2>4, <3>1 DEF SendsMessage
  <2>5. Kept(r, m)
    BY <2>3, <2>4 DEF Kept, KeptMessages
  <2> QED BY <2>5 DEF r, u, busy
<1> QED BY <1>3, <1>4

\* DTAP_TransSendCacheBuff empties the cache only into the window.
LEMMA TransSendCacheBuffKeeps ==
  ASSUME NEW s, Good(s), NEW ok \in BOOLEAN, s.cacheBuff # NoMsg, NEW k \in Nat, Kept(s, k)
  PROVE  Kept(TransSendCacheBuff(s, ok), k)
<1> DEFINE m == s.cacheBuff
           need == Len(s.txList) + FrameCnt[m][s.isRecvFrame]
<1>0. m \in Msg /\ m \in Nat \ {0} /\ need \in Int /\ WinSize \in Nat
  <2>1. m \in Msg /\ s.isRecvFrame \in BOOLEAN /\ Len(s.txList) \in Nat
    BY LenProperties DEF Good, Channel
  <2>2. FrameCnt[m][s.isRecvFrame] \in Nat
    BY <2>1, PackGood
  <2>3. m \in Nat \ {0}
    BY <2>1, ReliableAssumption DEF NoMsg
  <2>4. need \in Int
    BY <2>1, <2>2
  <2> QED BY <2>1, <2>3, <2>4, WindowFacts
<1>1. CASE need >= WinSize
  BY <1>1 DEF TransSendCacheBuff
<1>2. CASE ~(need >= WinSize)
  <2> DEFINE t == [s EXCEPT !.isTxWindowFull = FALSE]
             u == SendEnhanceFrame(t, m, ok)
             r == TransSendCacheBuff(s, ok)
  <2>1. /\ t \in Channel /\ t.txList = s.txList /\ t.nextTxSeq = s.nextTxSeq
        /\ t.expectedAckSeq = s.expectedAckSeq /\ t.retransTimer = s.retransTimer
        /\ t.isRecvFrame = s.isRecvFrame
        /\ t.sent = s.sent /\ t.isDestroyMsgSent = s.isDestroyMsgSent
    BY DEF Good, Channel
  <2>2. r = [u EXCEPT !.cacheBuff = NoMsg, !.transBusy = FALSE]
    BY <1>2 DEF TransSendCacheBuff
  <2>3. ~(Len(t.txList) + FrameCnt[m][t.isRecvFrame] > WinSize)
    <3>1. ~(need > WinSize)
      BY <1>0, <1>2
    <3> QED BY <2>1, <3>1, Zenon
  <2> HIDE DEF t
  <2>4. Good(t)
    BY <2>1, SameWindowFields
  <2>5. Good(u) /\ SendsMessage(t, u, m)
    BY <1>0, <2>3, <2>4, SendEnhanceFrameGood, FittingMessageSent
  <2> HIDE DEF u, r
  <2>6. /\ r.cacheBuff = NoMsg /\ r.sent = u.sent
        /\ r.isDestroyMsgSent = u.isDestroyMsgSent
    BY <2>2, <2>5 DEF Good, Channel
  <2>7. ASSUME ~r.isDestroyMsgSent
        PROVE  WholeMessages(r.sent, k)
    <3>1. ~s.isDestroyMsgSent
      BY <2>1, <2>5, <2>6, <2>7 DEF SendsMessage
    <3>2. m = k /\ WholeMessages(t.sent, k - 1)
      BY <2>1, <3>1 DEF Kept, KeptMessages
    <3>3. k - 1 \in Nat /\ m = (k - 1) + 1
      BY <1>0, <3>2
    <3> QED BY <2>5, <2>6, <2>7, <3>2, <3>3 DEF SendsMessage
  <2>8. Kept(r, k)
    BY <2>6, <2>7 DEF Kept, KeptMessages
  <2> QED BY <2>8 DEF r
<1> QED BY <1>1, <1>2

\* DTAP_TransChannelStatusChange: the client goes on when nothing is cached any more.
LEMMA StatusChangeKeeps ==
  ASSUME NEW s, Good(s), NEW ok \in BOOLEAN, NEW k \in Nat, Kept(s, k)
  PROVE  Kept(TransChannelStatusChange(s, ok), k)
<1> DEFINE r == [s EXCEPT !.isTxWindowFull = FALSE, !.transBusy = FALSE]
<1>1. /\ r.sent = s.sent /\ r.cacheBuff = s.cacheBuff
      /\ r.isDestroyMsgSent = s.isDestroyMsgSent
  BY DEF Good, Channel
<1>2. \/ TransChannelStatusChange(s, ok) = s
      \/ s.cacheBuff = NoMsg /\ TransChannelStatusChange(s, ok) = r
      \/ s.cacheBuff # NoMsg /\ TransChannelStatusChange(s, ok) = TransSendCacheBuff(s, ok)
  BY DEF TransChannelStatusChange
<1> HIDE DEF r
<1>3. s.cacheBuff = NoMsg => Kept(r, k)
  BY <1>1 DEF Kept, KeptMessages
<1> QED BY <1>2, <1>3, TransSendCacheBuffKeeps

\* DTAP_RecvEnhanceFrame for an acknowledgement.
LEMMA RecvAckFrameKeeps ==
  ASSUME NEW s, Good(s), NEW f \in AckFrame, NEW ok \in BOOLEAN, NEW k \in Nat, Kept(s, k)
  PROVE  Kept(RecvAckFrame(s, f, ok), k)
<1> DEFINE asked == [s EXCEPT !.reTxSeq = f.reqSeq]
           s1 == IF f.sBit THEN RetransEnhanceFrame(asked, ok) ELSE s
           s2 == SlideTxWindow(s1, f.reqSeq)
<1>1. f.reqSeq \in SeqNum /\ s \in Channel
  BY DEF AckFrame, Good
<1>2. Good(asked) /\ asked \in Channel /\ Calm(s, asked)
  BY <1>1, SetReTxSeqGood, SetReTxSeqCalm DEF Good
<1> HIDE DEF asked
<1>3. Good(s1) /\ Calm(s, s1)
  <2>1. CASE f.sBit
    BY <2>1, <1>2, RetransGood, RetransCalm, CalmTwice
  <2>2. CASE ~f.sBit
    BY <2>2 DEF Calm
  <2> QED BY <2>1, <2>2
<1>4. RecvAckFrame(s, f, ok) = s1 \/ RecvAckFrame(s, f, ok) = TransChannelStatusChange(s2, ok)
  BY DEF RecvAckFrame, asked
<1> HIDE DEF s1
<1>5. Kept(s1, k) /\ s1 \in Channel
  BY <1>3, CalmKept DEF Good
<1>6. Good(s2) /\ Calm(s1, s2)
  BY <1>1, <1>3, <1>5, SlideTxWindowGood, SlideTxCalm
<1> HIDE DEF s2
<1>7. Kept(s2, k)
  BY <1>5, <1>6, CalmKept
<1> QED BY <1>4, <1>5, <1>6, <1>7, StatusChangeKeeps

\* DTAP_RecvEnhanceFrame for a data frame.
LEMMA RecvDataFrameKeeps ==
  ASSUME NEW s, Good(s), NEW f \in DataFrame, NEW ok \in BOOLEAN,
         NEW h \in HandOvers(RecvIntoWindow(s, f)), NEW k \in Nat, Kept(s, k)
  PROVE  Kept(RecvDataFrame(s, f, h, ok), k)
<1> DEFINE a1 == SlideTxWindow(s, f.reqSeq)
           a2 == SlideRxWindow(a1, f.txSeq, f.pdu)
           a3 == OperateReorderTimer(a2)
           s1 == RecvEnhanceFrameInner(a3, h)
           s2 == IF f.pBit THEN SendAckFrame(s1, FALSE, ok) ELSE s1
<1>0. f.reqSeq \in SeqNum \cup {SEQ_INIT} /\ f.txSeq \in SeqNum /\ f.pdu \in Pdu
  BY DEF DataFrame
<1>1. RecvIntoWindow(s, f) = a3 /\ RecvDataFrame(s, f, h, ok) = TransChannelStatusChange(s2, ok)
  BY DEF RecvIntoWindow, RecvDataFrame
<1>2. Good(a1) /\ Kept(a1, k)
  BY <1>0, SlideTxWindowGood, SlideTxCalm, CalmKept DEF Good
<1> HIDE DEF a1
<1>3. Good(a2) /\ Kept(a2, k)
  BY <1>0, <1>2, SlideRxWindowGood, SlideRxCalm, CalmKept DEF Good
<1> HIDE DEF a2
<1>4. Good(a3) /\ Kept(a3, k)
  BY <1>3, OperateReorderTimerGood, OperateReorderTimerCalm, CalmKept DEF Good
<1> HIDE DEF a3
<1>5. Good(s1) /\ Kept(s1, k)
  BY <1>1, <1>4, RecvInnerGood, RecvInnerCalm, CalmKept DEF Good
<1> HIDE DEF s1
<1>6. Good(s2) /\ Kept(s2, k)
  BY <1>5, SendAckFrameGood, SendAckFrameCalm, CalmKept DEF Good
<1> HIDE DEF s2
<1> QED BY <1>1, <1>6, StatusChangeKeeps


-----------------------------------------------------------------------------
\* Every channel keeps what its client has sent.
KInv == IInv /\ \A e \in Endpoint : alive[e] => Kept(ch[e], offered[e])

\* It is enough to look at the endpoint whose handler ran.
LEMMA HandlerKeeps ==
  ASSUME IInv, NEW e \in Endpoint, NEW s \in Channel,
         ch' = [ch EXCEPT ![e] = [s EXCEPT !.out = << >>]],
         alive' = alive,
         offered \in [Endpoint -> Nat],
         \A x \in Endpoint \ {e} : offered'[x] = offered[x],
         \A x \in Endpoint : alive[x] => Kept(ch[x], offered[x]),
         Kept(s, offered'[e])
  PROVE  \A x \in Endpoint : alive'[x] => Kept(ch'[x], offered'[x])
<1> DEFINE r == [s EXCEPT !.out = << >>]
<1>1. Calm(s, r)
  BY DEF Calm, Channel
<1>2. ch' = [ch EXCEPT ![e] = r]
  OBVIOUS
<1> HIDE DEF r
<1>3. PICK k : k = offered'[e]
  OBVIOUS
<1>4. Kept(r, k)
  BY <1>1, <1>3, CalmKept
<1>5. ch \in [Endpoint -> Channel]
  BY DEF IInv, TypeOK
<1>6. ASSUME NEW x \in Endpoint, alive'[x]
      PROVE  Kept(ch'[x], offered'[x])
  <2>1. CASE x = e
    BY <1>2, <1>3, <1>4, <1>5, <2>1
  <2>2. CASE x # e
    BY <1>2, <1>5, <1>6, <2>2
  <2> QED BY <2>1, <2>2
<1> QED BY <1>6

\* The same when the client of no endpoint sends.
LEMMA QuietHandlerKeeps ==
  ASSUME KInv, NEW e \in Endpoint, NEW s \in Channel,
         ch' = [ch EXCEPT ![e] = [s EXCEPT !.out = << >>]],
         alive' = alive, offered' = offered, Kept(s, offered[e])
  PROVE  \A x \in Endpoint : alive'[x] => Kept(ch'[x], offered'[x])
<1>1. IInv /\ offered \in [Endpoint -> Nat]
  BY DEF KInv, IInv, TypeOK
<1>2. \A x \in Endpoint \ {e} : offered'[x] = offered[x]
  OBVIOUS
<1>3. Kept(s, offered'[e])
  OBVIOUS
<1>4. \A x \in Endpoint : alive[x] => Kept(ch[x], offered[x])
  BY DEF KInv
<1> QED BY <1>1, <1>2, <1>3, <1>4, HandlerKeeps

\* Nothing is kept at first, as nothing was sent.
LEMMA InitKeeps == Init => KInv
<1> SUFFICES ASSUME Init PROVE KInv
  OBVIOUS
<1>1. Kept(InitChannel, 0)
  BY DEF Kept, KeptMessages, WholeMessages, InitChannel
<1> QED BY <1>1, InitInv DEF KInv, Init

\* Every step keeps the messages.
LEMMA NextKeeps ==
  ASSUME KInv, [Next]_vars
  PROVE  KInv'
<1> DEFINE Goal == \A x \in Endpoint : alive'[x] => Kept(ch'[x], offered'[x])
<1>0. /\ SendOutcomes \subseteq BOOLEAN /\ IInv
      /\ offered \in [Endpoint -> Nat]
      /\ \A x \in Endpoint : alive[x] => Good(ch[x]) /\ ch[x] \in Channel /\ Kept(ch[x], offered[x])
  BY ReliableAssumption DEF KInv, IInv, TypeOK, Good
<1>1. ASSUME NEW e \in Endpoint, Send(e)
      PROVE  Goal
  <2> DEFINE m == offered[e] + 1
  <2>1. PICK ok \in SendOutcomes :
          Commit(e, [SendEnhanceFrame(ch[e], m, ok)
                       EXCEPT !.transBusy = SendReportsFull(ch[e], m, ok)])
    BY <1>1 DEF Send
  <2> DEFINE u == SendEnhanceFrame(ch[e], m, ok)
             r == [u EXCEPT !.transBusy = SendReportsFull(ch[e], m, ok)]
  <2>2. Good(ch[e]) /\ Kept(ch[e], offered[e]) /\ ~ch[e].transBusy /\ offered[e] \in Nat
    BY <1>0, <1>1 DEF Send
  <2>3. m \in Msg
    <3>1. offered[e] < MaxMsg[e]
      BY <1>1 DEF Send
    <3>2. MaxMsg[e] \in Nat /\ 1 .. MaxMsg[e] \subseteq Msg
      BY ReliableAssumption
    <3>3. m \in 1 .. MaxMsg[e]
      BY <2>2, <3>1, <3>2
    <3> QED BY <3>2, <3>3
  <2>4. Kept(r, m)
    BY <1>0, <2>2, <2>3, SendKeeps
  <2>5. r \in Channel
    <3>1. Good(u)
      BY <1>0, <2>2, <2>3, SendEnhanceFrameGood
    <3>2. SendReportsFull(ch[e], m, ok) \in BOOLEAN
      BY DEF SendReportsFull
    <3> HIDE DEF u
    <3> QED BY <3>1, <3>2 DEF Good, Channel
  <2>6. ch' = [ch EXCEPT ![e] = [r EXCEPT !.out = << >>]]
    BY <2>1 DEF Commit
  <2>7. /\ alive' = alive /\ offered'[e] = m
        /\ \A x \in Endpoint \ {e} : offered'[x] = offered[x]
    BY <1>0, <1>1 DEF Send
  <2> HIDE DEF r, m
  <2>8. Kept(r, offered'[e])
    BY <2>4, <2>7
  <2>9. \A x \in Endpoint : alive[x] => Kept(ch[x], offered[x])
    BY <1>0
  <2> QED BY <1>0, <2>5, <2>6, <2>7, <2>8, <2>9, HandlerKeeps
<1>2. ASSUME NEW e \in Endpoint, RecvAck(e)
      PROVE  Goal
  <2>1. PICK ok \in SendOutcomes : Receive(e, RecvAckFrame(ch[e], Head(net[e]), ok))
    BY <1>2 DEF RecvAck
  <2>2. /\ Good(ch[e]) /\ Kept(ch[e], offered[e]) /\ offered[e] \in Nat
        /\ Head(net[e]) \in AckFrame \cup DataFrame
    BY <1>0, <1>2, HeadTailProperties DEF RecvAck, IInv, TypeOK
  <2>3. Head(net[e]) \in AckFrame
    BY <1>2, <2>2 DEF RecvAck, DataFrame
  <2> DEFINE s == RecvAckFrame(ch[e], Head(net[e]), ok)
  <2>4. Kept(s, offered[e]) /\ s \in Channel
    BY <1>0, <2>2, <2>3, RecvAckFrameKeeps, RecvAckFrameGood DEF Good
  <2>5. ch' = [ch EXCEPT ![e] = [s EXCEPT !.out = << >>]] /\ alive' = alive /\ offered' = offered
    BY <2>1 DEF Receive
  <2> HIDE DEF s
  <2> QED BY <2>4, <2>5, QuietHandlerKeeps
<1>3. ASSUME NEW e \in Endpoint, RecvData(e)
      PROVE  Goal
  <2>1. PICK ok \in SendOutcomes, h \in HandOvers(RecvIntoWindow(ch[e], Head(net[e]))) :
          Receive(e, RecvDataFrame(ch[e], Head(net[e]), h, ok))
    BY <1>3 DEF RecvData
  <2>2. /\ Good(ch[e]) /\ Kept(ch[e], offered[e]) /\ offered[e] \in Nat
        /\ Head(net[e]) \in AckFrame \cup DataFrame
    BY <1>0, <1>3, HeadTailProperties DEF RecvData, IInv, TypeOK
  <2>3. Head(net[e]) \in DataFrame
    BY <1>3, <2>2 DEF RecvData, AckFrame
  <2> DEFINE s == RecvDataFrame(ch[e], Head(net[e]), h, ok)
  <2>4. Kept(s, offered[e]) /\ s \in Channel
    BY <1>0, <2>2, <2>3, RecvDataFrameKeeps, RecvDataFrameGood DEF Good
  <2>5. ch' = [ch EXCEPT ![e] = [s EXCEPT !.out = << >>]] /\ alive' = alive /\ offered' = offered
    BY <2>1 DEF Receive
  <2> HIDE DEF s
  <2> QED BY <2>4, <2>5, QuietHandlerKeeps
<1>4. ASSUME NEW e \in Endpoint, RefuseData(e)
      PROVE  Goal
  <2>1. /\ ch' = [ch EXCEPT ![e] = [ch[e] EXCEPT !.out = << >>]]
        /\ alive' = alive /\ offered' = offered /\ alive[e]
    BY <1>4 DEF RefuseData, Receive
  <2>2. ch[e] \in Channel /\ Kept(ch[e], offered[e])
    BY <1>0, <2>1
  <2> QED BY <2>1, <2>2, QuietHandlerKeeps
<1>5. ASSUME NEW e \in Endpoint, LoseFrame(e)
      PROVE  Goal
  BY <1>0, <1>5 DEF LoseFrame
<1>6. ASSUME NEW e \in Endpoint, RspTimerExpireProc(e)
      PROVE  Goal
  <2>1. PICK ok \in SendOutcomes : Commit(e, SendAckFrame(ch[e], FALSE, ok))
    BY <1>6 DEF RspTimerExpireProc
  <2> DEFINE s == SendAckFrame(ch[e], FALSE, ok)
  <2>2. Good(ch[e]) /\ ch[e] \in Channel /\ Kept(ch[e], offered[e])
    BY <1>0, <1>6 DEF RspTimerExpireProc
  <2>3. s \in Channel /\ Calm(ch[e], s)
    BY <1>0, <2>2, SendAckFrameGood, SendAckFrameCalm DEF Good
  <2>4. ch' = [ch EXCEPT ![e] = [s EXCEPT !.out = << >>]] /\ alive' = alive /\ offered' = offered
    BY <1>6, <2>1 DEF RspTimerExpireProc, Commit
  <2> HIDE DEF s
  <2> QED BY <2>2, <2>3, <2>4, CalmKept, QuietHandlerKeeps
<1>7. ASSUME NEW e \in Endpoint, ReorderTimerExpireProc(e)
      PROVE  Goal
  <2>1. PICK ok \in SendOutcomes :
          Commit(e, IF ch[e].nackCnt >= MaxTxThreshold
                    THEN [ch[e] EXCEPT !.isDestroyMsgSent = TRUE]
                    ELSE [SendAckFrame(ch[e], TRUE, ok)
                            EXCEPT !.nackCnt = IF ok THEN @ + 1 ELSE @])
    BY <1>7 DEF ReorderTimerExpireProc
  <2>2. /\ Good(ch[e]) /\ ch[e] \in Channel /\ Kept(ch[e], offered[e])
        /\ alive' = alive /\ offered' = offered
    BY <1>0, <1>7 DEF ReorderTimerExpireProc
  <2>3. CASE ch[e].nackCnt >= MaxTxThreshold
    <3> DEFINE s == [ch[e] EXCEPT !.isDestroyMsgSent = TRUE]
    <3>1. s \in Channel /\ Calm(ch[e], s)
      BY <2>2 DEF Channel, Calm
    <3>2. ch' = [ch EXCEPT ![e] = [s EXCEPT !.out = << >>]]
      BY <2>1, <2>3 DEF Commit
    <3> HIDE DEF s
    <3> QED BY <2>2, <3>1, <3>2, CalmKept, QuietHandlerKeeps
  <2>4. CASE ~(ch[e].nackCnt >= MaxTxThreshold)
    <3> DEFINE t == SendAckFrame(ch[e], TRUE, ok)
               s == [t EXCEPT !.nackCnt = IF ok THEN @ + 1 ELSE @]
    <3>1. Good(t) /\ Calm(ch[e], t) /\ t.nackCnt = ch[e].nackCnt
      <4>1. t.nackCnt = ch[e].nackCnt
        BY <2>2 DEF SendAckFrame, SendFrame, Channel
      <4> QED BY <1>0, <2>2, <4>1, SendAckFrameGood, SendAckFrameCalm
    <3>2. ch[e].nackCnt \in 0 .. MaxTxThreshold /\ ch[e].nackCnt + 1 \in 0 .. MaxTxThreshold
      <4>1. PICK n \in 0 .. MaxTxThreshold : n = ch[e].nackCnt
        BY <2>2 DEF Channel
      <4>2. MaxTxThreshold \in Nat /\ ~(n >= MaxTxThreshold)
        BY <2>4, <4>1, ReliableAssumption
      <4>3. n + 1 \in 0 .. MaxTxThreshold
        BY <4>2
      <4> QED BY <4>1, <4>3
    <3>3. ch' = [ch EXCEPT ![e] = [s EXCEPT !.out = << >>]]
      BY <2>1, <2>4 DEF Commit
    <3> HIDE DEF t
    <3>4. s \in Channel /\ Calm(t, s)
      BY <3>1, <3>2 DEF Good, Channel, Calm
    <3> HIDE DEF s
    <3> QED BY <2>2, <3>1, <3>3, <3>4, CalmKept, QuietHandlerKeeps
  <2> QED BY <2>3, <2>4
<1>8. ASSUME NEW e \in Endpoint, RetransTimerExpireProc(e)
      PROVE  Goal
  <2> DEFINE t == [ch[e] EXCEPT !.reTxSeq = ch[e].expectedAckSeq]
  <2>1. PICK ok \in SendOutcomes : Commit(e, RetransEnhanceFrame(t, ok))
    BY <1>8 DEF RetransTimerExpireProc
  <2> DEFINE s == RetransEnhanceFrame(t, ok)
  <2>2. /\ Good(ch[e]) /\ ch[e] \in Channel /\ Kept(ch[e], offered[e])
        /\ alive' = alive /\ offered' = offered
    BY <1>0, <1>8 DEF RetransTimerExpireProc
  <2>3. ch[e].expectedAckSeq \in SeqNum
    BY <2>2 DEF Channel
  <2>4. Good(t) /\ t \in Channel /\ Calm(ch[e], t)
    BY <2>2, <2>3, SetReTxSeqGood, SetReTxSeqCalm DEF Good
  <2>5. ch' = [ch EXCEPT ![e] = [s EXCEPT !.out = << >>]]
    BY <2>1 DEF Commit
  <2> HIDE DEF t
  <2>6. s \in Channel /\ Calm(t, s)
    BY <1>0, <2>4, RetransGood, RetransCalm DEF Good
  <2> HIDE DEF s
  <2> QED BY <2>2, <2>4, <2>5, <2>6, CalmKept, QuietHandlerKeeps
<1>9. ASSUME NEW e \in Endpoint, SetTransChannelStatus(e)
      PROVE  Goal
  <2> DEFINE c == ch[e]
             room == [c EXCEPT !.isRxWindowFull = FALSE]
  <2>1. PICK h \in HandOvers(room) : Commit(e, RecvEnhanceFrameInner(room, h))
    BY <1>9 DEF SetTransChannelStatus
  <2> DEFINE s == RecvEnhanceFrameInner(room, h)
  <2>2. /\ Good(c) /\ c \in Channel /\ Kept(c, offered[e])
        /\ alive' = alive /\ offered' = offered
    BY <1>0, <1>9 DEF SetTransChannelStatus
  <2>3. /\ room \in Channel /\ room.txList = c.txList /\ room.nextTxSeq = c.nextTxSeq
        /\ room.expectedAckSeq = c.expectedAckSeq /\ room.retransTimer = c.retransTimer
        /\ Calm(c, room)
    BY <2>2 DEF Channel, Calm
  <2>4. ch' = [ch EXCEPT ![e] = [s EXCEPT !.out = << >>]]
    BY <2>1 DEF Commit
  <2> HIDE DEF c, room
  <2>5. Good(room)
    BY <2>2, <2>3, SameWindowFields
  <2>6. s \in Channel /\ Calm(room, s)
    BY <2>3, <2>5, RecvInnerGood, RecvInnerCalm DEF Good
  <2> HIDE DEF s
  <2> QED BY <2>2, <2>3, <2>4, <2>6, CalmKept, QuietHandlerKeeps
<1>10. ASSUME NEW e \in Endpoint, ChannelDel(e)
       PROVE  Goal
  <2>1. ASSUME NEW x \in Endpoint, alive'[x]
        PROVE  Kept(ch'[x], offered'[x])
    <3>1. /\ ch \in [Endpoint -> Channel] /\ alive \in [Endpoint -> BOOLEAN]
          /\ alive' = [alive EXCEPT ![e] = FALSE] /\ offered' = offered
      BY <1>0, <1>10 DEF ChannelDel, IInv, TypeOK
    <3>2. x # e /\ alive[x]
      BY <2>1, <3>1
    <3>3. ch' = [ch EXCEPT ![e].txList = << >>, ![e].rxList = << >>, ![e].cacheBuff = NoMsg,
                           ![e].retransTimer = FALSE, ![e].reorderTimer = FALSE]
      BY <1>10 DEF ChannelDel
    <3>4. ch'[x] = ch[x]
      BY <3>1, <3>2, <3>3
    <3> QED BY <1>0, <3>1, <3>2, <3>4
  <2> QED BY <2>1
<1>11. ASSUME UNCHANGED vars
       PROVE  Goal
  BY <1>0, <1>11 DEF vars
<1>12. Goal
  BY <1>1, <1>2, <1>3, <1>4, <1>5, <1>6, <1>7, <1>8, <1>9, <1>10, <1>11 DEF Next
<1>13. IInv'
  BY <1>0, NextInv
<1> QED BY <1>12, <1>13 DEF KInv

\* Until the channel is given up, every message the client sent is in the send window's
\* history, whole and in order, or is the last and cached; the busy status that
\* DTAP_SendEnhanceFrame reports keeps the client from overwriting the cache.
THEOREM NoMessageEverDropped == Spec => []NoMessageDropped
<1>1. KInv => NoMessageDropped
  BY DEF KInv, NoMessageDropped, Kept
<1>2. Spec => []KInv
  BY InitKeeps, NextKeeps, PTL DEF Spec
<1> QED BY <1>1, <1>2, PTL

-----------------------------------------------------------------------------
(***************************************************************************)
(* What the handlers of the reliable mode do to the two windows of an      *)
(* endpoint, for every size and every width of the sequence numbers, and   *)
(* that a gap in the receive window always has a timer running.            *)
(*                                                                         *)
(* A sequence number says nothing by itself.  The proofs turn every number *)
(* into a place: the index, counted from the first frame ever sent, of the *)
(* latest frame with that number (Place).  Everything that is alive in the *)
(* channel, in either window or on the link, lies less than one turn of    *)
(* the number space behind nextTxSeq, and there places determine numbers   *)
(* and DTAP_IsFrameSeqSmaller is the order of places.                      *)
(***************************************************************************)

\* The place of the latest frame numbered q, when n frames were sent and the next one will
\* be numbered next.  Frames are counted from 0, so next itself has the place n.
Place(q, next, n) == n - Behind(q, next)

\* The receive window of s, when n frames were sent: everything it holds lies after
\* expectedTxSeq, before maxExpectedTxSeq, and in the order of its places.
RxWindow(s, next, n) ==
    LET At(q) == Place(q, next, n)
    IN  /\ ~s.isRxWindowFull
        /\ s.bufferSeq = s.expectedTxSeq
        /\ n - WinSize <= At(s.expectedTxSeq)
        /\ At(s.expectedTxSeq) <= At(s.maxExpectedTxSeq)
        /\ \A i \in 1 .. Len(s.rxList) :
             /\ At(s.expectedTxSeq) < At(s.rxList[i].txSeq)
             /\ At(s.rxList[i].txSeq) < At(s.maxExpectedTxSeq)
        /\ \A i, j \in 1 .. Len(s.rxList) :
             i < j => At(s.rxList[i].txSeq) < At(s.rxList[j].txSeq)

-----------------------------------------------------------------------------
(***************************************************************************)
(* Places.                                                                 *)
(***************************************************************************)
\* Places are integers of the last turn of the number space.
LEMMA PlaceType ==
  ASSUME NEW q \in SeqNum, NEW next \in SeqNum, NEW n \in Nat
  PROVE  /\ Place(q, next, n) \in Int
         /\ Place(q, next, n) <= n /\ n - SeqMod < Place(q, next, n)
BY SeqModFacts DEF Place, Behind

\* Places determine numbers.
LEMMA PlaceInjective ==
  ASSUME NEW q \in SeqNum, NEW r \in SeqNum, NEW next \in SeqNum, NEW n \in Nat,
         Place(q, next, n) = Place(r, next, n)
  PROVE  q = r
BY SeqModFacts DEF Place, Behind

\* The next number has the place of the next frame.
LEMMA PlaceOfNext ==
  ASSUME NEW next \in SeqNum, NEW n \in Nat
  PROVE  Place(next, next, n) = n
BY SeqModFacts DEF Place, Behind

\* A number k further on is k places further on, or a turn behind that place.
LEMMA PlaceAdd ==
  ASSUME NEW q \in SeqNum, NEW next \in SeqNum, NEW n \in Nat, NEW k \in 0 .. SeqMod
  PROVE  Place(SeqAdd(q, k), next, n) =
           IF Place(q, next, n) + k <= n THEN Place(q, next, n) + k
                                         ELSE Place(q, next, n) + k - SeqMod
<1> DEFINE r == SeqAdd(q, k)
<1>1. r = IF q + k < SeqMod THEN q + k ELSE q + k - SeqMod
  BY SeqAddValue
<1>0. k \in Nat
  BY SeqModFacts
<1>2. r \in SeqNum
  BY <1>0, SeqAddType
<1> HIDE DEF r
<1>3. Place(r, next, n) = IF Place(q, next, n) + k <= n THEN Place(q, next, n) + k
                                         ELSE Place(q, next, n) + k - SeqMod
  BY <1>1, <1>2, SeqModFacts DEF Place, Behind
<1> QED BY <1>3 DEF r

\* DTAP_IsFrameSeqSmaller is the order of places that are less than half a turn apart.
LEMMA PlaceSmaller ==
  ASSUME NEW q \in SeqNum, NEW r \in SeqNum, NEW next \in SeqNum, NEW n \in Nat,
         Place(q, next, n) - Place(r, next, n) < SignMask,
         Place(r, next, n) - Place(q, next, n) < SignMask
  PROVE  IsFrameSeqSmaller(q, r) <=> Place(q, next, n) < Place(r, next, n)
<1>1. IsFrameSeqSmaller(q, r) <=>
           (IF q >= r THEN q - r ELSE q - r + SeqMod) >= SignMask
  BY SmallerValue
<1>2. ((IF q >= r THEN q - r ELSE q - r + SeqMod) >= SignMask)
         <=> Place(q, next, n) < Place(r, next, n)
  BY SeqModFacts DEF Place, Behind
<1> QED BY <1>1, <1>2

\* Sending c more frames leaves the places of the last turn where they were.
LEMMA PlaceMove ==
  ASSUME NEW q \in SeqNum, NEW next \in SeqNum, NEW n \in Nat, NEW c \in 0 .. SeqMod,
         n + c - SeqMod < Place(q, next, n)
  PROVE  Place(q, SeqAdd(next, c), n + c) = Place(q, next, n)
<1> DEFINE m == SeqAdd(next, c)
<1>1. m = IF next + c < SeqMod THEN next + c ELSE next + c - SeqMod
  BY SeqAddValue
<1> HIDE DEF m
<1>2. Place(q, m, n + c) = Place(q, next, n)
  BY <1>1, SeqModFacts DEF Place, Behind
<1> QED BY <1>2 DEF m

-----------------------------------------------------------------------------
(***************************************************************************)
(* The receive window.                                                     *)
(***************************************************************************)
\* The insertion of DTAP_SlideRxWindow, element by element.
LEMMA InsertRxShape ==
  ASSUME NEW list \in Seq(RxFrame), NEW f \in RxFrame
  PROVE  \E c \in 0 .. Len(list) :
           /\ \A j \in 1 .. c : ~IsFrameSeqSmaller(f.txSeq, list[j].txSeq)
           /\ c < Len(list) => IsFrameSeqSmaller(f.txSeq, list[c + 1].txSeq)
           /\ Len(InsertRx(list, f)) = Len(list) + 1
           /\ \A i \in 1 .. Len(list) + 1 :
                InsertRx(list, f)[i] = IF i <= c THEN list[i]
                                       ELSE IF i = c + 1 THEN f ELSE list[i - 1]
<1> DEFINE len == Len(list)
           P(n) == /\ \A j \in 1 .. n : ~IsFrameSeqSmaller(f.txSeq, list[j].txSeq)
                   /\ n < len => IsFrameSeqSmaller(f.txSeq, list[n + 1].txSeq)
           c == CHOOSE n \in 0 .. len : P(n)
           S == {j \in 1 .. len : ~IsFrameSeqSmaller(f.txSeq, list[j].txSeq)}
<1>1. len \in Nat
  BY LenProperties
<1>2. \E n \in 0 .. len : P(n)
  <2>1. PICK n \in 0 .. len : (\A j \in 1 .. n : j \in S) /\ (n < len => (n + 1) \notin S)
    <3> HIDE DEF S
    <3>1. S \in SUBSET (1 .. len) BY DEF S
    <3> QED BY <1>1, <3>1, LongestPrefix
  <2>2. n + 1 \in 1 .. len \/ ~(n < len)
    BY <1>1
  <2> QED BY <2>1, <2>2
<1>3. c \in 0 .. len /\ P(c)
  BY <1>2
<1>4. InsertRx(list, f) = InsertAfter(list, c, f)
  BY DEF InsertRx, InsertAfter
<1> HIDE DEF c
<1>5. /\ Len(InsertRx(list, f)) = Len(list) + 1
      /\ \A i \in 1 .. Len(list) + 1 :
           InsertRx(list, f)[i] = IF i <= c THEN list[i]
                                  ELSE IF i = c + 1 THEN f ELSE list[i - 1]
  <2>1. c \in 0 .. Len(list)
    BY <1>3
  <2>2. /\ Len(InsertAfter(list, c, f)) = Len(list) + 1
        /\ \A i \in 1 .. Len(list) + 1 :
             InsertAfter(list, c, f)[i] = IF i <= c THEN list[i]
                                          ELSE IF i = c + 1 THEN f ELSE list[i - 1]
    BY <2>1, Inserted
  <2> QED BY <2>2, <1>4
<1> QED BY <1>3, <1>5

\* In a list of increasing places that starts at e and holds e + 1 .. e + k - 1 but not
\* e + k, the first k places are e .. e + k - 1.
LEMMA FirstGap ==
  ASSUME NEW len \in Nat, NEW p \in [1 .. len -> Int], NEW e \in Int,
         NEW k \in Nat \ {0},
         1 <= len, p[1] = e,
         \A i, j \in 1 .. len : i < j => p[i] < p[j],
         \A m \in 1 .. k - 1 : \E i \in 1 .. len : p[i] = e + m,
         \A i \in 1 .. len : p[i] # e + k
  PROVE  /\ k <= len
         /\ \A i \in 1 .. k : p[i] = e + i - 1
         /\ \A i \in 1 .. len : i > k => p[i] > e + k
<1> DEFINE T == {i \in 1 .. k : ~(i <= len /\ p[i] = e + i - 1)}
<1>1. T = {}
  <2> SUFFICES ASSUME T # {} PROVE FALSE
    OBVIOUS
  <2>1. T \in SUBSET Nat
    OBVIOUS
  <2>2. PICK i \in T : \A j \in T : i <= j
    BY <2>1, LeastNat
  <2>3. i \in 1 .. k /\ ~(i <= len /\ p[i] = e + i - 1)
    BY <2>2
  <2>4. i # 1
    BY <2>3
  <2>5. i - 1 \in 1 .. k - 1 /\ i - 1 \in 1 .. k /\ i - 1 \notin T
    BY <2>2, <2>3, <2>4
  <2>6. i - 1 \in 1 .. len /\ p[i - 1] = e + (i - 1) - 1
    BY <2>5
  <2>7. PICK m \in 1 .. len : p[m] = e + (i - 1)
    BY <2>5
  <2>8. p[i - 1] < p[m]
    BY <2>6, <2>7
  <2>9. ~(m <= i - 1)
    BY <2>6, <2>7, <2>8
  <2>10. i \in 1 .. len /\ i <= m
    BY <2>3, <2>7, <2>9
  <2>11. i - 1 < i /\ (i < m \/ i = m) /\ i <= len
    BY <2>10
  <2>12. p[i - 1] \in Int /\ p[i] \in Int /\ p[m] \in Int
    BY <2>6, <2>7, <2>10
  <2>13. p[i - 1] < p[i] /\ p[i] <= p[m]
    BY <2>6, <2>7, <2>10, <2>11, <2>12
  <2>14. p[i] # e + i - 1
    BY <2>3, <2>11
  <2> HIDE DEF T
  <2> QED BY <2>6, <2>7, <2>12, <2>13, <2>14
<1>2. \A i \in 1 .. k : i <= len /\ p[i] = e + i - 1
  BY <1>1
<1>3. k <= len /\ p[k] = e + k - 1
  BY <1>2
<1>4. ASSUME NEW i \in 1 .. len, i > k
      PROVE  p[i] > e + k
  <2>1. p[k] < p[i] /\ p[i] # e + k
    BY <1>3, <1>4
  <2> QED BY <2>1, <1>3
<1> QED BY <1>2, <1>3, <1>4

\* The receive window stays sorted by place when a frame that it does not hold is inserted.
LEMMA InsertRxPlaces ==
  ASSUME NEW list \in Seq(RxFrame), NEW f \in RxFrame,
         NEW next \in SeqNum, NEW n \in Nat, NEW e \in Int, n - WinSize <= e,
         \A i \in 1 .. Len(list) : e <= Place(list[i].txSeq, next, n),
         e <= Place(f.txSeq, next, n),
         \A i, j \in 1 .. Len(list) :
           i < j => Place(list[i].txSeq, next, n) < Place(list[j].txSeq, next, n),
         ~HasRxSeq(list, f.txSeq)
  PROVE  LET new == InsertRx(list, f)
         IN  /\ new \in Seq(RxFrame) /\ Len(new) = Len(list) + 1
             /\ \A i, j \in 1 .. Len(new) :
                  i < j => Place(new[i].txSeq, next, n) < Place(new[j].txSeq, next, n)
             /\ \A i \in 1 .. Len(new) : new[i] = f \/ \E j \in 1 .. Len(list) : new[i] = list[j]
             /\ \E i \in 1 .. Len(new) : new[i] = f
<1> DEFINE new == InsertRx(list, f)
           len == Len(list)
           At(g) == Place(g.txSeq, next, n)
<1>0. len \in Nat /\ new \in Seq(RxFrame) /\ DOMAIN list = 1 .. len
  BY LenProperties, InsertRxType
<1>1. PICK c \in 0 .. len :
           /\ \A j \in 1 .. c : ~IsFrameSeqSmaller(f.txSeq, list[j].txSeq)
           /\ c < len => IsFrameSeqSmaller(f.txSeq, list[c + 1].txSeq)
           /\ Len(new) = len + 1
           /\ \A i \in 1 .. len + 1 :
                new[i] = IF i <= c THEN list[i] ELSE IF i = c + 1 THEN f ELSE list[i - 1]
  BY InsertRxShape
<1>2. /\ \A i \in 1 .. len : list[i].txSeq \in SeqNum /\ list[i].txSeq # f.txSeq
      /\ f.txSeq \in SeqNum
  <2>1. ASSUME NEW i \in 1 .. len
        PROVE  list[i] \in RxFrame
    BY ElementOfSeq
  <2> QED BY <1>0, <2>1 DEF RxFrame, HasRxSeq
<1>3. At(f) \in Int /\ At(f) <= n /\ e <= At(f)
  BY <1>2, PlaceType
<1>4. ASSUME NEW j \in 1 .. len
      PROVE  /\ At(list[j]) \in Int /\ At(list[j]) <= n
             /\ At(list[j]) # At(f)
             /\ IsFrameSeqSmaller(f.txSeq, list[j].txSeq) <=> At(f) < At(list[j])
  <2>1. At(list[j]) \in Int /\ At(list[j]) <= n /\ e <= At(list[j])
    BY <1>2, PlaceType
  <2>2. At(list[j]) # At(f)
    BY <1>2, PlaceInjective
  <2>3. At(f) - At(list[j]) < SignMask /\ At(list[j]) - At(f) < SignMask
    BY <1>3, <2>1, WindowFacts, SeqModFacts
  <2>4. IsFrameSeqSmaller(f.txSeq, list[j].txSeq) <=> At(f) < At(list[j])
    BY <1>2, <2>3, PlaceSmaller
  <2> QED BY <2>1, <2>2, <2>4
<1>5. ASSUME NEW i \in 1 .. len, NEW j \in 1 .. len, i < j
      PROVE  At(list[i]) < At(list[j])
  BY <1>5
<1> HIDE DEF At, new, len
<1>6. \A j \in 1 .. len : j <= c => At(list[j]) < At(f)
  BY <1>0, <1>1, <1>3, <1>4
<1>7. ASSUME NEW j \in 1 .. len, j > c
      PROVE  At(f) < At(list[j])
  <2>1. c + 1 \in 1 .. len /\ c < len
    BY <1>0, <1>7
  <2>2. At(f) < At(list[c + 1])
    BY <2>1, <1>1, <1>4
  <2>3. CASE j = c + 1
    BY <2>2, <2>3
  <2>4. CASE j # c + 1
    <3>1. c + 1 < j
      BY <1>0, <1>7, <2>4
    <3>2. At(list[c + 1]) < At(list[j])
      BY <3>1, <2>1, <1>5
    <3> QED BY <3>2, <2>1, <2>2, <1>3, <1>4
  <2> QED BY <2>3, <2>4
<1>8. ASSUME NEW i \in 1 .. len + 1, NEW j \in 1 .. len + 1, i < j
      PROVE  At(new[i]) < At(new[j])
  <2>1. CASE j <= c
    <3>1. i \in 1 .. len /\ j \in 1 .. len /\ i <= c
      BY <1>0, <1>8, <2>1
    <3>2. new[i] = list[i] /\ new[j] = list[j]
      BY <1>1, <2>1, <3>1
    <3> QED BY <1>5, <1>8, <3>1, <3>2
  <2>2. CASE j = c + 1
    <3>1. i \in 1 .. len /\ i <= c /\ ~(j <= c)
      BY <1>0, <1>8, <2>2
    <3>2. new[i] = list[i] /\ new[j] = f
      BY <1>1, <2>2, <3>1
    <3> QED BY <1>6, <3>1, <3>2
  <2>3. CASE j > c + 1
    <3>0. j - 1 \in 1 .. len /\ j - 1 > c /\ ~(j <= c) /\ j # c + 1
      BY <1>0, <1>8, <2>3
    <3>1. new[j] = list[j - 1]
      BY <1>1, <3>0
    <3>2. CASE i <= c
      <4>1. i \in 1 .. len /\ i < j - 1
        BY <1>0, <1>8, <3>0, <3>2
      <4>2. new[i] = list[i]
        BY <1>1, <3>2
      <4> QED BY <1>5, <3>0, <3>1, <4>1, <4>2
    <3>3. CASE i = c + 1
      <4>1. ~(i <= c)
        BY <1>0, <3>3
      <4>2. new[i] = f
        BY <1>1, <3>3, <4>1
      <4> QED BY <1>7, <3>0, <3>1, <4>2
    <3>4. CASE i > c + 1
      <4>1. ~(i <= c) /\ i # c + 1 /\ i - 1 \in 1 .. len /\ i - 1 < j - 1
        BY <1>0, <1>8, <3>4
      <4>2. new[i] = list[i - 1]
        BY <1>1, <4>1
      <4> QED BY <1>5, <3>0, <3>1, <4>1, <4>2
    <3> QED BY <3>2, <3>3, <3>4, <1>0
  <2> QED BY <2>1, <2>2, <2>3, <1>0
<1>9. ASSUME NEW i \in 1 .. len + 1
      PROVE  new[i] = f \/ \E j \in 1 .. len : new[i] = list[j]
  <2>1. \/ i <= c /\ i \in 1 .. len
        \/ i = c + 1 /\ ~(i <= c)
        \/ ~(i <= c) /\ i # c + 1 /\ i - 1 \in 1 .. len
    BY <1>0
  <2>2. \/ new[i] = list[i] /\ i \in 1 .. len
        \/ new[i] = f
        \/ new[i] = list[i - 1] /\ i - 1 \in 1 .. len
    BY <1>1, <2>1
  <2> QED BY <2>2
<1>10. \E i \in 1 .. len + 1 : new[i] = f
  <2>1. c + 1 \in 1 .. len + 1 /\ ~(c + 1 <= c)
    BY <1>0
  <2>2. new[c + 1] = f
    BY <1>1, <2>1
  <2> QED BY <2>1, <2>2
<1>11. Len(new) = len + 1
  BY <1>1
<1>12. \A i, j \in 1 .. Len(new) : i < j => At(new[i]) < At(new[j])
  BY <1>8, <1>11
<1>13. \A i \in 1 .. Len(new) : new[i] = f \/ \E j \in 1 .. len : new[i] = list[j]
  BY <1>9, <1>11
<1>14. \E i \in 1 .. Len(new) : new[i] = f
  BY <1>10, <1>11
<1> QED BY <1>0, <1>11, <1>12, <1>13, <1>14, Zenon DEF At, new, len

\* The next expected number is the first gap of a list that starts with seq.
LEMMA NextMissingPlaces ==
  ASSUME NEW list \in Seq(RxFrame), NEW next \in SeqNum, NEW n \in Nat,
         NEW seq \in SeqNum, NEW e \in Int,
         e = Place(seq, next, n), n - WinSize <= e,
         1 <= Len(list), list[1].txSeq = seq,
         \A i \in 1 .. Len(list) : Place(list[i].txSeq, next, n) < n,
         \A i, j \in 1 .. Len(list) :
           i < j => Place(list[i].txSeq, next, n) < Place(list[j].txSeq, next, n)
  PROVE  \E k \in 1 .. WinSize :
           /\ NextMissing(list, seq) = SeqAdd(seq, k)
           /\ SeqAdd(seq, k) \in SeqNum
           /\ e + k <= n /\ Place(SeqAdd(seq, k), next, n) = e + k
           /\ k <= Len(list)
           /\ \A i \in 1 .. k : Place(list[i].txSeq, next, n) = e + i - 1
           /\ \A i \in 1 .. Len(list) : i > k => Place(list[i].txSeq, next, n) > e + k
<1> DEFINE len == Len(list)
           At(q) == Place(q, next, n)
           missing == {k \in 1 .. WinSize : ~HasRxSeq(list, SeqAdd(seq, k))}
           p == [i \in 1 .. len |-> At(list[i].txSeq)]
<1>0. len \in Nat /\ DOMAIN list = 1 .. len
  BY LenProperties
<1>1. ASSUME NEW i \in 1 .. len
      PROVE  list[i].txSeq \in SeqNum /\ At(list[i].txSeq) \in Int
  <2>1. list[i] \in RxFrame
    BY ElementOfSeq
  <2>2. list[i].txSeq \in SeqNum
    BY <2>1 DEF RxFrame
  <2> QED BY <2>2, PlaceType
<1>2. /\ p \in [1 .. len -> Int]
      /\ \A i \in 1 .. len : p[i] = At(list[i].txSeq)
  BY <1>1
<1> HIDE DEF p
<1>3. p[1] = e
  BY <1>0, <1>2
<1>4. /\ \A i, j \in 1 .. len : i < j => p[i] < p[j]
      /\ \A i \in 1 .. len : p[i] < n
  BY <1>2
<1>5. \A i \in 1 .. len : e <= p[i]
  BY <1>0, <1>2, <1>3, <1>4
<1>6. ASSUME NEW k \in 1 .. WinSize
      PROVE  HasRxSeq(list, SeqAdd(seq, k)) <=> \E i \in 1 .. len : p[i] = e + k
  <2>0. k \in 0 .. SeqMod /\ k \in Nat /\ k > 0
    BY WindowFacts, SeqModFacts
  <2>1. SeqAdd(seq, k) \in SeqNum
    BY <2>0, SeqAddType
  <2>2. At(SeqAdd(seq, k)) = IF e + k <= n THEN e + k ELSE e + k - SeqMod
    BY <2>0, PlaceAdd
  <2>3. ASSUME NEW i \in 1 .. len, list[i].txSeq = SeqAdd(seq, k)
        PROVE  p[i] = e + k
    <3>1. p[i] = At(SeqAdd(seq, k))
      BY <1>2, <2>3
    <3> HIDE DEF At
    <3> QED BY <3>1, <2>0, <2>2, <1>2, <1>5, WindowFacts, SeqModFacts
  <2>4. ASSUME NEW i \in 1 .. len, p[i] = e + k
        PROVE  list[i].txSeq = SeqAdd(seq, k)
    <3>1. e + k <= n
      BY <1>2, <1>4, <2>4, <2>0
    <3>2. At(list[i].txSeq) = At(SeqAdd(seq, k))
      BY <3>1, <2>2, <2>4, <1>2
    <3> QED BY <3>2, <2>1, <1>1, PlaceInjective
  <2> QED BY <2>3, <2>4, <1>0 DEF HasRxSeq
<1>7. WinSize \in missing
  <2>1. \A i \in 1 .. len : p[i] # e + WinSize
    BY <1>2, <1>4, WindowFacts
  <2>2. WinSize \in 1 .. WinSize
    BY WindowFacts
  <2> QED BY <2>1, <2>2, <1>6
<1>8. missing \in SUBSET Nat
  BY WindowFacts
<1> DEFINE k == CHOOSE m \in missing : \A j \in missing : m <= j
<1>9. k \in missing /\ \A j \in missing : k <= j
  <2> HIDE DEF missing
  <2>1. \E m \in missing : \A j \in missing : m <= j
    BY <1>7, <1>8, LeastNat
  <2> QED BY <2>1
<1>10. NextMissing(list, seq) = SeqAdd(seq, k)
  BY <1>7 DEF NextMissing
<1> HIDE DEF k
<1>11. k \in 1 .. WinSize /\ ~HasRxSeq(list, SeqAdd(seq, k))
  BY <1>9
<1>12. ASSUME NEW m \in 1 .. k - 1
       PROVE  \E i \in 1 .. len : p[i] = e + m
  <2>1. m \in 1 .. WinSize /\ m < k
    BY <1>11, WindowFacts
  <2>2. m \notin missing
    <3> HIDE DEF missing
    <3> QED BY <2>1, <1>8, <1>9
  <2>3. HasRxSeq(list, SeqAdd(seq, m))
    BY <2>1, <2>2
  <2> QED BY <2>1, <2>3, <1>6
<1>13. \A i \in 1 .. len : p[i] # e + k
  BY <1>6, <1>11
<1>14. k \in Nat \ {0} /\ k \in 0 .. SeqMod
  BY <1>11, WindowFacts, SeqModFacts
<1> HIDE DEF missing, len, At
<1>15. /\ k <= len
       /\ \A i \in 1 .. k : p[i] = e + i - 1
       /\ \A i \in 1 .. len : i > k => p[i] > e + k
  <2>1. 1 <= len
    BY DEF len
  <2> QED BY <2>1, <1>0, <1>2, <1>3, <1>4, <1>12, <1>13, <1>14, FirstGap
<1>16. e + k <= n
  <2>1. k \in 1 .. len /\ p[k] = e + k - 1
    BY <1>14, <1>15, <1>0
  <2> QED BY <2>1, <1>2, <1>4, <1>14
<1>17. At(SeqAdd(seq, k)) = e + k
  <2>1. At(SeqAdd(seq, k)) = IF e + k <= n THEN e + k ELSE e + k - SeqMod
    BY <1>14, PlaceAdd DEF At
  <2> QED BY <2>1, <1>16
<1>18. SeqAdd(seq, k) \in SeqNum
  BY <1>14, SeqAddType
<1>19. /\ \A i \in 1 .. k : At(list[i].txSeq) = e + i - 1
       /\ \A i \in 1 .. len : i > k => At(list[i].txSeq) > e + k
  <2>1. \A i \in 1 .. k : i \in 1 .. len
    BY <1>0, <1>14, <1>15
  <2> QED BY <2>1, <1>2, <1>15
<1> QED BY <1>10, <1>11, <1>15, <1>16, <1>17, <1>18, <1>19 DEF At, len

\* What can be handed over, when the head of the list is known.
LEMMA DeliverableIs ==
  ASSUME NEW s, s \in Channel, NEW k \in 0 .. Len(s.rxList),
         \A j \in 1 .. k : s.rxList[j].txSeq = SeqAdd(s.bufferSeq, j - 1),
         k < Len(s.rxList) => s.rxList[k + 1].txSeq # SeqAdd(s.bufferSeq, k)
  PROVE  Deliverable(s) = k
<1> DEFINE len == Len(s.rxList)
           P(m) == /\ \A j \in 1 .. m : s.rxList[j].txSeq = SeqAdd(s.bufferSeq, j - 1)
                   /\ m < len => s.rxList[m + 1].txSeq # SeqAdd(s.bufferSeq, m)
<1>1. len \in Nat
  BY LenProperties DEF Channel
<1>2. ASSUME NEW m \in 0 .. len, P(m)
      PROVE  m = k
  <2>1. CASE m < k
    <3>1. m + 1 \in 1 .. k /\ m < len /\ (m + 1) - 1 = m
      BY <1>1, <2>1
    <3> QED BY <3>1, <1>2
  <2>2. CASE k < m
    <3>1. k + 1 \in 1 .. m /\ k < len /\ (k + 1) - 1 = k
      BY <1>1, <2>2
    <3> QED BY <3>1, <1>2
  <2> QED BY <1>1, <2>1, <2>2
<1>3. P(k)
  OBVIOUS
<1>4. Deliverable(s) = CHOOSE m \in 0 .. len : P(m)
  BY DEF Deliverable
<1> HIDE DEF P
<1>5. (CHOOSE m \in 0 .. len : P(m)) = k
  BY <1>2, <1>3
<1> QED BY <1>4, <1>5

\* The fields that a send, an acknowledgement or a retransmission leaves alone.
SameRx(s, r) ==
    /\ r.expectedTxSeq = s.expectedTxSeq /\ r.bufferSeq = s.bufferSeq
    /\ r.maxExpectedTxSeq = s.maxExpectedTxSeq /\ r.rxList = s.rxList
    /\ r.isRxWindowFull = s.isRxWindowFull /\ r.reorderTimer = s.reorderTimer
    /\ r.handed = s.handed

\* The fields that the receive window leaves alone.
SameTx(s, r) ==
    /\ r.nextTxSeq = s.nextTxSeq /\ r.expectedAckSeq = s.expectedAckSeq
    /\ r.txList = s.txList /\ r.sent = s.sent /\ r.out = s.out
    /\ r.cacheBuff = s.cacheBuff /\ r.isTxWindowFull = s.isTxWindowFull

\* The fields of a channel after DTAP_SlideRxWindow and DTAP_OperateReorderTimer.
LEMMA RecvFields ==
  ASSUME NEW s, Good(s), NEW txSeq \in SeqNum, NEW pdu \in Pdu
  PROVE  LET r == OperateReorderTimer(SlideRxWindow(s, txSeq, pdu))
             f == [txSeq |-> txSeq, pdu |-> pdu, trims |-> 0]
             list == InsertRx(s.rxList, f)
             missing == NextMissing(list, txSeq)
         IN  /\ Good(r) /\ SameTx(s, r)
             /\ r.bufferSeq = s.bufferSeq /\ r.isRxWindowFull = s.isRxWindowFull
             /\ r.handed = s.handed /\ r.rxList = list
             /\ r.expectedTxSeq = IF txSeq = s.expectedTxSeq /\ missing # txSeq
                                  THEN missing ELSE s.expectedTxSeq
             /\ r.maxExpectedTxSeq =
                  IF IsFrameSeqSmaller(s.maxExpectedTxSeq, txSeq) \/ s.maxExpectedTxSeq = txSeq
                  THEN GetNextFrameSeq(txSeq) ELSE s.maxExpectedTxSeq
             /\ r.reorderTimer = IF s.reorderTimer THEN r.expectedTxSeq # r.maxExpectedTxSeq
                                 ELSE IsFrameSeqSmaller(r.expectedTxSeq, r.maxExpectedTxSeq)
<1> DEFINE u == SlideRxWindow(s, txSeq, pdu)
           r == OperateReorderTimer(u)
           f == [txSeq |-> txSeq, pdu |-> pdu, trims |-> 0]
           list == InsertRx(s.rxList, f)
           missing == NextMissing(list, txSeq)
           advances == txSeq = s.expectedTxSeq /\ missing # txSeq
           max == IF IsFrameSeqSmaller(s.maxExpectedTxSeq, txSeq) \/ s.maxExpectedTxSeq = txSeq
                  THEN GetNextFrameSeq(txSeq) ELSE s.maxExpectedTxSeq
<1>1. Good(u) /\ Good(r)
  BY SlideRxWindowGood, OperateReorderTimerGood
<1>2. u = [s EXCEPT !.isRecvFrame = TRUE, !.rxList = list,
                    !.expectedTxSeq = IF advances THEN missing ELSE s.expectedTxSeq,
                    !.nackCnt = IF advances THEN 0 ELSE s.nackCnt,
                    !.maxExpectedTxSeq = max]
  BY DEF SlideRxWindow
<1>3. r = [u EXCEPT !.reorderTimer = IF u.reorderTimer
                                     THEN u.expectedTxSeq # u.maxExpectedTxSeq
                                     ELSE IsFrameSeqSmaller(u.expectedTxSeq, u.maxExpectedTxSeq)]
  BY DEF OperateReorderTimer
<1> HIDE DEF u, r, list, missing, advances, max
<1>4. /\ SameTx(s, u) /\ u.bufferSeq = s.bufferSeq /\ u.isRxWindowFull = s.isRxWindowFull
      /\ u.handed = s.handed /\ u.rxList = list /\ u.reorderTimer = s.reorderTimer
      /\ u.expectedTxSeq = (IF advances THEN missing ELSE s.expectedTxSeq)
      /\ u.maxExpectedTxSeq = max
  BY <1>2 DEF Good, Channel, SameTx
<1>5. /\ SameTx(u, r) /\ r.bufferSeq = u.bufferSeq /\ r.isRxWindowFull = u.isRxWindowFull
      /\ r.handed = u.handed /\ r.rxList = u.rxList
      /\ r.expectedTxSeq = u.expectedTxSeq /\ r.maxExpectedTxSeq = u.maxExpectedTxSeq
  BY <1>1, <1>3 DEF Good, Channel, SameTx
<1>6. r.reorderTimer = IF u.reorderTimer THEN u.expectedTxSeq # u.maxExpectedTxSeq
                       ELSE IsFrameSeqSmaller(u.expectedTxSeq, u.maxExpectedTxSeq)
  <2> DEFINE b == IF u.reorderTimer THEN u.expectedTxSeq # u.maxExpectedTxSeq
                  ELSE IsFrameSeqSmaller(u.expectedTxSeq, u.maxExpectedTxSeq)
  <2>1. r = [u EXCEPT !.reorderTimer = b]
    BY <1>3
  <2> HIDE DEF b
  <2>2. r.reorderTimer = b
    BY <2>1, <1>1 DEF Good, Channel
  <2> QED BY <2>2 DEF b
<1>7. SameTx(s, r)
  BY <1>4, <1>5 DEF SameTx
<1> QED BY <1>1, <1>4, <1>5, <1>6, <1>7 DEF u, r, list, missing, advances, max

\* A frame of the window that the receiver does not hold: after DTAP_SlideRxWindow the
\* first k frames of rxList are the ones from the old expectedTxSeq up to the new one.
LEMMA IntoWindow ==
  ASSUME NEW s, Good(s), NEW txSeq \in SeqNum, NEW pdu \in Pdu,
         NEW next \in SeqNum, NEW n \in Nat, RxWindow(s, next, n),
         Place(s.expectedTxSeq, next, n) <= Place(txSeq, next, n),
         Place(txSeq, next, n) < n,
         ~HasRxSeq(s.rxList, txSeq)
  PROVE  LET r == OperateReorderTimer(SlideRxWindow(s, txSeq, pdu))
             f == [txSeq |-> txSeq, pdu |-> pdu, trims |-> 0]
             e == Place(s.expectedTxSeq, next, n)
             At(q) == Place(q, next, n)
         IN  \E k \in 0 .. WinSize :
               /\ k <= Len(r.rxList) /\ Deliverable(r) = k
               /\ r.expectedTxSeq = SeqAdd(s.expectedTxSeq, k)
               /\ At(r.expectedTxSeq) = e + k
               /\ \A i \in 1 .. k : At(r.rxList[i].txSeq) = e + i - 1
               /\ \A i \in 1 .. Len(r.rxList) : i > k => At(r.rxList[i].txSeq) > e + k
               /\ \A i \in 1 .. Len(r.rxList) :
                    /\ At(r.rxList[i].txSeq) < At(r.maxExpectedTxSeq)
                    /\ r.rxList[i] = f \/ \E j \in 1 .. Len(s.rxList) : r.rxList[i] = s.rxList[j]
               /\ \A i, j \in 1 .. Len(r.rxList) :
                    i < j => At(r.rxList[i].txSeq) < At(r.rxList[j].txSeq)
               /\ e + k <= At(r.maxExpectedTxSeq)
               /\ r.reorderTimer <=> r.expectedTxSeq # r.maxExpectedTxSeq
<1> DEFINE r == OperateReorderTimer(SlideRxWindow(s, txSeq, pdu))
           f == [txSeq |-> txSeq, pdu |-> pdu, trims |-> 0]
           e == Place(s.expectedTxSeq, next, n)
           At(q) == Place(q, next, n)
           list == InsertRx(s.rxList, f)
           missing == NextMissing(list, txSeq)
           p == At(txSeq)
           max == s.maxExpectedTxSeq
<1>1. /\ Good(r) /\ r.bufferSeq = s.bufferSeq /\ r.rxList = list
      /\ r.expectedTxSeq = IF txSeq = s.expectedTxSeq /\ missing # txSeq
                           THEN missing ELSE s.expectedTxSeq
      /\ r.maxExpectedTxSeq = IF IsFrameSeqSmaller(max, txSeq) \/ max = txSeq
                              THEN GetNextFrameSeq(txSeq) ELSE max
      /\ r.reorderTimer = IF s.reorderTimer THEN r.expectedTxSeq # r.maxExpectedTxSeq
                          ELSE IsFrameSeqSmaller(r.expectedTxSeq, r.maxExpectedTxSeq)
  BY RecvFields
<1>2. /\ s.expectedTxSeq \in SeqNum /\ max \in SeqNum /\ s.rxList \in Seq(RxFrame)
      /\ s.bufferSeq = s.expectedTxSeq /\ f \in RxFrame
  BY DEF Good, Channel, RxWindow, RxFrame
<1>3. /\ e \in Int /\ n - WinSize <= e /\ e <= At(max) /\ At(max) \in Int /\ At(max) <= n
      /\ p \in Int /\ e <= p /\ p < n
  BY <1>2, PlaceType DEF RxWindow
<1>4. \A i \in 1 .. Len(s.rxList) :
        e < At(s.rxList[i].txSeq) /\ At(s.rxList[i].txSeq) < At(max)
  BY DEF RxWindow
<1>5. ASSUME NEW i \in 1 .. Len(s.rxList)
      PROVE  At(s.rxList[i].txSeq) \in Int
  <2>1. s.rxList[i] \in RxFrame
    BY <1>2, ElementOfSeq
  <2>2. s.rxList[i].txSeq \in SeqNum
    BY <2>1 DEF RxFrame
  <2> QED BY <2>2, PlaceType
<1>6. f.txSeq = txSeq
  OBVIOUS
<1> HIDE DEF r, f, list, missing
<1>7. /\ list \in Seq(RxFrame) /\ Len(list) = Len(s.rxList) + 1
      /\ \A i, j \in 1 .. Len(list) : i < j => At(list[i].txSeq) < At(list[j].txSeq)
      /\ \A i \in 1 .. Len(list) : list[i] = f \/ \E j \in 1 .. Len(s.rxList) : list[i] = s.rxList[j]
      /\ \E i \in 1 .. Len(list) : list[i] = f
  <2>1. \A i \in 1 .. Len(s.rxList) : e <= At(s.rxList[i].txSeq)
    <3> HIDE DEF At, e
    <3> QED BY <1>3, <1>4, <1>5
  <2>2. /\ e <= At(f.txSeq)
        /\ ~HasRxSeq(s.rxList, f.txSeq)
    BY <1>6
  <2>3. \A i, j \in 1 .. Len(s.rxList) :
           i < j => At(s.rxList[i].txSeq) < At(s.rxList[j].txSeq)
    BY DEF RxWindow
  <2>4. e \in Int /\ n - WinSize <= e
    BY <1>3
  <2>5. PICK old \in Seq(RxFrame) : old = s.rxList
    BY <1>2
  <2>6. f \in RxFrame
    BY <1>2
  <2> HIDE DEF e
  <2>7. /\ \A i \in 1 .. Len(old) : e <= Place(old[i].txSeq, next, n)
        /\ \A i, j \in 1 .. Len(old) :
             i < j => Place(old[i].txSeq, next, n) < Place(old[j].txSeq, next, n)
        /\ e <= Place(f.txSeq, next, n)
        /\ ~HasRxSeq(old, f.txSeq)
    BY <2>1, <2>2, <2>3, <2>5
  <2>8. LET new == InsertRx(old, f)
         IN  /\ new \in Seq(RxFrame) /\ Len(new) = Len(old) + 1
             /\ \A i, j \in 1 .. Len(new) :
                  i < j => Place(new[i].txSeq, next, n) < Place(new[j].txSeq, next, n)
             /\ \A i \in 1 .. Len(new) : new[i] = f \/ \E j \in 1 .. Len(old) : new[i] = old[j]
             /\ \E i \in 1 .. Len(new) : new[i] = f
    BY <2>4, <2>6, <2>7, InsertRxPlaces
  <2> QED BY <2>5, <2>8 DEF list
<1>8. Len(list) \in Nat /\ Len(s.rxList) \in Nat
  BY <1>2, <1>7, LenProperties
\* The new maxExpectedTxSeq is after everything in the list.
<1>9. /\ At(r.maxExpectedTxSeq) \in Int /\ At(r.maxExpectedTxSeq) <= n
      /\ At(max) <= At(r.maxExpectedTxSeq) /\ p < At(r.maxExpectedTxSeq)
      /\ r.maxExpectedTxSeq \in SeqNum
  <2>1. IsFrameSeqSmaller(max, txSeq) <=> At(max) < p
    <3>1. At(max) - p < SignMask /\ p - At(max) < SignMask
      BY <1>3, WindowFacts, SeqModFacts
    <3> QED BY <1>2, <3>1, PlaceSmaller
  <2>2. /\ GetNextFrameSeq(txSeq) = SeqAdd(txSeq, 1) /\ GetNextFrameSeq(txSeq) \in SeqNum
    BY NextIsSeqAdd
  <2>3. At(SeqAdd(txSeq, 1)) = p + 1
    <3>1. 1 \in 0 .. SeqMod
      BY SeqModFacts
    <3>2. At(SeqAdd(txSeq, 1)) = IF p + 1 <= n THEN p + 1 ELSE p + 1 - SeqMod
      BY <3>1, PlaceAdd
    <3> QED BY <3>2, <1>3
  <2>4. CASE IsFrameSeqSmaller(max, txSeq) \/ max = txSeq
    <3>1. r.maxExpectedTxSeq = SeqAdd(txSeq, 1) /\ r.maxExpectedTxSeq \in SeqNum
      BY <2>2, <2>4, <1>1
    <3>2. At(max) <= p
      <4>1. CASE max = txSeq
        BY <4>1, <1>3
      <4>2. CASE IsFrameSeqSmaller(max, txSeq)
        <5> HIDE DEF At, p
        <5> QED BY <4>2, <2>1, <1>3
      <4> QED BY <4>1, <4>2, <2>4
    <3>3. At(r.maxExpectedTxSeq) = p + 1
      BY <2>3, <3>1
    <3> HIDE DEF At, p
    <3> QED BY <3>1, <3>2, <3>3, <1>3
  <2>5. CASE ~(IsFrameSeqSmaller(max, txSeq) \/ max = txSeq)
    <3>1. r.maxExpectedTxSeq = max
      BY <2>5, <1>1
    <3>2. At(max) # p
      BY <2>5, <1>2, PlaceInjective
    <3>3. ~(At(max) < p)
      BY <2>1, <2>5
    <3>4. At(r.maxExpectedTxSeq) = At(max)
      BY <3>1
    <3> HIDE DEF At, p
    <3> QED BY <3>1, <3>2, <3>3, <3>4, <1>2, <1>3
  <2> QED BY <2>4, <2>5
<1>10. \A i \in 1 .. Len(list) :
         /\ At(list[i].txSeq) \in Int
         /\ At(list[i].txSeq) < At(r.maxExpectedTxSeq)
         /\ At(list[i].txSeq) < n
         /\ (list[i] = f /\ At(list[i].txSeq) = p) \/ e < At(list[i].txSeq)
  <2> SUFFICES ASSUME NEW i \in 1 .. Len(list)
               PROVE  /\ At(list[i].txSeq) \in Int
                      /\ At(list[i].txSeq) < At(r.maxExpectedTxSeq)
                      /\ At(list[i].txSeq) < n
                      /\ (list[i] = f /\ At(list[i].txSeq) = p) \/ e < At(list[i].txSeq)
    OBVIOUS
  <2>1. CASE list[i] = f
    <3>1. At(list[i].txSeq) = p
      BY <2>1, <1>6
    <3> HIDE DEF At, p, e
    <3> QED BY <2>1, <3>1, <1>3, <1>9
  <2>2. CASE \E j \in 1 .. Len(s.rxList) : list[i] = s.rxList[j]
    <3>1. PICK j \in 1 .. Len(s.rxList) : list[i] = s.rxList[j]
      BY <2>2
    <3>2. /\ At(list[i].txSeq) \in Int /\ e < At(list[i].txSeq)
          /\ At(list[i].txSeq) < At(max)
      BY <3>1, <1>4, <1>5
    <3> HIDE DEF At, p, e
    <3> QED BY <3>2, <1>3, <1>9
  <2> QED BY <2>1, <2>2, <1>7
\* The reorder timer.
<1>11. ASSUME NEW k \in 0 .. WinSize, At(r.expectedTxSeq) = e + k,
              e + k <= At(r.maxExpectedTxSeq), r.expectedTxSeq \in SeqNum
       PROVE  r.reorderTimer <=> r.expectedTxSeq # r.maxExpectedTxSeq
  <2> DEFINE x == r.expectedTxSeq
             y == r.maxExpectedTxSeq
  <2>1. k \in Int /\ k >= 0
    BY WindowFacts
  <2>2. At(x) \in Int /\ At(x) = e + k /\ At(y) \in Int /\ At(x) <= At(y) /\ At(y) - e <= WinSize
    <3> HIDE DEF At, e
    <3> QED BY <1>3, <1>9, <1>11, <2>1, WindowFacts
  <2>3. At(x) - At(y) < SignMask /\ At(y) - At(x) < SignMask
    <3> HIDE DEF At, e
    <3> QED BY <1>3, <2>1, <2>2, WindowFacts, SeqModFacts
  <2>4. IsFrameSeqSmaller(x, y) <=> At(x) < At(y)
    BY <1>9, <1>11, <2>3, PlaceSmaller
  <2>5. At(x) = At(y) <=> x = y
    BY <1>9, <1>11, PlaceInjective
  <2>6. At(x) < At(y) <=> x # y
    <3> HIDE DEF At, e, x, y
    <3> QED BY <2>2, <2>5
  <2>7. r.reorderTimer = IF s.reorderTimer THEN x # y ELSE IsFrameSeqSmaller(x, y)
    BY <1>1
  <2> HIDE DEF x, y, At, e
  <2>8. r.reorderTimer <=> x # y
    BY <2>4, <2>6, <2>7
  <2> QED BY <2>8 DEF x, y
<1>12. CASE txSeq # s.expectedTxSeq
  <2>1. p # e
    BY <1>2, <1>12, PlaceInjective
  <2>2. r.expectedTxSeq = s.expectedTxSeq
    BY <1>1, <1>12
  <2>3. \A i \in 1 .. Len(list) : e < At(list[i].txSeq)
    <3> HIDE DEF At, p, e
    <3> QED BY <1>3, <1>10, <2>1
  <2>4. \A i \in 1 .. Len(list) : list[i].txSeq # s.expectedTxSeq
    <3> HIDE DEF At
    <3>1. \A i \in 1 .. Len(list) : At(list[i].txSeq) # At(s.expectedTxSeq)
      BY <2>3, <1>3 DEF At
    <3> QED BY <3>1
  <2>5. Deliverable(r) = 0
    <3>1. r \in Channel /\ 0 \in 0 .. Len(r.rxList)
      BY <1>1, <1>8 DEF Good
    <3>2. SeqAdd(r.bufferSeq, 0) = s.expectedTxSeq
      BY <1>1, <1>2, SeqAddZero
    <3>3. 0 < Len(r.rxList) => r.rxList[0 + 1].txSeq # SeqAdd(r.bufferSeq, 0)
      BY <3>2, <2>4, <1>1, <1>8
    <3> QED BY <3>1, <3>3, DeliverableIs
  <2>6. SeqAdd(s.expectedTxSeq, 0) = s.expectedTxSeq
    BY <1>2, SeqAddZero
  <2>7. At(r.expectedTxSeq) = e + 0 /\ e + 0 <= At(r.maxExpectedTxSeq)
    <3>1. At(r.expectedTxSeq) = e
      BY <2>2
    <3> HIDE DEF At, e
    <3> QED BY <3>1, <1>3, <1>9
  <2>8. 0 \in 0 .. WinSize /\ 0 <= Len(r.rxList)
    BY WindowFacts, <1>1, <1>8
  <2>9. r.reorderTimer <=> r.expectedTxSeq # r.maxExpectedTxSeq
    BY <1>11, <2>7, <2>8, <2>2, <1>2
  <2>10. \A i \in 1 .. Len(list) : i > 0 => At(list[i].txSeq) > e + 0
    <3> HIDE DEF At, p, e
    <3> QED BY <2>3, <1>3, <1>10
  <2>11. \A i \in 1 .. 0 : At(list[i].txSeq) = e + i - 1
    OBVIOUS
  <2> HIDE DEF At, e, p
  <2> QED BY <2>2, <2>5, <2>6, <2>7, <2>8, <2>9, <2>10, <2>11, <1>1, <1>7, <1>10
             DEF r, f, e, At
<1>13. CASE txSeq = s.expectedTxSeq
  <2>1. p = e
    BY <1>13
  <2>2. 1 <= Len(list) /\ list[1].txSeq = txSeq
    <3>1. PICK m \in 1 .. Len(list) : list[m] = f
      BY <1>7
    <3>2. 1 \in 1 .. Len(list)
      BY <3>1, <1>8
    <3>3. At(list[m].txSeq) = e
      BY <3>1, <1>6, <2>1
    <3>4. At(list[1].txSeq) <= e
      <4>1. CASE m = 1
        BY <4>1, <3>3, <1>3
      <4>2. CASE m # 1
        <5>1. At(list[1].txSeq) < At(list[m].txSeq)
          BY <4>2, <3>1, <3>2, <1>7, <1>8
        <5> HIDE DEF At, e
        <5> QED BY <5>1, <3>3, <3>2, <1>10, <1>3
      <4> QED BY <4>1, <4>2
    <3>5. list[1] = f
      <4> HIDE DEF At, e, p
      <4> QED BY <3>2, <3>4, <1>10, <1>3
    <3> QED BY <3>2, <3>5, <1>6
  <2>3. PICK k \in 1 .. WinSize :
           /\ missing = SeqAdd(txSeq, k)
           /\ SeqAdd(txSeq, k) \in SeqNum
           /\ e + k <= n /\ At(SeqAdd(txSeq, k)) = e + k
           /\ k <= Len(list)
           /\ \A i \in 1 .. k : At(list[i].txSeq) = e + i - 1
           /\ \A i \in 1 .. Len(list) : i > k => At(list[i].txSeq) > e + k
    <3>1. \A i \in 1 .. Len(list) : At(list[i].txSeq) < n
      BY <1>10
    <3>2. e = Place(txSeq, next, n)
      BY <1>13
    <3> QED BY <3>1, <3>2, <2>2, <1>3, <1>7, NextMissingPlaces DEF missing
  <2>4. k \in 0 .. WinSize /\ k \in Nat /\ k > 0 /\ k \in 0 .. SeqMod
    BY WindowFacts, SeqModFacts
  <2>5. r.expectedTxSeq = SeqAdd(s.expectedTxSeq, k)
    <3>1. At(missing) # At(txSeq)
      <4>1. At(missing) = e + k /\ At(txSeq) = e
        BY <2>1, <2>3
      <4> HIDE DEF At, e
      <4> QED BY <4>1, <2>4, <1>3
    <3>2. missing # txSeq
      <4> HIDE DEF At
      <4> QED BY <3>1
    <3> QED BY <3>2, <1>1, <1>13, <2>3
  <2>6. At(r.expectedTxSeq) = e + k /\ r.expectedTxSeq \in SeqNum
    BY <2>3, <2>5, <1>13
  <2>7. ASSUME NEW i \in 1 .. k
        PROVE  list[i].txSeq = SeqAdd(s.expectedTxSeq, i - 1)
    <3>0. i - 1 \in 0 .. SeqMod /\ i - 1 \in Nat /\ i <= k /\ i \in Int
      BY <2>4, SeqModFacts
    <3>1. e + (i - 1) <= n /\ e + (i - 1) = e + i - 1
      <4> HIDE DEF At, e
      <4> QED BY <2>3, <2>4, <1>3, <3>0
    <3>2. At(SeqAdd(s.expectedTxSeq, i - 1)) = IF e + (i - 1) <= n THEN e + (i - 1)
                                               ELSE e + (i - 1) - SeqMod
      BY <3>0, <1>2, PlaceAdd
    <3>3. At(list[i].txSeq) = e + i - 1
      BY <2>3
    <3>4. At(SeqAdd(s.expectedTxSeq, i - 1)) = At(list[i].txSeq)
      <4> HIDE DEF At, e
      <4> QED BY <3>1, <3>2, <3>3
    <3>5. SeqAdd(s.expectedTxSeq, i - 1) \in SeqNum
      BY <3>0, <1>2, SeqAddType
    <3>6. i \in 1 .. Len(list)
      BY <2>3, <2>4, <1>8
    <3>7. list[i] \in RxFrame
      BY <3>6, <1>7, ElementOfSeq
    <3>8. list[i].txSeq \in SeqNum
      BY <3>7 DEF RxFrame
    <3> QED BY <3>4, <3>5, <3>8, PlaceInjective
  <2>8. Deliverable(r) = k
    <3>1. r \in Channel /\ k \in 0 .. Len(r.rxList)
      BY <1>1, <1>8, <2>3, <2>4 DEF Good
    <3>2. \A i \in 1 .. k : r.rxList[i].txSeq = SeqAdd(r.bufferSeq, i - 1)
      BY <2>7, <1>1, <1>2
    <3>3. k < Len(r.rxList) => r.rxList[k + 1].txSeq # SeqAdd(r.bufferSeq, k)
      <4> SUFFICES ASSUME k < Len(list), list[k + 1].txSeq = SeqAdd(s.expectedTxSeq, k)
                   PROVE  FALSE
        BY <1>1, <1>2
      <4>1. k + 1 \in 1 .. Len(list) /\ k + 1 > k
        BY <2>4, <1>8
      <4>2. At(list[k + 1].txSeq) > e + k
        BY <4>1, <2>3
      <4>3. At(list[k + 1].txSeq) = e + k
        BY <2>3, <1>13
      <4> HIDE DEF At, e
      <4> QED BY <4>2, <4>3, <1>3, <2>4
    <3> QED BY <3>1, <3>2, <3>3, DeliverableIs
  <2>9. e + k <= At(r.maxExpectedTxSeq)
    <3>1. k \in 1 .. k /\ k \in 1 .. Len(list)
      BY <2>3, <2>4, <1>8
    <3>2. At(list[k].txSeq) = e + k - 1 /\ At(list[k].txSeq) < At(r.maxExpectedTxSeq)
      BY <3>1, <2>3, <1>10
    <3> HIDE DEF At, e
    <3> QED BY <3>2, <1>3, <1>9, <2>4
  <2>10. r.reorderTimer <=> r.expectedTxSeq # r.maxExpectedTxSeq
    BY <1>11, <2>4, <2>6, <2>9
  <2>11. k <= Len(list)
    BY <2>3
  <2>12. /\ \A i \in 1 .. k : At(list[i].txSeq) = e + i - 1
         /\ \A i \in 1 .. Len(list) : i > k => At(list[i].txSeq) > e + k
    BY <2>3
  <2> HIDE DEF At, e, p
  <2> QED BY <2>4, <2>5, <2>6, <2>8, <2>9, <2>10, <2>11, <2>12, <1>1, <1>7, <1>10
             DEF r, f, e, At
<1> QED BY <1>12, <1>13

\* A receiver whose upper layer never answers "full" hands over all it can.
LEMMA HandOverAll ==
  ASSUME MaxFull = 0, NEW s, s \in Channel, ~s.isRxWindowFull, NEW k \in HandOvers(s)
  PROVE  k = Deliverable(s) /\ k \in 0 .. Len(s.rxList)
<1>1. Deliverable(s) \in 0 .. Len(s.rxList) /\ s.rxList \in Seq(RxFrame) /\ Len(s.rxList) \in Nat
  BY DeliverableType, LenProperties DEF Channel
<1>2. k \in 0 .. Deliverable(s) /\ (k < Deliverable(s) => MayAnswerFull(s.rxList[k + 1]))
  BY DEF HandOvers
<1>3. ~(k < Deliverable(s))
  <2> SUFFICES ASSUME k < Deliverable(s) PROVE FALSE
    OBVIOUS
  <2>1. k + 1 \in 1 .. Len(s.rxList)
    BY <1>1, <1>2
  <2>2. s.rxList[k + 1] \in RxFrame
    BY <2>1, <1>1, ElementOfSeq
  <2>3. s.rxList[k + 1].trims \in Nat
    BY <2>2 DEF RxFrame
  <2>4. s.rxList[k + 1].trims < 0
    BY <1>2 DEF MayAnswerFull
  <2> QED BY <2>3, <2>4
<1> QED BY <1>1, <1>2, <1>3

\* The fields of a channel after DTAP_RecvEnhanceFrameInner has handed over all it can.
LEMMA TakeFields ==
  ASSUME NEW s, Good(s), ~s.isRxWindowFull, NEW k \in 0 .. Len(s.rxList),
         k = Deliverable(s), k \in HandOvers(s)
  PROVE  LET r == RecvEnhanceFrameInner(s, k)
         IN  /\ Good(r) /\ SameTx(s, r)
             /\ r.bufferSeq = SeqAdd(s.bufferSeq, k)
             /\ r.expectedTxSeq = s.expectedTxSeq
             /\ r.maxExpectedTxSeq = s.maxExpectedTxSeq
             /\ ~r.isRxWindowFull /\ r.reorderTimer = s.reorderTimer
             /\ Len(r.rxList) = Len(s.rxList) - k
             /\ \A i \in 1 .. Len(r.rxList) : r.rxList[i] = s.rxList[k + i]
             /\ Len(r.handed) = Len(s.handed) + k
             /\ \A i \in 1 .. Len(s.handed) : r.handed[i] = s.handed[i]
             /\ \A i \in 1 .. k : r.handed[Len(s.handed) + i].pdu = s.rxList[i].pdu
<1> DEFINE r == RecvEnhanceFrameInner(s, k)
           len == Len(s.rxList)
           h == Len(s.handed)
           taken == [i \in 1 .. k |-> [pdu |-> s.rxList[i].pdu, trims |-> s.rxList[i].trims]]
           rest == SubSeq(s.rxList, k + 1, len)
           handed == s.handed \o taken
<1>1. Good(r)
  BY RecvInnerGood
<1>2. r = [s EXCEPT !.bufferSeq = SeqAdd(s.bufferSeq, k), !.rxList = rest, !.handed = handed]
  BY DEF RecvEnhanceFrameInner
<1>3. /\ s.rxList \in Seq(RxFrame) /\ len \in Nat
      /\ s.handed \in Seq(HandOver) /\ h \in Nat
  BY LenProperties DEF Good, Channel
<1>4. /\ taken \in Seq(HandOver) /\ Len(taken) = k
      /\ \A i \in 1 .. k : taken[i].pdu = s.rxList[i].pdu
  <2>1. ASSUME NEW i \in 1 .. k
        PROVE  [pdu |-> s.rxList[i].pdu, trims |-> s.rxList[i].trims] \in HandOver
    <3>1. s.rxList[i] \in RxFrame
      BY <1>3, ElementOfSeq
    <3> QED BY <3>1 DEF RxFrame, HandOver
  <2>2. taken \in [1 .. k -> HandOver]
    BY <2>1
  <2>3. \A i \in 1 .. k : taken[i].pdu = s.rxList[i].pdu
    OBVIOUS
  <2> HIDE DEF taken
  <2>4. k \in Nat
    BY <1>3
  <2> QED BY <2>2, <2>3, <2>4, FunctionIsSeq
<1>5. /\ Len(rest) = len - k
      /\ \A i \in 1 .. len - k : rest[i] = s.rxList[k + i]
  <2>1. \A i \in k + 1 .. len : s.rxList[i] \in RxFrame
    BY <1>3, ElementOfSeq
  <2> HIDE DEF len
  <2>2. /\ Len(rest) = IF k + 1 <= len THEN len - (k + 1) + 1 ELSE 0
        /\ \A i \in 1 .. len - (k + 1) + 1 : rest[i] = s.rxList[k + 1 + i - 1]
    <3>1. k + 1 \in Int /\ len \in Int
      BY <1>3
    <3> QED BY <3>1, <2>1, SubSeqProperties
  <2>3. k \in 0 .. len
    BY DEF len
  <2> HIDE DEF rest
  <2>4. Len(rest) = len - k
    BY <1>3, <2>2, <2>3
  <2>5. \A i \in 1 .. len - k : i \in 1 .. len - (k + 1) + 1 /\ k + 1 + i - 1 = k + i
    BY <1>3, <2>3
  <2> QED BY <2>2, <2>4, <2>5
<1> HIDE DEF taken
<1>6. /\ Len(handed) = h + k
      /\ \A i \in 1 .. h + k : handed[i] = IF i <= h THEN s.handed[i] ELSE taken[i - h]
  <2>1. /\ Len(handed) = Len(s.handed) + Len(taken)
        /\ \A i \in 1 .. Len(s.handed) + Len(taken) :
             handed[i] = IF i <= Len(s.handed) THEN s.handed[i] ELSE taken[i - Len(s.handed)]
    BY <1>3, <1>4, ConcatProperties
  <2> QED BY <2>1, <1>4
<1> HIDE DEF r, rest, handed, len, h
<1>7. /\ SameTx(s, r) /\ r.bufferSeq = SeqAdd(s.bufferSeq, k)
      /\ r.expectedTxSeq = s.expectedTxSeq /\ r.maxExpectedTxSeq = s.maxExpectedTxSeq
      /\ r.isRxWindowFull = s.isRxWindowFull /\ r.reorderTimer = s.reorderTimer
      /\ r.rxList = rest /\ r.handed = handed
  BY <1>2 DEF Good, Channel, SameTx
<1>8. \A i \in 1 .. h : handed[i] = s.handed[i]
  <2>0. k \in 0 .. len
    BY DEF len
  <2>1. \A i \in 1 .. h : i \in 1 .. h + k /\ i <= h
    BY <1>3, <2>0
  <2> QED BY <2>1, <1>6
<1>9. ASSUME NEW i \in 1 .. k
      PROVE  handed[h + i].pdu = s.rxList[i].pdu
  <2>0. k \in 0 .. len
    BY DEF len
  <2>1. h + i \in 1 .. h + k /\ ~(h + i <= h) /\ (h + i) - h = i
    BY <1>3, <2>0
  <2>2. handed[h + i] = taken[i]
    BY <2>1, <1>6
  <2> QED BY <2>2, <1>4
<1> QED BY <1>1, <1>5, <1>6, <1>7, <1>8, <1>9 DEF r, len, h

\* The k frames that u has handed over and s has not: the new one or ones that s held, each
\* at its place.
HandedByStep(s, u, k, txSeq, pdu, next, n) ==
    \A i \in 1 .. k :
      \/ /\ Place(txSeq, next, n) = Place(s.expectedTxSeq, next, n) + i - 1
         /\ u.handed[Len(s.handed) + i].pdu = pdu
      \/ \E j \in 1 .. Len(s.rxList) :
           /\ Place(s.rxList[j].txSeq, next, n) = Place(s.expectedTxSeq, next, n) + i - 1
           /\ u.handed[Len(s.handed) + i].pdu = s.rxList[j].pdu

\* A frame of the window that the receiver does not hold, through the whole of
\* DTAP_RecvEnhanceFrame: the window stays a window and what is handed over has the
\* places that follow what was handed over before.
LEMMA ReceiveStep ==
  ASSUME MaxFull = 0, NEW s, Good(s), NEW txSeq \in SeqNum, NEW pdu \in Pdu,
         NEW next \in SeqNum, NEW n \in Nat, RxWindow(s, next, n),
         Place(s.expectedTxSeq, next, n) <= Place(txSeq, next, n),
         Place(txSeq, next, n) < n,
         ~HasRxSeq(s.rxList, txSeq),
         NEW k \in HandOvers(OperateReorderTimer(SlideRxWindow(s, txSeq, pdu)))
  PROVE  LET u == RecvEnhanceFrameInner(OperateReorderTimer(SlideRxWindow(s, txSeq, pdu)), k)
             e == Place(s.expectedTxSeq, next, n)
             At(q) == Place(q, next, n)
         IN  /\ Good(u) /\ SameTx(s, u) /\ RxWindow(u, next, n)
             /\ u.reorderTimer <=> u.expectedTxSeq # u.maxExpectedTxSeq
             /\ k \in 0 .. WinSize
             /\ u.expectedTxSeq = SeqAdd(s.expectedTxSeq, k)
             /\ At(u.expectedTxSeq) = e + k
             /\ Len(u.handed) = Len(s.handed) + k
             /\ \A i \in 1 .. Len(s.handed) : u.handed[i] = s.handed[i]
             /\ HandedByStep(s, u, k, txSeq, pdu, next, n)
             /\ \A i \in 1 .. Len(u.rxList) :
                  \/ u.rxList[i].txSeq = txSeq /\ u.rxList[i].pdu = pdu
                  \/ \E j \in 1 .. Len(s.rxList) : u.rxList[i] = s.rxList[j]
<1> DEFINE r == OperateReorderTimer(SlideRxWindow(s, txSeq, pdu))
           u == RecvEnhanceFrameInner(r, k)
           f == [txSeq |-> txSeq, pdu |-> pdu, trims |-> 0]
           e == Place(s.expectedTxSeq, next, n)
           At(q) == Place(q, next, n)
<1>1. /\ Good(r) /\ SameTx(s, r) /\ r.bufferSeq = s.bufferSeq
      /\ r.isRxWindowFull = s.isRxWindowFull /\ r.handed = s.handed
  BY RecvFields
<1>2. PICK d \in 0 .. WinSize :
               /\ d <= Len(r.rxList) /\ Deliverable(r) = d
               /\ r.expectedTxSeq = SeqAdd(s.expectedTxSeq, d)
               /\ At(r.expectedTxSeq) = e + d
               /\ \A i \in 1 .. d : At(r.rxList[i].txSeq) = e + i - 1
               /\ \A i \in 1 .. Len(r.rxList) : i > d => At(r.rxList[i].txSeq) > e + d
               /\ \A i \in 1 .. Len(r.rxList) :
                    /\ At(r.rxList[i].txSeq) < At(r.maxExpectedTxSeq)
                    /\ r.rxList[i] = f \/ \E j \in 1 .. Len(s.rxList) : r.rxList[i] = s.rxList[j]
               /\ \A i, j \in 1 .. Len(r.rxList) :
                    i < j => At(r.rxList[i].txSeq) < At(r.rxList[j].txSeq)
               /\ e + d <= At(r.maxExpectedTxSeq)
               /\ r.reorderTimer <=> r.expectedTxSeq # r.maxExpectedTxSeq
  BY IntoWindow
<1>3. /\ ~s.isRxWindowFull /\ s.bufferSeq = s.expectedTxSeq /\ n - WinSize <= e
      /\ s.expectedTxSeq \in SeqNum
  BY DEF RxWindow, Good, Channel
<1>4. e \in Int
  BY <1>3, PlaceType
<1> HIDE DEF r
<1>5. k = d /\ k \in 0 .. Len(r.rxList)
  <2>1. r \in Channel /\ ~r.isRxWindowFull /\ k \in HandOvers(r)
    BY <1>1, <1>3 DEF Good, r
  <2>2. k = Deliverable(r) /\ k \in 0 .. Len(r.rxList)
    BY <2>1, HandOverAll
  <2> QED BY <2>2, <1>2
<1>6. /\ Good(u) /\ SameTx(r, u)
      /\ u.bufferSeq = SeqAdd(r.bufferSeq, k)
      /\ u.expectedTxSeq = r.expectedTxSeq
      /\ u.maxExpectedTxSeq = r.maxExpectedTxSeq
      /\ ~u.isRxWindowFull /\ u.reorderTimer = r.reorderTimer
      /\ Len(u.rxList) = Len(r.rxList) - k
      /\ \A i \in 1 .. Len(u.rxList) : u.rxList[i] = r.rxList[k + i]
      /\ Len(u.handed) = Len(r.handed) + k
      /\ \A i \in 1 .. Len(r.handed) : u.handed[i] = r.handed[i]
      /\ \A i \in 1 .. k : u.handed[Len(r.handed) + i].pdu = r.rxList[i].pdu
  <2>1. ~r.isRxWindowFull /\ k = Deliverable(r) /\ k \in HandOvers(r)
    BY <1>1, <1>2, <1>3, <1>5 DEF r
  <2> QED BY <2>1, <1>1, <1>5, TakeFields
<1> HIDE DEF u, f
<1>7. SameTx(s, u)
  BY <1>1, <1>6 DEF SameTx
<1>8. Len(r.rxList) \in Nat /\ k \in Nat /\ Len(u.rxList) \in Nat
  <2>1. Len(r.rxList) \in Nat
    BY <1>1, LenProperties DEF Good, Channel
  <2> QED BY <2>1, <1>5, <1>6
<1>9. ASSUME NEW i \in 1 .. Len(u.rxList)
      PROVE  /\ k + i \in 1 .. Len(r.rxList) /\ k + i > k /\ i \in Nat
             /\ u.rxList[i] = r.rxList[k + i]
             /\ At(u.rxList[i].txSeq) > e + k
             /\ At(u.rxList[i].txSeq) < At(u.maxExpectedTxSeq)
  <2>1. k + i \in 1 .. Len(r.rxList) /\ k + i > k /\ i \in Nat
    BY <1>6, <1>8
  <2>2. u.rxList[i] = r.rxList[k + i]
    BY <1>6
  <2>3. At(r.rxList[k + i].txSeq) > e + k
    BY <2>1, <1>2, <1>5
  <2>4. At(r.rxList[k + i].txSeq) < At(u.maxExpectedTxSeq)
    BY <2>1, <1>2, <1>6
  <2> QED BY <2>1, <2>2, <2>3, <2>4
<1>10. ASSUME NEW i \in 1 .. Len(u.rxList), NEW j \in 1 .. Len(u.rxList), i < j
       PROVE  At(u.rxList[i].txSeq) < At(u.rxList[j].txSeq)
  <2>1. k + i < k + j
    BY <1>8, <1>9, <1>10
  <2>2. At(r.rxList[k + i].txSeq) < At(r.rxList[k + j].txSeq)
    BY <2>1, <1>9, <1>2
  <2> QED BY <2>2, <1>9
<1>11. At(u.expectedTxSeq) = e + k
  BY <1>2, <1>5, <1>6
<1>12. RxWindow(u, next, n)
  <2>1. u.bufferSeq = u.expectedTxSeq
    BY <1>1, <1>2, <1>3, <1>5, <1>6
  <2>2. n - WinSize <= At(u.expectedTxSeq) /\ At(u.expectedTxSeq) <= At(u.maxExpectedTxSeq)
    <3>1. e + k <= At(u.maxExpectedTxSeq)
      BY <1>2, <1>5, <1>6
    <3> HIDE DEF At, e
    <3> QED BY <3>1, <1>3, <1>4, <1>8, <1>11, WindowFacts
  <2>3. \A i \in 1 .. Len(u.rxList) :
             /\ At(u.expectedTxSeq) < At(u.rxList[i].txSeq)
             /\ At(u.rxList[i].txSeq) < At(u.maxExpectedTxSeq)
    <3>1. ASSUME NEW i \in 1 .. Len(u.rxList)
          PROVE  At(u.rxList[i].txSeq) \in Int
      <4>1. u.rxList \in Seq(RxFrame)
        BY <1>6 DEF Good, Channel
      <4>2. u.rxList[i] \in RxFrame
        BY <4>1, ElementOfSeq
      <4>3. u.rxList[i].txSeq \in SeqNum
        BY <4>2 DEF RxFrame
      <4> QED BY <4>3, PlaceType
    <3> HIDE DEF At, e
    <3> QED BY <3>1, <1>4, <1>8, <1>9, <1>11
  <2> QED BY <2>1, <2>2, <2>3, <1>6, <1>10 DEF RxWindow
<1>13. u.reorderTimer <=> u.expectedTxSeq # u.maxExpectedTxSeq
  BY <1>2, <1>6
<1>14. /\ Len(u.handed) = Len(s.handed) + k
       /\ \A i \in 1 .. Len(s.handed) : u.handed[i] = s.handed[i]
  BY <1>1, <1>6
<1>15. f.txSeq = txSeq /\ f.pdu = pdu
  BY DEF f
<1>16. ASSUME NEW i \in 1 .. k
       PROVE  \/ At(txSeq) = e + i - 1 /\ u.handed[Len(s.handed) + i].pdu = pdu
              \/ \E j \in 1 .. Len(s.rxList) :
                   /\ At(s.rxList[j].txSeq) = e + i - 1
                   /\ u.handed[Len(s.handed) + i].pdu = s.rxList[j].pdu
  <2>1. i \in 1 .. Len(r.rxList)
    BY <1>5, <1>8
  <2>2. /\ At(r.rxList[i].txSeq) = e + i - 1
        /\ u.handed[Len(s.handed) + i].pdu = r.rxList[i].pdu
    BY <1>1, <1>2, <1>5, <1>6
  <2>3. r.rxList[i] = f \/ \E j \in 1 .. Len(s.rxList) : r.rxList[i] = s.rxList[j]
    BY <2>1, <1>2
  <2> QED BY <2>2, <2>3, <1>15
<1>17. ASSUME NEW i \in 1 .. Len(u.rxList)
       PROVE  \/ u.rxList[i].txSeq = txSeq /\ u.rxList[i].pdu = pdu
              \/ \E j \in 1 .. Len(s.rxList) : u.rxList[i] = s.rxList[j]
  BY <1>2, <1>9, <1>15
<1>18. k \in 0 .. WinSize /\ u.expectedTxSeq = SeqAdd(s.expectedTxSeq, k)
  BY <1>2, <1>5, <1>6
<1>19. HandedByStep(s, u, k, txSeq, pdu, next, n)
  <2> HIDE DEF u
  <2> QED BY <1>16 DEF HandedByStep
<1> HIDE DEF At, e
<1> QED BY <1>6, <1>7, <1>11, <1>12, <1>13, <1>14, <1>17, <1>18, <1>19 DEF u, r, e, At

-----------------------------------------------------------------------------
(***************************************************************************)
(* Sending.                                                                *)
(***************************************************************************)
IsData(f) == f.type # "ack"

\* The same frame, up to the P bit.
SameFrame(f, g) == f.txSeq = g.txSeq /\ f.pdu = g.pdu /\ f.reqSeq = g.reqSeq

\* The history and the send window of s grow by the same frames.
Grows(s, r) ==
    /\ Len(s.sent) <= Len(r.sent)
    /\ Len(r.txList) - Len(s.txList) = Len(r.sent) - Len(s.sent)
    /\ r.expectedAckSeq = s.expectedAckSeq
    /\ r.nextTxSeq = SeqAdd(s.nextTxSeq, Len(r.sent) - Len(s.sent))
    /\ \A i \in 1 .. Len(s.sent) : r.sent[i] = s.sent[i]

\* The frames of the window stay, and the new ones acknowledge what s expects.
Extends(s, r) ==
    /\ \A i \in 1 .. Len(s.txList) : SameFrame(r.txList[i].frame, s.txList[i].frame)
    /\ \A i \in 1 .. Len(r.txList) : i > Len(s.txList) =>
         /\ r.txList[i].frame.pdu = r.sent[Len(r.sent) - Len(r.txList) + i]
         /\ r.txList[i].frame.reqSeq \in {SEQ_INIT, s.expectedTxSeq}

\* What goes out is a frame of the window or acknowledges what s has received.
Emits(s, r) ==
    /\ Len(s.out) <= Len(r.out)
    /\ \A j \in 1 .. Len(s.out) : r.out[j] = s.out[j]
    /\ \A j \in 1 .. Len(r.out) : j > Len(s.out) =>
         \/ /\ IsData(r.out[j])
            /\ \E i \in 1 .. Len(r.txList) : SameFrame(r.out[j], r.txList[i].frame)
         \/ /\ ~IsData(r.out[j])
            /\ r.out[j].reqSeq \in {s.expectedTxSeq, s.bufferSeq}

\* What sending, in any of its forms, may do to a channel.
Sends(s, r) == SameRx(s, r) /\ Grows(s, r) /\ Extends(s, r) /\ Emits(s, r)

\* The lengths of a channel's sequences are numbers.
LEMMA Lengths ==
  ASSUME NEW s, s \in Channel
  PROVE  /\ Len(s.sent) \in Nat /\ Len(s.txList) \in Nat /\ Len(s.out) \in Nat
         /\ Len(s.rxList) \in Nat /\ Len(s.handed) \in Nat
<1>1. /\ s.sent \in Seq(Pdu) /\ s.txList \in Seq(TxFrame)
      /\ s.out \in Seq(AckFrame \cup DataFrame)
      /\ s.rxList \in Seq(RxFrame) /\ s.handed \in Seq(HandOver)
  BY DEF Channel
<1> QED BY <1>1, LenProperties

\* A step that leaves the windows and the output alone.
LEMMA SendsSame ==
  ASSUME NEW s, s \in Channel, NEW r, SameRx(s, r),
         r.nextTxSeq = s.nextTxSeq, r.expectedAckSeq = s.expectedAckSeq,
         r.txList = s.txList, r.sent = s.sent, r.out = s.out
  PROVE  Sends(s, r)
<1>1. /\ Len(s.sent) \in Nat /\ Len(s.txList) \in Nat /\ Len(s.out) \in Nat
      /\ s.nextTxSeq \in SeqNum
  BY Lengths DEF Channel
<1>2. Len(r.sent) - Len(s.sent) = 0 /\ Len(r.txList) - Len(s.txList) = 0
  BY <1>1
<1>3. r.nextTxSeq = SeqAdd(s.nextTxSeq, Len(r.sent) - Len(s.sent))
  BY <1>1, <1>2, SeqAddZero
<1>4. Grows(s, r)
  BY <1>1, <1>2, <1>3 DEF Grows
<1>5. Extends(s, r)
  <2>1. \A i \in 1 .. Len(s.txList) : ~(i > Len(s.txList))
    BY <1>1
  <2> QED BY <2>1 DEF Extends, SameFrame
<1>6. Emits(s, r)
  BY <1>1 DEF Emits
<1> QED BY <1>4, <1>5, <1>6 DEF Sends

\* Steps of sending add up.
LEMMA SendsTrans ==
  ASSUME NEW s, Good(s), NEW r, Good(r), NEW u, Good(u), Sends(s, r), Sends(r, u)
  PROVE  Sends(s, u)
<1> DEFINE n == Len(s.sent)
           m == Len(r.sent)
           w == Len(u.sent)
           t == Len(s.txList)
           v == Len(r.txList)
           x == Len(u.txList)
<1>1. /\ n \in Nat /\ m \in Nat /\ w \in Nat /\ t \in Nat /\ v \in Nat /\ x \in Nat
      /\ Len(s.out) \in Nat /\ Len(r.out) \in Nat /\ Len(u.out) \in Nat
      /\ s.nextTxSeq \in SeqNum
  BY Lengths DEF Good, Channel
<1>2. x <= WinSize
  BY DEF Good, TxWindow
<1>3. /\ n <= m /\ m <= w /\ v - t = m - n /\ x - v = w - m
  BY DEF Sends, Grows
<1>8. /\ n <= w /\ x - t = w - n /\ t <= v /\ v <= x
      /\ m - n \in Nat /\ w - m \in Nat /\ (m - n) + (w - m) <= SeqMod
      /\ (m - n) + (w - m) = w - n
  <2> HIDE DEF n, m, w, t, v, x
  <2> QED BY <1>1, <1>2, <1>3, WindowFacts, SeqModFacts
<1>4. /\ SameRx(s, u) /\ r.expectedTxSeq = s.expectedTxSeq /\ r.bufferSeq = s.bufferSeq
  BY DEF Sends, SameRx
<1>5. Grows(s, u)
  <2>1. r.nextTxSeq = SeqAdd(s.nextTxSeq, m - n) /\ u.nextTxSeq = SeqAdd(r.nextTxSeq, w - m)
    BY DEF Sends, Grows
  <2>2. /\ m - n \in Nat /\ w - m \in Nat /\ (m - n) + (w - m) <= SeqMod
        /\ (m - n) + (w - m) = w - n
    BY <1>8
  <2>3. u.nextTxSeq = SeqAdd(s.nextTxSeq, w - n)
    <3> HIDE DEF n, m, w, t, v, x
    <3>1. SeqAdd(SeqAdd(s.nextTxSeq, m - n), w - m) = SeqAdd(s.nextTxSeq, (m - n) + (w - m))
      BY <1>1, <2>2, SeqAddAdd
    <3> QED BY <2>1, <2>2, <3>1
  <2>4. \A i \in 1 .. n : u.sent[i] = s.sent[i]
    <3>1. \A i \in 1 .. n : i \in 1 .. m
      <4> HIDE DEF n, m
      <4> QED BY <1>1, <1>3
    <3> QED BY <3>1 DEF Sends, Grows
  <2>5. n <= w /\ x - t = w - n /\ u.expectedAckSeq = s.expectedAckSeq
    BY <1>8 DEF Sends, Grows
  <2> QED BY <2>3, <2>4, <2>5 DEF Grows
<1>6. Extends(s, u)
  <2>1. ASSUME NEW i \in 1 .. t
        PROVE  SameFrame(u.txList[i].frame, s.txList[i].frame)
    <3>1. i \in 1 .. v
      <4> HIDE DEF t, v
      <4> QED BY <1>1, <1>8
    <3>2. /\ SameFrame(r.txList[i].frame, s.txList[i].frame)
          /\ SameFrame(u.txList[i].frame, r.txList[i].frame)
      BY <3>1 DEF Sends, Extends
    <3> QED BY <3>2 DEF SameFrame
  <2>2. ASSUME NEW i \in 1 .. x, i > t
        PROVE  /\ u.txList[i].frame.pdu = u.sent[w - x + i]
               /\ u.txList[i].frame.reqSeq \in {SEQ_INIT, s.expectedTxSeq}
    <3>1. CASE i > v
      BY <3>1, <1>4 DEF Sends, Extends
    <3>2. CASE i <= v
      <4>1. i \in 1 .. v /\ w - x + i = m - v + i /\ m - v + i \in Int
            /\ m - v = n - t /\ m - v + i <= m
        <5> HIDE DEF n, m, w, t, v, x
        <5> QED BY <1>1, <1>3, <3>2
      <4>2. SameFrame(u.txList[i].frame, r.txList[i].frame)
        BY <4>1 DEF Sends, Extends
      <4>3. /\ r.txList[i].frame.pdu = r.sent[m - v + i]
            /\ r.txList[i].frame.reqSeq \in {SEQ_INIT, s.expectedTxSeq}
        BY <4>1, <2>2 DEF Sends, Extends
      <4>4. m - v + i \in 1 .. m
        <5> HIDE DEF n, m, w, t, v, x
        <5> QED BY <1>1, <1>3, <2>2, <4>1
      <4>5. u.sent[m - v + i] = r.sent[m - v + i]
        BY <4>4 DEF Sends, Grows
      <4> QED BY <4>1, <4>2, <4>3, <4>5 DEF SameFrame
    <3> QED BY <1>1, <3>1, <3>2
  <2> QED BY <2>1, <2>2 DEF Extends
<1>7. Emits(s, u)
  <2>1. Len(s.out) <= Len(r.out) /\ Len(r.out) <= Len(u.out)
    BY DEF Sends, Emits
  <2>2. \A j \in 1 .. Len(s.out) : u.out[j] = s.out[j]
    <3>1. \A j \in 1 .. Len(s.out) : j \in 1 .. Len(r.out)
      BY <1>1, <2>1
    <3> QED BY <3>1 DEF Sends, Emits
  <2>3. ASSUME NEW j \in 1 .. Len(u.out), j > Len(s.out)
        PROVE  \/ /\ IsData(u.out[j])
                  /\ \E i \in 1 .. x : SameFrame(u.out[j], u.txList[i].frame)
               \/ /\ ~IsData(u.out[j])
                  /\ u.out[j].reqSeq \in {s.expectedTxSeq, s.bufferSeq}
    <3>1. CASE j > Len(r.out)
      BY <3>1, <1>4 DEF Sends, Emits
    <3>2. CASE j <= Len(r.out)
      <4>1. j \in 1 .. Len(r.out)
        BY <1>1, <3>2
      <4>2. u.out[j] = r.out[j]
        BY <4>1 DEF Sends, Emits
      <4>3. \/ /\ IsData(r.out[j])
               /\ \E i \in 1 .. v : SameFrame(r.out[j], r.txList[i].frame)
            \/ /\ ~IsData(r.out[j])
               /\ r.out[j].reqSeq \in {s.expectedTxSeq, s.bufferSeq}
        BY <4>1, <2>3 DEF Sends, Emits
      <4>4. ASSUME NEW i \in 1 .. v, SameFrame(r.out[j], r.txList[i].frame)
            PROVE  i \in 1 .. x /\ SameFrame(r.out[j], u.txList[i].frame)
        <5>1. i \in 1 .. x
          <6> HIDE DEF v, x
          <6> QED BY <1>1, <1>8
        <5>2. SameFrame(u.txList[i].frame, r.txList[i].frame)
          BY DEF Sends, Extends
        <5> QED BY <4>4, <5>1, <5>2 DEF SameFrame
      <4> QED BY <4>2, <4>3, <4>4
    <3> QED BY <1>1, <3>1, <3>2
  <2>4. Len(s.out) <= Len(u.out)
    BY <1>1, <2>1
  <2> QED BY <2>2, <2>3, <2>4 DEF Emits
<1> QED BY <1>4, <1>5, <1>6, <1>7 DEF Sends

\* A step that keeps the frames of the window, up to the P bit, and sends at most one.
LEMMA SendsAgain ==
  ASSUME NEW s, Good(s), NEW r, SameRx(s, r),
         r.nextTxSeq = s.nextTxSeq, r.expectedAckSeq = s.expectedAckSeq, r.sent = s.sent,
         Len(r.txList) = Len(s.txList),
         \A j \in 1 .. Len(s.txList) : SameFrame(r.txList[j].frame, s.txList[j].frame),
         NEW g \in AckFrame \cup DataFrame,
         \/ r.out = s.out
         \/ /\ r.out = Append(s.out, g)
            /\ \/ /\ IsData(g)
                  /\ \E i \in 1 .. Len(r.txList) : SameFrame(g, r.txList[i].frame)
               \/ /\ ~IsData(g)
                  /\ g.reqSeq \in {s.expectedTxSeq, s.bufferSeq}
  PROVE  Sends(s, r)
<1>1. /\ Len(s.sent) \in Nat /\ Len(s.txList) \in Nat /\ Len(s.out) \in Nat
      /\ s.nextTxSeq \in SeqNum /\ s.out \in Seq(AckFrame \cup DataFrame)
  BY Lengths DEF Good, Channel
<1>2. Len(r.sent) - Len(s.sent) = 0 /\ Len(r.txList) - Len(s.txList) = 0
  BY <1>1
<1>3. r.nextTxSeq = SeqAdd(s.nextTxSeq, Len(r.sent) - Len(s.sent))
  BY <1>1, <1>2, SeqAddZero
<1>4. Grows(s, r)
  BY <1>1, <1>2, <1>3 DEF Grows
<1>5. Extends(s, r)
  <2>1. \A i \in 1 .. Len(s.txList) : ~(i > Len(s.txList))
    BY <1>1
  <2> QED BY <2>1 DEF Extends
<1>6. Emits(s, r)
  <2>1. CASE r.out = s.out
    <3>1. \A j \in 1 .. Len(s.out) : ~(j > Len(s.out))
      BY <1>1
    <3> QED BY <2>1, <3>1, <1>1 DEF Emits
  <2>2. CASE r.out # s.out
    <3>1. /\ Len(r.out) = Len(s.out) + 1
          /\ \A j \in 1 .. Len(s.out) : r.out[j] = s.out[j]
          /\ r.out[Len(s.out) + 1] = g
      BY <2>2, <1>1, AppendProperties
    <3>2. ASSUME NEW j \in 1 .. Len(r.out), j > Len(s.out)
          PROVE  j = Len(s.out) + 1
      BY <3>1, <3>2, <1>1
    <3>3. Len(s.out) <= Len(r.out)
      BY <3>1, <1>1
    <3> QED BY <2>2, <3>1, <3>2, <3>3 DEF Emits
  <2> QED BY <2>1, <2>2
<1> QED BY <1>4, <1>5, <1>6 DEF Sends

\* Setting the P bit keeps the frame.
LEMMA PolledSame ==
  ASSUME NEW f \in DataFrame
  PROVE  /\ [f EXCEPT !.pBit = TRUE] \in DataFrame
         /\ SameFrame([f EXCEPT !.pBit = TRUE], f)
         /\ IsData([f EXCEPT !.pBit = TRUE])
BY DEF DataFrame, SameFrame, IsData

\* Replacing a frame of the window by the same frame.
LEMMA SetSameFrame ==
  ASSUME NEW s, Good(s), NEW i \in 1 .. Len(s.txList), NEW g \in TxFrame,
         SameFrame(g.frame, s.txList[i].frame)
  PROVE  \E list \in Seq(TxFrame) :
           /\ list = [s.txList EXCEPT ![i] = g] /\ Len(list) = Len(s.txList)
           /\ list[i] = g
           /\ \A j \in 1 .. Len(s.txList) : SameFrame(list[j].frame, s.txList[j].frame)
<1>1. s.txList \in Seq(TxFrame)
  BY DEF Good, Channel
<1>2. PICK list : list = [s.txList EXCEPT ![i] = g]
  OBVIOUS
<1>3. /\ list \in Seq(TxFrame) /\ Len(list) = Len(s.txList)
      /\ \A j \in 1 .. Len(s.txList) : list[j] = IF j = i THEN g ELSE s.txList[j]
  BY <1>1, <1>2, ExceptList
<1>4. \A j \in 1 .. Len(s.txList) : SameFrame(list[j].frame, s.txList[j].frame)
  BY <1>3 DEF SameFrame
<1> QED BY <1>2, <1>3, <1>4

\* DTAP_RetransEnhanceFrame sends a frame of the window again.
LEMMA RetransSends ==
  ASSUME NEW s, Good(s), NEW ok \in BOOLEAN
  PROVE  Sends(s, RetransEnhanceFrame(s, ok))
<1> DEFINE i == TxIndex(s.txList, s.reTxSeq)
           t == s.txList[i]
           polled == [t.frame EXCEPT !.pBit = TRUE]
           result == RetransResult(s, ok)
           r == RetransEnhanceFrame(s, ok)
<1>a. s \in Channel
  BY DEF Good
<1>0. result \in {"find_frame_err", "reach_max_re_tx_cnt", "success", "send_err"}
  BY DEF RetransResult
<1>1. CASE result = "find_frame_err"
  <2>1. r = s BY <1>1 DEF RetransEnhanceFrame
  <2> QED BY <2>1, <1>a, SendsSame DEF SameRx
<1>2. CASE result = "reach_max_re_tx_cnt"
  <2>1. r = [s EXCEPT !.isDestroyMsgSent = TRUE] BY <1>2 DEF RetransEnhanceFrame
  <2> HIDE DEF r
  <2>2. /\ SameRx(s, r) /\ r.nextTxSeq = s.nextTxSeq
        /\ r.expectedAckSeq = s.expectedAckSeq
        /\ r.txList = s.txList /\ r.sent = s.sent /\ r.out = s.out
    BY <2>1, <1>a DEF Channel, SameRx
  <2>3. Sends(s, r) BY <2>2, <1>a, SendsSame
  <2> QED BY <2>3 DEF r
<1>3. ASSUME result \in {"success", "send_err"}
      PROVE  i \in 1 .. Len(s.txList)
  <2>1. HasTxSeq(s.txList, s.reTxSeq)
    BY <1>3 DEF RetransResult
  <2>2. i \in DOMAIN s.txList
    BY <2>1 DEF HasTxSeq, TxIndex
  <2>3. DOMAIN s.txList = 1 .. Len(s.txList)
    BY LenProperties DEF Good, Channel
  <2> QED BY <2>2, <2>3
<1>4. ASSUME result \in {"success", "send_err"}
      PROVE  Sends(s, r)
  <2>1. PICK n \in 1 .. Len(s.txList) : n = i
    BY <1>3, <1>4
  <2>2. s.txList[n] \in TxFrame /\ s.txList[n].frame \in DataFrame
    BY TxListElement
  <2>3. PICK p \in DataFrame : /\ p = [s.txList[n].frame EXCEPT !.pBit = TRUE]
                               /\ SameFrame(p, s.txList[n].frame) /\ IsData(p)
    BY <2>2, PolledSame
  <2>4. CASE result = "send_err"
    <3>1. PICK g \in TxFrame : g = [s.txList[n] EXCEPT !.frame = p] /\ g.frame = p
      <4>1. ASSUME NEW t0 \in TxFrame
            PROVE  [t0 EXCEPT !.frame = p] \in TxFrame /\ [t0 EXCEPT !.frame = p].frame = p
        BY DEF TxFrame
      <4> QED BY <2>2, <4>1, Zenon
    <3>2. r = [s EXCEPT !.txList[n].frame = p]
      BY <2>1, <2>3, <2>4 DEF RetransEnhanceFrame
    <3>3. PICK list \in Seq(TxFrame) :
           /\ list = [s.txList EXCEPT ![n] = g] /\ Len(list) = Len(s.txList)
           /\ list[n] = g
           /\ \A j \in 1 .. Len(s.txList) : SameFrame(list[j].frame, s.txList[j].frame)
      <4>1. SameFrame(g.frame, s.txList[n].frame) BY <2>3, <3>1
      <4> QED BY <4>1, SetSameFrame
    <3> HIDE DEF r
    <3>4. r = [s EXCEPT !.txList = list]
      BY <3>1, <3>2, <3>3, <1>a DEF Channel
    <3>5. /\ SameRx(s, r) /\ r.nextTxSeq = s.nextTxSeq
          /\ r.expectedAckSeq = s.expectedAckSeq
          /\ r.txList = list /\ r.sent = s.sent /\ r.out = s.out
      BY <3>4, <1>a DEF Channel, SameRx
    <3>6. /\ Len(r.txList) = Len(s.txList)
          /\ \A j \in 1 .. Len(s.txList) : SameFrame(r.txList[j].frame, s.txList[j].frame)
          /\ p \in AckFrame \cup DataFrame
      BY <3>3, <3>5
    <3> HIDE DEF result, polled, t, i
    <3> QED BY <3>5, <3>6, SendsAgain
  <2>5. CASE result = "success"
    <3>1. ~(t.reTxCnt >= MaxTxThreshold)
      BY <2>5 DEF RetransResult
    <3>2. s.txList[n].reTxCnt + 1 \in 0 .. MaxTxThreshold
      BY <2>1, <3>1, TxListElement, ReliableAssumption
    <3>3. PICK g \in TxFrame : g = [frame |-> p, reTxCnt |-> s.txList[n].reTxCnt + 1]
                               /\ g.frame = p
      <4>1. ASSUME NEW c \in 0 .. MaxTxThreshold
            PROVE  /\ [frame |-> p, reTxCnt |-> c] \in TxFrame
                   /\ [frame |-> p, reTxCnt |-> c].frame = p
        BY DEF TxFrame
      <4> QED BY <3>2, <4>1, Zenon
    <3>4. PICK out \in Seq(AckFrame \cup DataFrame) : out = Append(s.out, p)
      BY <1>a, AppendProperties DEF Channel
    <3>5. r = [s EXCEPT !.txList[n] = g, !.out = out, !.retransTimer = TRUE]
      BY <2>1, <2>3, <2>5, <3>3, <3>4 DEF RetransEnhanceFrame
    <3>6. PICK list \in Seq(TxFrame) :
           /\ list = [s.txList EXCEPT ![n] = g] /\ Len(list) = Len(s.txList)
           /\ list[n] = g
           /\ \A j \in 1 .. Len(s.txList) : SameFrame(list[j].frame, s.txList[j].frame)
      <4>1. SameFrame(g.frame, s.txList[n].frame) BY <2>3, <3>3
      <4> QED BY <4>1, SetSameFrame
    <3> HIDE DEF r
    <3>7. r = [s EXCEPT !.txList = list, !.out = out, !.retransTimer = TRUE]
      BY <3>5, <3>6, <1>a DEF Channel
    <3>8. /\ SameRx(s, r) /\ r.nextTxSeq = s.nextTxSeq
          /\ r.expectedAckSeq = s.expectedAckSeq
          /\ r.txList = list /\ r.sent = s.sent /\ r.out = out
      BY <3>7, <1>a DEF Channel, SameRx
    <3>9. n \in 1 .. Len(r.txList) /\ SameFrame(p, r.txList[n].frame)
      BY <3>3, <3>6, <3>8 DEF SameFrame
    <3>10. /\ Len(r.txList) = Len(s.txList)
           /\ \A j \in 1 .. Len(s.txList) : SameFrame(r.txList[j].frame, s.txList[j].frame)
           /\ r.out = Append(s.out, p) /\ p \in AckFrame \cup DataFrame
      BY <3>4, <3>6, <3>8
    <3>11. \/ r.out = s.out
           \/ /\ r.out = Append(s.out, p)
              /\ \/ /\ IsData(p)
                    /\ \E j \in 1 .. Len(r.txList) : SameFrame(p, r.txList[j].frame)
                 \/ /\ ~IsData(p)
                    /\ p.reqSeq \in {s.expectedTxSeq, s.bufferSeq}
      BY <2>3, <3>9, <3>10
    <3> HIDE DEF result, polled, t, i
    <3> QED BY <3>8, <3>10, <3>11, SendsAgain
  <2> QED BY <1>4, <2>4, <2>5
<1> QED BY <1>0, <1>1, <1>2, <1>4

\* The elements of a concatenation.
LEMMA ConcatElements ==
  ASSUME NEW S, NEW q \in Seq(S), NEW more \in Seq(S)
  PROVE  /\ Len(q \o more) = Len(q) + Len(more)
         /\ \A i \in 1 .. Len(q) : (q \o more)[i] = q[i]
         /\ \A i \in 1 .. Len(more) : (q \o more)[Len(q) + i] = more[i]
         /\ q \o more \in Seq(S)
<1>a. PICK list : list = q \o more
  OBVIOUS
<1>b. PICK t \in Nat, c \in Nat : t = Len(q) /\ c = Len(more)
  BY LenProperties
<1>1. /\ Len(list) = t + c
      /\ \A i \in 1 .. t + c : list[i] = IF i <= t THEN q[i] ELSE more[i - t]
      /\ list \in Seq(S)
  <2>1. /\ Len(q \o more) = Len(q) + Len(more)
        /\ \A i \in 1 .. Len(q) + Len(more) :
             (q \o more)[i] = IF i <= Len(q) THEN q[i] ELSE more[i - Len(q)]
        /\ q \o more \in Seq(S)
    BY ConcatProperties
  <2> QED BY <1>a, <1>b, <2>1
<1>2. \A i \in 1 .. t : i \in 1 .. t + c /\ i <= t
  OBVIOUS
<1>3. \A i \in 1 .. c : t + i \in 1 .. t + c /\ ~(t + i <= t) /\ (t + i) - t = i
  OBVIOUS
<1>4. \A i \in 1 .. t : list[i] = q[i]
  BY <1>1, <1>2
<1>5. \A i \in 1 .. c : list[t + i] = more[i]
  BY <1>1, <1>3
<1> QED BY <1>a, <1>b, <1>1, <1>4, <1>5

\* New frames, appended to the history, the window and the output, are a step of sending.
LEMMA SendsNew ==
  ASSUME NEW s, Good(s), NEW r, SameRx(s, r), NEW c \in Nat,
         /\ Len(r.txList) = Len(s.txList) + c
         /\ \A i \in 1 .. Len(s.txList) : r.txList[i] = s.txList[i],
         /\ Len(r.sent) = Len(s.sent) + c
         /\ \A i \in 1 .. Len(s.sent) : r.sent[i] = s.sent[i],
         /\ Len(r.out) = Len(s.out) + c
         /\ \A i \in 1 .. Len(s.out) : r.out[i] = s.out[i],
         \A i \in 1 .. c :
           /\ r.txList[Len(s.txList) + i].frame = r.out[Len(s.out) + i]
           /\ r.sent[Len(s.sent) + i] = r.out[Len(s.out) + i].pdu
           /\ IsData(r.out[Len(s.out) + i])
           /\ r.out[Len(s.out) + i].reqSeq \in {SEQ_INIT, s.expectedTxSeq},
         r.nextTxSeq = SeqAdd(s.nextTxSeq, c), r.expectedAckSeq = s.expectedAckSeq
  PROVE  Sends(s, r)
<1>2. PICK n \in Nat, t \in Nat, o \in Nat :
        n = Len(s.sent) /\ t = Len(s.txList) /\ o = Len(s.out)
  BY Lengths DEF Good
<1>3. /\ Len(r.txList) = t + c
      /\ \A i \in 1 .. t : r.txList[i] = s.txList[i]
  BY <1>2
<1>4. /\ Len(r.sent) = n + c
      /\ \A i \in 1 .. n : r.sent[i] = s.sent[i]
  BY <1>2
<1>5. /\ Len(r.out) = o + c
      /\ \A i \in 1 .. o : r.out[i] = s.out[i]
  BY <1>2
<1>9. \A i \in 1 .. c :
           /\ r.txList[t + i].frame = r.out[o + i] /\ r.sent[n + i] = r.out[o + i].pdu
           /\ IsData(r.out[o + i])
           /\ r.out[o + i].reqSeq \in {SEQ_INIT, s.expectedTxSeq}
  BY <1>2
<1>6. Grows(s, r)
  <2>1. n <= n + c /\ (t + c) - t = (n + c) - n /\ (n + c) - n = c
    OBVIOUS
  <2> QED BY <2>1, <1>2, <1>3, <1>4 DEF Grows
<1>7. Extends(s, r)
  <2>1. ASSUME NEW i \in 1 .. t
        PROVE  SameFrame(r.txList[i].frame, s.txList[i].frame)
    BY <1>3 DEF SameFrame
  <2>2. ASSUME NEW i \in 1 .. t + c, i > t
        PROVE  /\ r.txList[i].frame.pdu = r.sent[(n + c) - (t + c) + i]
               /\ r.txList[i].frame.reqSeq \in {SEQ_INIT, s.expectedTxSeq}
    <3>1. PICK k \in 1 .. c : k = i - t
      BY <2>2
    <3>2. i = t + k
      BY <3>1
    <3>4. (n + c) - (t + c) + (t + k) = n + k
      OBVIOUS
    <3>3. /\ r.txList[i].frame.pdu = r.sent[n + k]
          /\ r.txList[i].frame.reqSeq \in {SEQ_INIT, s.expectedTxSeq}
      BY <3>2, <1>9
    <3> QED BY <3>2, <3>3, <3>4
  <2> QED BY <2>1, <2>2, <1>2, <1>3, <1>4 DEF Extends
<1>8. Emits(s, r)
  <2>1. \A j \in 1 .. o : r.out[j] = s.out[j]
    BY <1>5
  <2>2. ASSUME NEW j \in 1 .. o + c, j > o
        PROVE  /\ IsData(r.out[j])
               /\ \E i \in 1 .. t + c : SameFrame(r.out[j], r.txList[i].frame)
    <3>1. PICK k \in 1 .. c : k = j - o
      BY <2>2
    <3>2. t + k \in 1 .. t + c /\ j = o + k
      BY <3>1
    <3>4. IsData(r.out[j]) /\ SameFrame(r.out[j], r.txList[t + k].frame)
      BY <3>2, <1>9 DEF SameFrame
    <3> QED BY <3>2, <3>4
  <2>3. o <= o + c
    OBVIOUS
  <2> QED BY <2>1, <2>2, <2>3, <1>2, <1>3, <1>5 DEF Emits
<1> QED BY <1>6, <1>7, <1>8 DEF Sends

\* The acknowledgement field of the frames DTAP_PackEnhanceFrames makes.
LEMMA PackFields ==
  ASSUME NEW s, Good(s), NEW m \in Msg, NEW i \in 1 .. FrameCnt[m][s.isRecvFrame]
  PROVE  /\ PackEnhanceFrames(s, m)[i].reqSeq \in {SEQ_INIT, s.expectedTxSeq}
         /\ IsData(PackEnhanceFrames(s, m)[i])
BY DEF PackEnhanceFrames, IsData

\* Moving reTxSeq sends nothing.
LEMMA SetReTxSeqSends ==
  ASSUME NEW s, Good(s), NEW q \in SeqNum
  PROVE  Sends(s, [s EXCEPT !.reTxSeq = q])
<1> DEFINE r == [s EXCEPT !.reTxSeq = q]
<1>1. s \in Channel
  BY DEF Good
<1>2. /\ SameRx(s, r) /\ r.nextTxSeq = s.nextTxSeq
      /\ r.expectedAckSeq = s.expectedAckSeq
      /\ r.txList = s.txList /\ r.sent = s.sent /\ r.out = s.out
  BY <1>1 DEF Channel, SameRx
<1> HIDE DEF r
<1>3. Sends(s, r) BY <1>1, <1>2, SendsSame
<1> QED BY <1>3 DEF r

\* The retransmission before new frames.
LEMMA RetransBeforeSendSends ==
  ASSUME NEW s, Good(s), NEW ok \in BOOLEAN
  PROVE  Sends(s, RetransBeforeSend(s, ok))
<1>1. CASE IsFrameSeqSmaller(s.reTxSeq, s.nextTxSeq)
  <2> DEFINE t == RetransEnhanceFrame(s, ok)
             r == [t EXCEPT !.reTxSeq = s.nextTxSeq]
  <2>1. Good(t) /\ Sends(s, t)
    BY RetransGood, RetransSends
  <2>2. s.nextTxSeq \in SeqNum
    BY DEF Good, Channel
  <2>3. RetransBeforeSend(s, ok) = r
    BY <1>1 DEF RetransBeforeSend
  <2> HIDE DEF t
  <2>4. Good(r) /\ Sends(t, r)
    BY <2>1, <2>2, SetReTxSeqGood, SetReTxSeqSends
  <2> HIDE DEF r
  <2> QED BY <2>1, <2>3, <2>4, SendsTrans
<1>2. CASE ~IsFrameSeqSmaller(s.reTxSeq, s.nextTxSeq)
  <2>1. RetransBeforeSend(s, ok) = s
    BY <1>2 DEF RetransBeforeSend
  <2> QED BY <2>1, SendsSame DEF Good, SameRx
<1> QED BY <1>1, <1>2

\* DTAP_SendEnhanceFrameInner.
LEMMA SendInnerSends ==
  ASSUME NEW s, Good(s), NEW m \in Msg, NEW ok \in BOOLEAN,
         Len(s.txList) + FrameCnt[m][s.isRecvFrame] <= WinSize
  PROVE  Sends(s, SendEnhanceFrameInner(s, m, ok))
<1> DEFINE frames == PackEnhanceFrames(s, m)
           cnt == FrameCnt[m][s.isRecvFrame]
           s1 == RetransBeforeSend(s, ok)
           r == SendEnhanceFrameInner(s, m, ok)
<1>1. CASE SendGivesUp(s, ok)
  BY <1>1, RetransSends DEF SendEnhanceFrameInner
<1>2. CASE ~SendGivesUp(s, ok)
  <2>1. /\ cnt \in Nat \ {0} /\ frames \in [1 .. cnt -> DataFrame]
    BY PackGood
  <2>2. /\ Good(s1) /\ Sends(s, s1) /\ s1.expectedTxSeq = s.expectedTxSeq
    BY RetransBeforeSendGood, RetransBeforeSendSends DEF Sends, SameRx
  <2>3. r = [s1 EXCEPT
                !.sendPollingCounter = PollingAt(@, cnt),
                !.out = @ \o frames,
                !.reTxSeq = SeqAdd(@, cnt),
                !.nextTxSeq = SeqAdd(@, cnt),
                !.txList = @ \o [i \in 1 .. cnt |-> [frame |-> frames[i], reTxCnt |-> 0]],
                !.retransTimer = TRUE,
                !.sent = @ \o [i \in 1 .. cnt |-> frames[i].pdu]]
    BY <1>2 DEF SendEnhanceFrameInner
  <2>4. \A i \in 1 .. cnt : IsData(frames[i]) /\ frames[i].reqSeq \in {SEQ_INIT, s.expectedTxSeq}
    BY PackFields
  <2>20. Good(r)
    BY SendInnerGood
  <2> HIDE DEF frames, cnt, s1, r
  <2>5. PICK more \in Seq(TxFrame) :
          /\ more = [i \in 1 .. cnt |-> [frame |-> frames[i], reTxCnt |-> 0]]
          /\ Len(more) = cnt
          /\ \A i \in 1 .. cnt : more[i].frame = frames[i]
    <3> DEFINE f == [i \in 1 .. cnt |-> [frame |-> frames[i], reTxCnt |-> 0]]
    <3>1. f \in [1 .. cnt -> TxFrame]
      BY <2>1, ReliableAssumption DEF TxFrame
    <3>2. \A i \in 1 .. cnt : f[i].frame = frames[i]
      OBVIOUS
    <3> HIDE DEF f
    <3>3. f \in Seq(TxFrame) /\ Len(f) = cnt
      BY <2>1, <3>1, FunctionIsSeq
    <3> QED BY <3>2, <3>3 DEF f
  <2>6. PICK put \in Seq(Pdu) :
          /\ put = [i \in 1 .. cnt |-> frames[i].pdu]
          /\ Len(put) = cnt
          /\ \A i \in 1 .. cnt : put[i] = frames[i].pdu
    <3> DEFINE f == [i \in 1 .. cnt |-> frames[i].pdu]
    <3>1. f \in [1 .. cnt -> Pdu]
      BY <2>1 DEF DataFrame
    <3>2. \A i \in 1 .. cnt : f[i] = frames[i].pdu
      OBVIOUS
    <3> HIDE DEF f
    <3>3. f \in Seq(Pdu) /\ Len(f) = cnt
      BY <2>1, <3>1, FunctionIsSeq
    <3> QED BY <3>2, <3>3 DEF f
  <2>7. frames \in Seq(AckFrame \cup DataFrame) /\ Len(frames) = cnt
    <3>1. frames \in [1 .. cnt -> AckFrame \cup DataFrame]
      BY <2>1
    <3> QED BY <2>1, <3>1, FunctionIsSeq
  <2>8. PICK list \in Seq(TxFrame) :
          /\ list = s1.txList \o more
          /\ Len(list) = Len(s1.txList) + cnt
          /\ \A i \in 1 .. Len(s1.txList) : list[i] = s1.txList[i]
          /\ \A i \in 1 .. cnt : list[Len(s1.txList) + i] = more[i]
    <3>1. PICK q \in Seq(TxFrame) : q = s1.txList
      BY <2>2 DEF Good, Channel
    <3>2. /\ Len(q \o more) = Len(q) + Len(more)
          /\ \A i \in 1 .. Len(q) : (q \o more)[i] = q[i]
          /\ \A i \in 1 .. Len(more) : (q \o more)[Len(q) + i] = more[i]
          /\ q \o more \in Seq(TxFrame)
      BY <2>7, ConcatElements
    <3>3. /\ Len(s1.txList \o more) = Len(s1.txList) + cnt
          /\ \A i \in 1 .. Len(s1.txList) : (s1.txList \o more)[i] = s1.txList[i]
          /\ \A i \in 1 .. cnt : (s1.txList \o more)[Len(s1.txList) + i] = more[i]
          /\ s1.txList \o more \in Seq(TxFrame)
      BY <3>1, <3>2, <2>5
    <3> QED BY <3>3, Zenon
  <2>9. PICK out \in Seq(AckFrame \cup DataFrame) :
          /\ out = s1.out \o frames
          /\ Len(out) = Len(s1.out) + cnt
          /\ \A i \in 1 .. Len(s1.out) : out[i] = s1.out[i]
          /\ \A i \in 1 .. cnt : out[Len(s1.out) + i] = frames[i]
    <3>1. PICK q \in Seq(AckFrame \cup DataFrame) : q = s1.out
      BY <2>2 DEF Good, Channel
    <3>2. /\ Len(q \o frames) = Len(q) + Len(frames)
          /\ \A i \in 1 .. Len(q) : (q \o frames)[i] = q[i]
          /\ \A i \in 1 .. Len(frames) : (q \o frames)[Len(q) + i] = frames[i]
          /\ q \o frames \in Seq(AckFrame \cup DataFrame)
      BY <2>7, ConcatElements
    <3> QED BY <3>1, <3>2, <2>7
  <2>10. PICK sent \in Seq(Pdu) :
           /\ sent = s1.sent \o put
           /\ Len(sent) = Len(s1.sent) + cnt
           /\ \A i \in 1 .. Len(s1.sent) : sent[i] = s1.sent[i]
           /\ \A i \in 1 .. cnt : sent[Len(s1.sent) + i] = put[i]
    <3>1. PICK q \in Seq(Pdu) : q = s1.sent
      BY <2>2 DEF Good, Channel
    <3>2. /\ Len(q \o put) = Len(q) + Len(put)
          /\ \A i \in 1 .. Len(q) : (q \o put)[i] = q[i]
          /\ \A i \in 1 .. Len(put) : (q \o put)[Len(q) + i] = put[i]
          /\ q \o put \in Seq(Pdu)
      BY <2>7, ConcatElements
    <3>3. /\ Len(s1.sent \o put) = Len(s1.sent) + cnt
          /\ \A i \in 1 .. Len(s1.sent) : (s1.sent \o put)[i] = s1.sent[i]
          /\ \A i \in 1 .. cnt : (s1.sent \o put)[Len(s1.sent) + i] = put[i]
          /\ s1.sent \o put \in Seq(Pdu)
      BY <3>1, <3>2, <2>6
    <3> QED BY <3>3, Zenon
  <2>12. r = [s1 EXCEPT
                !.sendPollingCounter = PollingAt(s1.sendPollingCounter, cnt),
                !.out = out,
                !.reTxSeq = SeqAdd(s1.reTxSeq, cnt),
                !.nextTxSeq = SeqAdd(s1.nextTxSeq, cnt),
                !.txList = list,
                !.retransTimer = TRUE,
                !.sent = sent]
    BY <2>2, <2>3, <2>5, <2>6, <2>8, <2>9, <2>10 DEF Good, Channel
  <2>13. /\ SameRx(s1, r) /\ r.txList = list /\ r.out = out /\ r.sent = sent
         /\ r.nextTxSeq = SeqAdd(s1.nextTxSeq, cnt)
         /\ r.expectedAckSeq = s1.expectedAckSeq
    BY <2>2, <2>12 DEF Good, Channel, SameRx
  <2>14. \A i \in 1 .. cnt : /\ more[i].frame = frames[i] /\ put[i] = frames[i].pdu
                             /\ IsData(frames[i])
                             /\ frames[i].reqSeq \in {SEQ_INIT, s1.expectedTxSeq}
    BY <2>2, <2>4, <2>5, <2>6
  <2>15. Sends(s1, r)
    <3>1. /\ Len(r.txList) = Len(s1.txList) + cnt
          /\ \A i \in 1 .. Len(s1.txList) : r.txList[i] = s1.txList[i]
          /\ \A i \in 1 .. cnt : r.txList[Len(s1.txList) + i] = more[i]
      BY <2>8, <2>13
    <3>2. /\ Len(r.sent) = Len(s1.sent) + cnt
          /\ \A i \in 1 .. Len(s1.sent) : r.sent[i] = s1.sent[i]
          /\ \A i \in 1 .. cnt : r.sent[Len(s1.sent) + i] = put[i]
      BY <2>10, <2>13
    <3>3. /\ Len(r.out) = Len(s1.out) + cnt
          /\ \A i \in 1 .. Len(s1.out) : r.out[i] = s1.out[i]
          /\ \A i \in 1 .. cnt : r.out[Len(s1.out) + i] = frames[i]
      BY <2>9, <2>13
    <3>4. cnt \in Nat
      BY <2>1
    <3>5. \A i \in 1 .. cnt :
           /\ r.txList[Len(s1.txList) + i].frame = r.out[Len(s1.out) + i]
           /\ r.sent[Len(s1.sent) + i] = r.out[Len(s1.out) + i].pdu
           /\ IsData(r.out[Len(s1.out) + i])
           /\ r.out[Len(s1.out) + i].reqSeq \in {SEQ_INIT, s1.expectedTxSeq}
      BY <2>14, <3>1, <3>2, <3>3
    <3> QED BY <2>2, <2>13, <3>1, <3>2, <3>3, <3>4, <3>5, SendsNew
  <2>16. Sends(s, r)
    BY <2>2, <2>15, <2>20, SendsTrans
  <2> QED BY <2>16 DEF r
<1> QED BY <1>1, <1>2

\* DTAP_SendEnhanceFrame.
LEMMA SendEnhanceFrameSends ==
  ASSUME NEW s, Good(s), NEW m \in Msg, NEW ok \in BOOLEAN
  PROVE  Sends(s, SendEnhanceFrame(s, m, ok))
<1> DEFINE need == Len(s.txList) + FrameCnt[m][s.isRecvFrame]
<1>0. s \in Channel
  BY DEF Good
<1>1. CASE need > WinSize
  <2> DEFINE r == SendEnhanceFrame(s, m, ok)
  <2>1. r = [s EXCEPT !.cacheBuff = IF s.cacheBuff = NoMsg THEN m ELSE s.cacheBuff,
                      !.isTxWindowFull = TRUE]
    BY <1>1 DEF SendEnhanceFrame
  <2> HIDE DEF r
  <2>2. /\ SameRx(s, r) /\ r.nextTxSeq = s.nextTxSeq
        /\ r.expectedAckSeq = s.expectedAckSeq
        /\ r.txList = s.txList /\ r.sent = s.sent /\ r.out = s.out
    BY <2>1, <1>0 DEF Channel, SameRx
  <2>3. Sends(s, r) BY <2>2, <1>0, SendsSame
  <2> QED BY <2>3 DEF r
<1>2. CASE ~(need > WinSize)
  <2>1. PICK full \in BOOLEAN : full = (s.isTxWindowFull \/ need = WinSize)
    OBVIOUS
  <2> DEFINE t == [s EXCEPT !.isTxWindowFull = full]
  <2>2. /\ t \in Channel /\ t.txList = s.txList /\ t.nextTxSeq = s.nextTxSeq
        /\ t.expectedAckSeq = s.expectedAckSeq /\ t.retransTimer = s.retransTimer
        /\ t.isRecvFrame = s.isRecvFrame /\ t.sent = s.sent /\ t.out = s.out
    BY <1>0 DEF Channel
  <2>7. SameRx(s, t)
    BY <1>0 DEF Channel, SameRx
  <2>3. SendEnhanceFrame(s, m, ok) = SendEnhanceFrameInner(t, m, ok)
    BY <1>2, <2>1 DEF SendEnhanceFrame
  <2>4. need \in Nat /\ need <= WinSize
    <3>1. Len(s.txList) \in Nat
      BY <1>0, Lengths
    <3>2. FrameCnt[m][s.isRecvFrame] \in Nat
      BY PackGood
    <3> QED BY <1>2, <3>1, <3>2, WindowFacts
  <2> HIDE DEF t
  <2>5. Good(t) BY <2>2, SameWindowFields
  <2>6. Len(t.txList) + FrameCnt[m][t.isRecvFrame] <= WinSize
    BY <2>2, <2>4
  <2>8. Sends(s, t)
    BY <1>0, <2>2, <2>7, SendsSame
  <2>9. Good(SendEnhanceFrameInner(t, m, ok)) /\ Sends(t, SendEnhanceFrameInner(t, m, ok))
    BY <2>5, <2>6, SendInnerGood, SendInnerSends
  <2> QED BY <2>3, <2>5, <2>8, <2>9, SendsTrans
<1> QED BY <1>1, <1>2

\* DTAP_TransSendCacheBuff with a cached message.
LEMMA TransSendCacheBuffSends ==
  ASSUME NEW s, Good(s), NEW ok \in BOOLEAN, s.cacheBuff # NoMsg
  PROVE  Sends(s, TransSendCacheBuff(s, ok))
<1>0. s \in Channel
  BY DEF Good
<1>1. CASE Len(s.txList) + FrameCnt[s.cacheBuff][s.isRecvFrame] >= WinSize
  <2>1. TransSendCacheBuff(s, ok) = s
    BY <1>1 DEF TransSendCacheBuff
  <2> QED BY <2>1, <1>0, SendsSame DEF SameRx
<1>2. CASE ~(Len(s.txList) + FrameCnt[s.cacheBuff][s.isRecvFrame] >= WinSize)
  <2> DEFINE t == [s EXCEPT !.isTxWindowFull = FALSE]
             u == SendEnhanceFrame(t, s.cacheBuff, ok)
             r == TransSendCacheBuff(s, ok)
  <2>1. s.cacheBuff \in Msg
    BY <1>0 DEF Channel
  <2>2. /\ t \in Channel /\ t.txList = s.txList /\ t.nextTxSeq = s.nextTxSeq
        /\ t.expectedAckSeq = s.expectedAckSeq /\ t.retransTimer = s.retransTimer
        /\ t.sent = s.sent /\ t.out = s.out
    BY <1>0 DEF Channel
  <2>8. SameRx(s, t)
    BY <1>0 DEF Channel, SameRx
  <2>3. r = [u EXCEPT !.cacheBuff = NoMsg, !.transBusy = FALSE]
    BY <1>2 DEF TransSendCacheBuff
  <2> HIDE DEF t
  <2>4. Good(t) /\ Sends(s, t) BY <1>0, <2>2, <2>8, SameWindowFields, SendsSame
  <2>5. Good(u) /\ Sends(t, u) BY <2>1, <2>4, SendEnhanceFrameGood, SendEnhanceFrameSends
  <2> HIDE DEF u, r
  <2>6. /\ r \in Channel /\ r.txList = u.txList /\ r.nextTxSeq = u.nextTxSeq
        /\ r.expectedAckSeq = u.expectedAckSeq /\ r.retransTimer = u.retransTimer
        /\ r.sent = u.sent /\ r.out = u.out /\ SameRx(u, r)
    BY <2>3, <2>5 DEF Good, Channel, SameRx
  <2>9. u \in Channel
    BY <2>5 DEF Good
  <2>7. Good(r) /\ Sends(u, r) BY <2>5, <2>6, <2>9, SameWindowFields, SendsSame
  <2>10. Sends(s, u)
    BY <2>4, <2>5, SendsTrans
  <2>11. Sends(s, r)
    BY <2>5, <2>7, <2>10, SendsTrans
  <2> QED BY <2>11 DEF r
<1> QED BY <1>1, <1>2

\* DTAP_TransChannelStatusChange.
LEMMA StatusChangeSends ==
  ASSUME NEW s, Good(s), NEW ok \in BOOLEAN
  PROVE  Sends(s, TransChannelStatusChange(s, ok))
<1> DEFINE r == [s EXCEPT !.isTxWindowFull = FALSE, !.transBusy = FALSE]
<1>0. s \in Channel
  BY DEF Good
<1>1. /\ SameRx(s, r) /\ r.nextTxSeq = s.nextTxSeq
      /\ r.expectedAckSeq = s.expectedAckSeq
      /\ r.txList = s.txList /\ r.sent = s.sent /\ r.out = s.out
  BY <1>0 DEF Channel, SameRx
<1>2. TransChannelStatusChange(s, ok) = s \/ TransChannelStatusChange(s, ok) = r
      \/ (s.cacheBuff # NoMsg /\ TransChannelStatusChange(s, ok) = TransSendCacheBuff(s, ok))
  BY DEF TransChannelStatusChange
<1> HIDE DEF r
<1>3. Sends(s, r) BY <1>0, <1>1, SendsSame
<1>4. Sends(s, s) BY <1>0, SendsSame DEF SameRx
<1> QED BY <1>2, <1>3, <1>4, TransSendCacheBuffSends

\* DTAP_SendAckFrame.
LEMMA SendAckFrameSends ==
  ASSUME NEW s, Good(s), NEW sBit \in BOOLEAN, NEW ok \in BOOLEAN
  PROVE  Sends(s, SendAckFrame(s, sBit, ok))
<1> DEFINE f == [type |-> "ack", sBit |-> sBit,
                 reqSeq |-> IF sBit THEN s.expectedTxSeq ELSE s.bufferSeq]
           r == SendAckFrame(s, sBit, ok)
<1>0. s \in Channel
  BY DEF Good
<1>1. f \in AckFrame \cup DataFrame
  BY <1>0 DEF Channel, AckFrame
<1>2. ~IsData(f) /\ f.reqSeq \in {s.expectedTxSeq, s.bufferSeq}
  BY DEF IsData
<1>3. CASE ~ok
  <2>1. r = s
    BY <1>3 DEF SendAckFrame, SendFrame
  <2> QED BY <2>1, <1>0, SendsSame DEF SameRx
<1>4. CASE ok
  <2> HIDE DEF f
  <2>1. r = [s EXCEPT !.out = Append(s.out, f)]
    BY <1>4 DEF SendAckFrame, SendFrame, f
  <2> HIDE DEF r
  <2>2. /\ SameRx(s, r) /\ r.nextTxSeq = s.nextTxSeq
        /\ r.expectedAckSeq = s.expectedAckSeq
        /\ r.txList = s.txList /\ r.sent = s.sent /\ r.out = Append(s.out, f)
    BY <2>1, <1>0 DEF Channel, SameRx
  <2>3. /\ Len(r.txList) = Len(s.txList)
        /\ \A j \in 1 .. Len(s.txList) : SameFrame(r.txList[j].frame, s.txList[j].frame)
    BY <2>2 DEF SameFrame
  <2>4. Sends(s, r)
    BY <1>1, <1>2, <2>2, <2>3, SendsAgain
  <2> QED BY <2>4 DEF r
<1> QED BY <1>3, <1>4

-----------------------------------------------------------------------------
(***************************************************************************)
(* Acknowledgements.                                                       *)
(***************************************************************************)
\* The first d frames of the window of s are gone and nothing else that the proofs follow.
Slides(s, r, d) ==
    /\ SameRx(s, r)
    /\ r.nextTxSeq = s.nextTxSeq /\ r.sent = s.sent /\ r.out = s.out
    /\ r.cacheBuff = s.cacheBuff /\ r.isTxWindowFull = s.isTxWindowFull
    /\ d <= Len(s.txList) /\ Len(r.txList) = Len(s.txList) - d
    /\ \A i \in 1 .. Len(s.txList) - d : r.txList[i] = s.txList[d + i]

\* DTAP_SlideTxWindow frees frames only for a reqSeq that points into the window.
LEMMA SlideTxWindowSlides ==
  ASSUME NEW s, Good(s), NEW reqSeq \in SeqNum \cup {SEQ_INIT}
  PROVE  \/ Slides(s, SlideTxWindow(s, reqSeq), 0)
         \/ \E d \in 1 .. Len(s.txList) :
              /\ Slides(s, SlideTxWindow(s, reqSeq), d)
              /\ reqSeq = SeqAdd(s.expectedAckSeq, d)
<1> DEFINE moved == [s EXCEPT !.sendPollingCounter = 0,
                       !.reTxSeq = IF IsFrameSeqSmaller(s.reTxSeq, reqSeq) THEN reqSeq ELSE s.reTxSeq]
           r == SlideTxWindow(s, reqSeq)
<1>0. s \in Channel /\ Len(s.txList) \in Nat
  BY Lengths DEF Good
<1>a. ASSUME NEW u, SameRx(s, u), u.nextTxSeq = s.nextTxSeq, u.sent = s.sent, u.out = s.out,
             u.cacheBuff = s.cacheBuff, u.isTxWindowFull = s.isTxWindowFull,
             u.txList = s.txList
      PROVE  Slides(s, u, 0)
  <2>1. /\ 0 <= Len(s.txList) /\ Len(s.txList) - 0 = Len(s.txList)
        /\ \A i \in 1 .. Len(s.txList) : 0 + i = i
    BY <1>0
  <2> QED BY <1>a, <2>1 DEF Slides
<1>1. CASE reqSeq = SEQ_INIT
  <2>1. r = s
    BY <1>1 DEF SlideTxWindow
  <2> QED BY <2>1, <1>a DEF SameRx
<1>2. CASE reqSeq # SEQ_INIT /\ s.txList = << >>
  <2>1. r = [s EXCEPT !.sendPollingCounter = 0]
    BY <1>2 DEF SlideTxWindow
  <2> HIDE DEF r
  <2>2. /\ SameRx(s, r) /\ r.nextTxSeq = s.nextTxSeq /\ r.sent = s.sent /\ r.out = s.out
        /\ r.cacheBuff = s.cacheBuff /\ r.isTxWindowFull = s.isTxWindowFull
        /\ r.txList = s.txList
    BY <2>1, <1>0 DEF Channel, SameRx
  <2>3. Slides(s, r, 0) BY <2>2, <1>a
  <2> QED BY <2>3 DEF r
<1>3. CASE reqSeq # SEQ_INIT /\ s.txList # << >>
  <2>1. reqSeq \in SeqNum
    BY <1>3
  <2>2. /\ SameRx(s, moved) /\ moved.nextTxSeq = s.nextTxSeq /\ moved.sent = s.sent
        /\ moved.out = s.out /\ moved.cacheBuff = s.cacheBuff
        /\ moved.isTxWindowFull = s.isTxWindowFull /\ moved.txList = s.txList
    BY <1>0 DEF Channel, SameRx
  <2>8. moved \in Channel
    BY <2>1, <1>0, WindowFacts DEF Channel
  <2>3. CASE ~AckInWindow(s, reqSeq)
    <3>1. r = moved
      BY <1>3, <2>3 DEF SlideTxWindow
    <3> HIDE DEF moved, r
    <3>2. Slides(s, r, 0) BY <3>1, <2>2, <1>a
    <3> QED BY <3>2 DEF r
  <2>4. CASE AckInWindow(s, reqSeq)
    <3> DEFINE a == s.expectedAckSeq
               len == Len(s.txList)
    <3>1. r = [moved EXCEPT !.expectedAckSeq = reqSeq,
                            !.txList = DropAcked(s.txList, reqSeq),
                            !.retransTimer = reqSeq # s.nextTxSeq]
      BY <1>3, <2>4, <2>2 DEF SlideTxWindow, RetransTimerAfterAck
    <3>2. /\ a \in SeqNum /\ s.txList \in Seq(TxFrame) /\ s.nextTxSeq = SeqAdd(a, len)
          /\ len \in 1 .. SignMask - 1
      BY <1>3, EmptySeq, LenProperties, WindowFacts, SeqModFacts DEF Good, Channel, TxWindow
    <3>3. PICK d \in 1 .. len : reqSeq = SeqAdd(a, d)
      BY <2>1, <2>4, <3>2, AckDistance DEF AckInWindow
    <3>4. DropAcked(s.txList, reqSeq) = SubSeq(s.txList, d + 1, len)
      BY <3>3, DropAckedIsSuffix
    <3>5. PICK list \in Seq(TxFrame) :
            /\ list = SubSeq(s.txList, d + 1, len)
            /\ Len(list) = len - d
            /\ \A i \in 1 .. len - d : list[i] = s.txList[d + i]
      <4>1. \A i \in d + 1 .. len : s.txList[i] \in TxFrame
        BY <3>2, <3>3, ElementOfSeq
      <4>2. /\ SubSeq(s.txList, d + 1, len) \in Seq(TxFrame)
            /\ Len(SubSeq(s.txList, d + 1, len)) = IF d + 1 <= len THEN len - (d + 1) + 1 ELSE 0
            /\ \A i \in 1 .. len - (d + 1) + 1 :
                 SubSeq(s.txList, d + 1, len)[i] = s.txList[(d + 1) + i - 1]
        BY <3>2, <3>3, <4>1, SubSeqProperties
      <4> HIDE DEF len
      <4>3. Len(SubSeq(s.txList, d + 1, len)) = len - d
        BY <4>2, <3>2, <3>3
      <4>4. ASSUME NEW i \in 1 .. len - d
            PROVE  SubSeq(s.txList, d + 1, len)[i] = s.txList[d + i]
        <5>1. i \in 1 .. len - (d + 1) + 1 /\ (d + 1) + i - 1 = d + i
          BY <3>2, <3>3
        <5> QED BY <4>2, <5>1
      <4> QED BY <4>2, <4>3, <4>4
    <3> DEFINE timer == reqSeq # s.nextTxSeq
    <3>7. r = [moved EXCEPT !.expectedAckSeq = reqSeq, !.txList = list, !.retransTimer = timer]
      BY <3>1, <3>4, <3>5
    <3> HIDE DEF moved, r, timer
    <3>8. /\ SameRx(moved, r) /\ r.nextTxSeq = moved.nextTxSeq /\ r.sent = moved.sent
          /\ r.out = moved.out /\ r.cacheBuff = moved.cacheBuff
          /\ r.isTxWindowFull = moved.isTxWindowFull /\ r.txList = list
      BY <2>8, <3>7 DEF Channel, SameRx
    <3>9. SameRx(s, r)
      BY <2>2, <3>8 DEF SameRx
    <3>10. d <= len
      BY <1>0
    <3>11. Slides(s, r, d)
      BY <2>2, <3>5, <3>8, <3>9, <3>10 DEF Slides
    <3> QED BY <3>3, <3>11 DEF r
  <2> QED BY <2>3, <2>4
<1> QED BY <1>1, <1>2, <1>3

-----------------------------------------------------------------------------
(***************************************************************************)
(* The handlers, as steps of sending, acknowledging and receiving.         *)
(***************************************************************************)
\* The handler of an acknowledgement: an answer to a NACK, then the acknowledged frames
\* go, then the cached message is sent.
LEMMA AckHandler ==
  ASSUME NEW s, Good(s), NEW f \in AckFrame, NEW ok \in BOOLEAN
  PROVE  \E s1, s2 : \E d \in Nat :
           /\ Good(s1) /\ Sends(s, s1) /\ Len(s1.txList) = Len(s.txList)
           /\ Good(s2) /\ Slides(s1, s2, d)
           /\ d # 0 => d \in 1 .. Len(s1.txList) /\ f.reqSeq = SeqAdd(s1.expectedAckSeq, d)
           /\ Sends(s2, RecvAckFrame(s, f, ok))
<1> DEFINE asked == [s EXCEPT !.reTxSeq = f.reqSeq]
           s1 == IF f.sBit THEN RetransEnhanceFrame(asked, ok) ELSE s
           s2 == SlideTxWindow(s1, f.reqSeq)
<1>1. f.reqSeq \in SeqNum
  BY DEF AckFrame
<1>2. Good(asked) /\ Sends(s, asked)
  BY <1>1, SetReTxSeqGood, SetReTxSeqSends
<1>3. Good(RetransEnhanceFrame(asked, ok)) /\ Sends(asked, RetransEnhanceFrame(asked, ok))
  BY <1>2, RetransGood, RetransSends
<1>4. Sends(s, RetransEnhanceFrame(asked, ok))
  BY <1>2, <1>3, SendsTrans
<1>5. Sends(s, s)
  BY SendsSame DEF Good, SameRx
<1>6. Good(s1) /\ Sends(s, s1) /\ Len(s1.txList) = Len(s.txList)
  <2>1. Len(RetransEnhanceFrame(asked, ok).txList) = Len(s.txList)
    <3>1. Len(asked.txList) = Len(s.txList)
      BY <1>1, SetReTxSeqGood
    <3>2. Len(RetransEnhanceFrame(asked, ok).txList) = Len(asked.txList)
      BY <1>2, RetransGood
    <3> QED BY <3>1, <3>2
  <2> QED BY <1>3, <1>4, <1>5, <2>1
<1>7. \/ RecvAckFrame(s, f, ok) = s1
      \/ RecvAckFrame(s, f, ok) = TransChannelStatusChange(s2, ok)
  BY DEF RecvAckFrame
<1> HIDE DEF s1
<1>8. CASE RecvAckFrame(s, f, ok) = s1
  <2>1. Sends(s1, s1)
    BY <1>6, SendsSame DEF Good, SameRx
  <2>2. Slides(s1, s1, 0)
    <3>1. Len(s1.txList) \in Nat
      BY <1>6, Lengths DEF Good
    <3>2. /\ 0 <= Len(s1.txList) /\ Len(s1.txList) - 0 = Len(s1.txList)
          /\ \A i \in 1 .. Len(s1.txList) : 0 + i = i
      BY <3>1
    <3> QED BY <3>2 DEF Slides, SameRx
  <2> QED BY <1>6, <1>8, <2>1, <2>2
<1>9. CASE RecvAckFrame(s, f, ok) = TransChannelStatusChange(s2, ok)
  <2>1. Good(s2)
    BY <1>1, <1>6, SlideTxWindowGood
  <2>2. \/ Slides(s1, s2, 0)
        \/ \E d \in 1 .. Len(s1.txList) :
             Slides(s1, s2, d) /\ f.reqSeq = SeqAdd(s1.expectedAckSeq, d)
    BY <1>1, <1>6, SlideTxWindowSlides
  <2> HIDE DEF s2
  <2>3. Sends(s2, RecvAckFrame(s, f, ok))
    BY <1>9, <2>1, StatusChangeSends
  <2>4. CASE Slides(s1, s2, 0)
    BY <1>6, <2>1, <2>3, <2>4
  <2>5. ASSUME NEW d \in 1 .. Len(s1.txList),
               Slides(s1, s2, d) /\ f.reqSeq = SeqAdd(s1.expectedAckSeq, d)
        PROVE  \E s3, s4 : \E d3 \in Nat :
                 /\ Good(s3) /\ Sends(s, s3) /\ Len(s3.txList) = Len(s.txList)
                 /\ Good(s4) /\ Slides(s3, s4, d3)
                 /\ d3 # 0 => d3 \in 1 .. Len(s3.txList) /\ f.reqSeq = SeqAdd(s3.expectedAckSeq, d3)
                 /\ Sends(s4, RecvAckFrame(s, f, ok))
    <3>1. d \in Nat
      OBVIOUS
    <3> QED BY <1>6, <2>1, <2>3, <2>5, <3>1
  <2> QED BY <2>2, <2>4, <2>5
<1> QED BY <1>7, <1>8, <1>9

\* The handler of a data frame: the acknowledged frames go, the frame enters the receive
\* window, what follows without a gap is handed over, and then frames are sent.
LEMMA DataHandler ==
  ASSUME NEW s, Good(s), NEW f \in DataFrame, NEW ok \in BOOLEAN,
         NEW k \in HandOvers(RecvIntoWindow(s, f))
  PROVE  \E s1, s2 : \E d \in Nat :
           /\ Good(s1) /\ Slides(s, s1, d)
           /\ d # 0 => d \in 1 .. Len(s.txList) /\ f.reqSeq = SeqAdd(s.expectedAckSeq, d)
           /\ s2 = RecvEnhanceFrameInner(OperateReorderTimer(SlideRxWindow(s1, f.txSeq, f.pdu)), k)
           /\ k \in HandOvers(OperateReorderTimer(SlideRxWindow(s1, f.txSeq, f.pdu)))
           /\ Good(s2)
           /\ Sends(s2, RecvDataFrame(s, f, k, ok))
<1> DEFINE s1 == SlideTxWindow(s, f.reqSeq)
           s2 == RecvEnhanceFrameInner(RecvIntoWindow(s, f), k)
           s3 == IF f.pBit THEN SendAckFrame(s2, FALSE, ok) ELSE s2
<1>1. f.reqSeq \in SeqNum \cup {SEQ_INIT}
  BY DEF DataFrame
<1>2. Good(s1)
  BY <1>1, SlideTxWindowGood
<1>3. \/ Slides(s, s1, 0)
      \/ \E d \in 1 .. Len(s.txList) :
           Slides(s, s1, d) /\ f.reqSeq = SeqAdd(s.expectedAckSeq, d)
  BY <1>1, SlideTxWindowSlides
<1>4. RecvIntoWindow(s, f) = OperateReorderTimer(SlideRxWindow(s1, f.txSeq, f.pdu))
  BY DEF RecvIntoWindow
<1>5. Good(s2)
  BY RecvIntoWindowGood, RecvInnerGood
<1>6. RecvDataFrame(s, f, k, ok) = TransChannelStatusChange(s3, ok)
  BY DEF RecvDataFrame
<1>7. s2 = RecvEnhanceFrameInner(OperateReorderTimer(SlideRxWindow(s1, f.txSeq, f.pdu)), k)
  BY <1>4
<1> HIDE DEF s1, s2
<1>8. Good(s3) /\ Sends(s2, s3)
  <2>1. Good(SendAckFrame(s2, FALSE, ok)) /\ Sends(s2, SendAckFrame(s2, FALSE, ok))
    BY <1>5, SendAckFrameGood, SendAckFrameSends
  <2>2. Sends(s2, s2)
    BY <1>5, SendsSame DEF Good, SameRx
  <2> QED BY <1>5, <2>1, <2>2
<1> HIDE DEF s3
<1>9. Sends(s2, RecvDataFrame(s, f, k, ok))
  <2>1. Good(TransChannelStatusChange(s3, ok)) /\ Sends(s3, TransChannelStatusChange(s3, ok))
    BY <1>8, StatusChangeGood, StatusChangeSends
  <2> QED BY <1>5, <1>6, <1>8, <2>1, SendsTrans
<1>10. PICK d \in Nat : /\ Slides(s, s1, d)
                        /\ d # 0 => d \in 1 .. Len(s.txList) /\ f.reqSeq = SeqAdd(s.expectedAckSeq, d)
  <2>1. CASE Slides(s, s1, 0)
    BY <2>1
  <2>2. ASSUME NEW d \in 1 .. Len(s.txList),
               Slides(s, s1, d) /\ f.reqSeq = SeqAdd(s.expectedAckSeq, d)
        PROVE  \E d3 \in Nat : /\ Slides(s, s1, d3)
                               /\ d3 # 0 => d3 \in 1 .. Len(s.txList) /\ f.reqSeq = SeqAdd(s.expectedAckSeq, d3)
    <3>1. d \in Nat
      OBVIOUS
    <3> QED BY <2>2, <3>1
  <2> QED BY <1>3, <2>1, <2>2
<1>11. k \in HandOvers(OperateReorderTimer(SlideRxWindow(s1, f.txSeq, f.pdu)))
  BY <1>4
<1> QED BY <1>2, <1>5, <1>7, <1>9, <1>10, <1>11

-----------------------------------------------------------------------------
(***************************************************************************)
(* The receive window by itself.                                           *)
(***************************************************************************)
\* The numbers of a typed receive window.
LEMMA RxNumbers ==
  ASSUME NEW s, s \in Channel
  PROVE  /\ s.expectedTxSeq \in SeqNum /\ s.maxExpectedTxSeq \in SeqNum
         /\ \A i \in 1 .. Len(s.rxList) : s.rxList[i].txSeq \in SeqNum
<1>1. s.rxList \in Seq(RxFrame)
  BY DEF Channel
<1>2. ASSUME NEW i \in 1 .. Len(s.rxList)
      PROVE  s.rxList[i].txSeq \in SeqNum
  <2>1. s.rxList[i] \in RxFrame
    BY <1>1, ElementOfSeq
  <2> QED BY <2>1 DEF RxFrame
<1> QED BY <1>2 DEF Channel

\* Sending c more frames moves nothing in the receive window, as long as it is less than a
\* window ahead of what is expected.
LEMMA RxWindowMove ==
  ASSUME NEW s, s \in Channel, NEW next \in SeqNum, NEW n \in Nat, NEW c \in Nat,
         c <= SeqMod, RxWindow(s, next, n),
         n + c - WinSize <= Place(s.expectedTxSeq, next, n)
  PROVE  /\ RxWindow(s, SeqAdd(next, c), n + c)
         /\ Place(s.expectedTxSeq, SeqAdd(next, c), n + c) = Place(s.expectedTxSeq, next, n)
         /\ Place(s.maxExpectedTxSeq, SeqAdd(next, c), n + c)
              = Place(s.maxExpectedTxSeq, next, n)
         /\ \A i \in 1 .. Len(s.rxList) :
              Place(s.rxList[i].txSeq, SeqAdd(next, c), n + c)
                = Place(s.rxList[i].txSeq, next, n)
<1> DEFINE At(q) == Place(q, next, n)
           To(q) == Place(q, SeqAdd(next, c), n + c)
<1>0. c \in 0 .. SeqMod /\ SeqAdd(next, c) \in SeqNum /\ n + c \in Nat
  BY SeqModFacts, SeqAddType
<1>1. /\ s.expectedTxSeq \in SeqNum /\ s.maxExpectedTxSeq \in SeqNum
      /\ \A i \in 1 .. Len(s.rxList) : s.rxList[i].txSeq \in SeqNum
  BY RxNumbers
<1>2. ASSUME NEW q \in SeqNum, At(s.expectedTxSeq) <= At(q)
      PROVE  To(q) = At(q) /\ At(q) \in Int
  <2>1. At(q) \in Int /\ At(s.expectedTxSeq) \in Int
    BY <1>1, PlaceType
  <2>2. n + c - WinSize <= At(s.expectedTxSeq)
    OBVIOUS
  <2>3. n + c - SeqMod < At(q)
    <3> HIDE DEF At
    <3> QED BY <1>2, <2>1, <2>2, WindowFacts, SeqModFacts
  <2>4. n + c - SeqMod < Place(q, next, n)
    BY <2>3
  <2>5. Place(q, SeqAdd(next, c), n + c) = Place(q, next, n)
    BY <1>0, <2>4, PlaceMove
  <2> QED BY <2>1, <2>5
<1>3. At(s.expectedTxSeq) \in Int
  BY <1>1, PlaceType
<1>4. /\ At(s.expectedTxSeq) <= At(s.maxExpectedTxSeq)
      /\ \A i \in 1 .. Len(s.rxList) : At(s.expectedTxSeq) < At(s.rxList[i].txSeq)
  BY DEF RxWindow
<1>5. \A i \in 1 .. Len(s.rxList) : At(s.rxList[i].txSeq) \in Int
  BY <1>1, PlaceType
<1>6. To(s.expectedTxSeq) = At(s.expectedTxSeq) /\ At(s.expectedTxSeq) \in Int
  <2> HIDE DEF At, To
  <2>1. At(s.expectedTxSeq) <= At(s.expectedTxSeq)
    BY <1>3
  <2> QED BY <1>1, <1>2, <2>1
<1>7. To(s.maxExpectedTxSeq) = At(s.maxExpectedTxSeq) /\ At(s.maxExpectedTxSeq) \in Int
  BY <1>1, <1>2, <1>4
<1>8. ASSUME NEW i \in 1 .. Len(s.rxList)
      PROVE  To(s.rxList[i].txSeq) = At(s.rxList[i].txSeq) /\ At(s.rxList[i].txSeq) \in Int
  <2> HIDE DEF At, To
  <2>1. At(s.expectedTxSeq) <= At(s.rxList[i].txSeq)
    BY <1>3, <1>4, <1>5
  <2> QED BY <1>1, <1>2, <2>1
<1>9. RxWindow(s, SeqAdd(next, c), n + c)
  <2>1. n + c - WinSize <= To(s.expectedTxSeq) /\ To(s.expectedTxSeq) <= To(s.maxExpectedTxSeq)
    BY <1>4, <1>6, <1>7
  <2>2. ASSUME NEW i \in 1 .. Len(s.rxList)
        PROVE  /\ To(s.expectedTxSeq) < To(s.rxList[i].txSeq)
               /\ To(s.rxList[i].txSeq) < To(s.maxExpectedTxSeq)
    <3>1. /\ At(s.expectedTxSeq) < At(s.rxList[i].txSeq)
          /\ At(s.rxList[i].txSeq) < At(s.maxExpectedTxSeq)
      BY DEF RxWindow
    <3> QED BY <3>1, <1>6, <1>7, <1>8
  <2>3. ASSUME NEW i \in 1 .. Len(s.rxList), NEW j \in 1 .. Len(s.rxList), i < j
        PROVE  To(s.rxList[i].txSeq) < To(s.rxList[j].txSeq)
    <3>1. At(s.rxList[i].txSeq) < At(s.rxList[j].txSeq)
      BY <2>3 DEF RxWindow
    <3> HIDE DEF At, To
    <3> QED BY <3>1, <1>8
  <2>4. ~s.isRxWindowFull /\ s.bufferSeq = s.expectedTxSeq
    BY DEF RxWindow
  <2>5. PICK m \in Nat, r \in SeqNum : m = n + c /\ r = SeqAdd(next, c)
    BY <1>0
  <2>6. m - WinSize <= Place(s.expectedTxSeq, r, m)
    BY <2>1, <2>5, WindowFacts
  <2>7. Place(s.expectedTxSeq, r, m) <= Place(s.maxExpectedTxSeq, r, m)
    BY <2>1, <2>5
  <2>8. \A i \in 1 .. Len(s.rxList) :
             /\ Place(s.expectedTxSeq, r, m) < Place(s.rxList[i].txSeq, r, m)
             /\ Place(s.rxList[i].txSeq, r, m) < Place(s.maxExpectedTxSeq, r, m)
    BY <2>2, <2>5
  <2>9. \A i, j \in 1 .. Len(s.rxList) :
             i < j => Place(s.rxList[i].txSeq, r, m) < Place(s.rxList[j].txSeq, r, m)
    BY <2>3, <2>5
  <2>10. RxWindow(s, r, m)
    BY <2>4, <2>6, <2>7, <2>8, <2>9 DEF RxWindow
  <2> QED BY <2>5, <2>10
<1> QED BY <1>6, <1>7, <1>8, <1>9

\* Counting the frames from another one shifts the places.
LEMMA RxWindowShift ==
  ASSUME NEW s, s \in Channel, NEW next \in SeqNum, NEW n \in Nat, NEW c \in Nat,
         RxWindow(s, next, n + c)
  PROVE  RxWindow(s, next, n)
<1> DEFINE At(q) == Place(q, next, n)
           To(q) == Place(q, next, n + c)
<1>1. /\ s.expectedTxSeq \in SeqNum /\ s.maxExpectedTxSeq \in SeqNum
      /\ \A i \in 1 .. Len(s.rxList) : s.rxList[i].txSeq \in SeqNum
  BY RxNumbers
<1>2. ASSUME NEW q \in SeqNum
      PROVE  To(q) = At(q) + c /\ At(q) \in Int
  <2>1. Behind(q, next) \in Int
    BY SeqModFacts DEF Behind
  <2> QED BY <2>1 DEF Place
<1>3. /\ n + c - WinSize <= To(s.expectedTxSeq)
      /\ To(s.expectedTxSeq) <= To(s.maxExpectedTxSeq)
  <2>1. PICK m \in Nat : m = n + c /\ WinSize \in Nat
    BY WindowFacts
  <2>2. RxWindow(s, next, m)
    BY <2>1
  <2>3. /\ m - WinSize <= Place(s.expectedTxSeq, next, m)
        /\ Place(s.expectedTxSeq, next, m) <= Place(s.maxExpectedTxSeq, next, m)
    BY <2>2 DEF RxWindow
  <2> QED BY <2>1, <2>3
<1>4. /\ n - WinSize <= At(s.expectedTxSeq)
      /\ At(s.expectedTxSeq) <= At(s.maxExpectedTxSeq)
  <2> HIDE DEF At, To
  <2> QED BY <1>1, <1>2, <1>3, WindowFacts
<1>5. ASSUME NEW q \in SeqNum, NEW r \in SeqNum, To(q) < To(r)
      PROVE  At(q) < At(r)
  <2> HIDE DEF At, To
  <2> QED BY <1>2, <1>5
<1>6. ASSUME NEW i \in 1 .. Len(s.rxList)
      PROVE  /\ At(s.expectedTxSeq) < At(s.rxList[i].txSeq)
             /\ At(s.rxList[i].txSeq) < At(s.maxExpectedTxSeq)
  <2>1. /\ To(s.expectedTxSeq) < To(s.rxList[i].txSeq)
        /\ To(s.rxList[i].txSeq) < To(s.maxExpectedTxSeq)
    BY DEF RxWindow
  <2> HIDE DEF At, To
  <2> QED BY <2>1, <1>1, <1>5
<1>7. ASSUME NEW i \in 1 .. Len(s.rxList), NEW j \in 1 .. Len(s.rxList), i < j
      PROVE  At(s.rxList[i].txSeq) < At(s.rxList[j].txSeq)
  <2>1. To(s.rxList[i].txSeq) < To(s.rxList[j].txSeq)
    BY <1>7 DEF RxWindow
  <2> HIDE DEF At, To
  <2> QED BY <2>1, <1>1, <1>5
<1>8. ~s.isRxWindowFull /\ s.bufferSeq = s.expectedTxSeq
  BY DEF RxWindow
<1> QED BY <1>4, <1>6, <1>7, <1>8 DEF RxWindow

\* The receive window in its own terms: the frame expected next has the place 0.
LocalRx(s) ==
    /\ RxWindow(s, SeqAdd(s.expectedTxSeq, WinSize), WinSize)
    /\ s.reorderTimer <=> s.expectedTxSeq # s.maxExpectedTxSeq

\* The place of what is expected.
LEMMA LocalPlace ==
  ASSUME NEW q \in SeqNum
  PROVE  Place(q, SeqAdd(q, WinSize), WinSize) = 0
<1>1. WinSize \in 0 .. SeqMod /\ WinSize \in Nat
  BY WindowFacts, SeqModFacts
<1>2. Place(q, q, 0) = 0
  BY PlaceOfNext
<1>3. 0 + WinSize - SeqMod < Place(q, q, 0)
  BY <1>2, WindowFacts, SeqModFacts
<1>4. Place(q, SeqAdd(q, WinSize), 0 + WinSize) = Place(q, q, 0)
  BY <1>1, <1>3, PlaceMove
<1>5. 0 + WinSize = WinSize
  BY <1>1
<1> QED BY <1>2, <1>4, <1>5

\* What DTAP_CheckEnhanceFrameTxSeq accepts lies in the window and is not in it yet.
LEMMA CheckedInWindow ==
  ASSUME NEW s, s \in Channel, NEW q \in SeqNum, LocalRx(s), CheckEnhanceFrameTxSeq(s, q)
  PROVE  /\ 0 <= Place(q, SeqAdd(s.expectedTxSeq, WinSize), WinSize)
         /\ Place(q, SeqAdd(s.expectedTxSeq, WinSize), WinSize) < WinSize
         /\ ~HasRxSeq(s.rxList, q)
<1> DEFINE x == s.expectedTxSeq
           w == SeqAdd(x, WinSize)
           At(r) == Place(r, w, WinSize)
<1>1. x \in SeqNum /\ s.bufferSeq = x /\ WinSize \in Nat /\ WinSize \in 0 .. SeqMod
  BY WindowFacts, SeqModFacts DEF LocalRx, RxWindow, Channel
<1>2. At(x) = 0
  BY <1>1, LocalPlace
<1>3. w \in SeqNum /\ w = IF x + WinSize < SeqMod THEN x + WinSize ELSE x + WinSize - SeqMod
  BY <1>1, SeqAddType, SeqAddValue
<1>4. CASE q = x
  <2>1. ~HasRxSeq(s.rxList, x)
    <3>1. SUFFICES ASSUME NEW i \in DOMAIN s.rxList, s.rxList[i].txSeq = x PROVE FALSE
      BY DEF HasRxSeq
    <3>2. i \in 1 .. Len(s.rxList)
      BY LenProperties DEF Channel
    <3>3. At(x) < At(s.rxList[i].txSeq)
      BY <3>2 DEF LocalRx, RxWindow
    <3> HIDE DEF At
    <3> QED BY <3>1, <3>3, <1>2
  <2> HIDE DEF At, x, w
  <2>2. 0 <= At(q) /\ At(q) < WinSize
    BY <1>2, <1>4, WindowFacts
  <2> QED BY <1>4, <2>1, <2>2 DEF At, x, w
<1>5. CASE q # x
  <2>1. /\ ~IsFrameSeqSmaller(q, x) /\ IsFrameSeqSmaller(q, w)
        /\ ~HasRxSeq(s.rxList, q)
    BY <1>1, <1>5 DEF CheckEnhanceFrameTxSeq
  <2>2. ~((IF q >= x THEN q - x ELSE q - x + SeqMod) >= SignMask)
    BY <2>1, <1>1, SmallerValue
  <2>3. (IF q >= w THEN q - w ELSE q - w + SeqMod) >= SignMask
    BY <2>1, <1>3, SmallerValue
  <2>4. At(q) = WinSize - (IF w >= q THEN w - q ELSE w - q + SeqMod)
    BY DEF Place, Behind
  <2> HIDE DEF At, x, w
  <2>5. 0 <= At(q) /\ At(q) < WinSize
    BY <2>2, <2>3, <2>4, <1>1, <1>3, WindowFacts, SeqModFacts
  <2> QED BY <2>1, <2>5 DEF At, x, w
<1> QED BY <1>4, <1>5

\* What sending and acknowledging leave alone.
LEMMA LocalSame ==
  ASSUME NEW s, NEW r, SameRx(s, r), LocalRx(s)
  PROVE  LocalRx(r)
BY DEF SameRx, LocalRx, RxWindow

\* DTAP_ReliableChannelCreate.
LEMMA LocalInit == LocalRx(InitChannel)
<1>1. 0 \in SeqNum /\ WinSize \in Nat
  BY WindowFacts
<1>2. Place(0, SeqAdd(0, WinSize), WinSize) = 0
  BY <1>1, LocalPlace
<1>3. /\ InitChannel.rxList = << >> /\ InitChannel.expectedTxSeq = 0
      /\ InitChannel.maxExpectedTxSeq = 0 /\ InitChannel.bufferSeq = 0
      /\ InitChannel.isRxWindowFull = FALSE /\ InitChannel.reorderTimer = FALSE
  BY DEF InitChannel
<1>4. Len(InitChannel.rxList) = 0
  BY <1>3, EmptySeq
<1>5. 1 .. Len(InitChannel.rxList) = {}
  BY <1>4
<1>6. WinSize - WinSize <= 0
  BY <1>1
<1> QED BY <1>2, <1>3, <1>5, <1>6 DEF LocalRx, RxWindow

\* DTAP_RecvEnhanceFrame for a frame that was accepted.
LEMMA LocalReceive ==
  ASSUME MaxFull = 0, NEW s, Good(s), LocalRx(s), NEW txSeq \in SeqNum, NEW pdu \in Pdu,
         CheckEnhanceFrameTxSeq(s, txSeq),
         NEW k \in HandOvers(OperateReorderTimer(SlideRxWindow(s, txSeq, pdu)))
  PROVE  LocalRx(RecvEnhanceFrameInner(OperateReorderTimer(SlideRxWindow(s, txSeq, pdu)), k))
<1> DEFINE u == RecvEnhanceFrameInner(OperateReorderTimer(SlideRxWindow(s, txSeq, pdu)), k)
           x == s.expectedTxSeq
           next == SeqAdd(x, WinSize)
<1>1. s \in Channel /\ x \in SeqNum /\ WinSize \in Nat /\ next \in SeqNum
      /\ RxWindow(s, next, WinSize)
  BY WindowFacts, SeqAddType DEF Good, Channel, LocalRx
<1>2. /\ 0 <= Place(txSeq, next, WinSize) /\ Place(txSeq, next, WinSize) < WinSize
      /\ ~HasRxSeq(s.rxList, txSeq)
  BY <1>1, CheckedInWindow
<1>3. Place(x, next, WinSize) = 0
  BY <1>1, LocalPlace
<1>4. Place(x, next, WinSize) <= Place(txSeq, next, WinSize)
  BY <1>2, <1>3
<1> HIDE DEF next
<1>5. /\ Good(u) /\ RxWindow(u, next, WinSize)
      /\ k \in 0 .. WinSize
      /\ u.expectedTxSeq = SeqAdd(x, k)
      /\ Place(u.expectedTxSeq, next, WinSize) = 0 + k
  BY <1>1, <1>2, <1>3, <1>4, ReceiveStep
<1>10. u.reorderTimer <=> u.expectedTxSeq # u.maxExpectedTxSeq
  BY <1>1, <1>2, <1>4, ReceiveStep
<1> HIDE DEF u, x
<1>6. u \in Channel /\ k \in Nat /\ k <= SeqMod /\ WinSize + k - WinSize <= 0 + k
      /\ k + WinSize <= SeqMod /\ WinSize + k <= SeqMod
  <2>1. k \in 0 .. WinSize /\ WinSize \in Nat /\ SeqMod \in Nat /\ 2 * WinSize < SeqMod
    BY <1>5, WindowFacts, SeqModFacts
  <2>2. u \in Channel
    BY <1>5 DEF Good
  <2> QED BY <2>1, <2>2
<1>7. RxWindow(u, SeqAdd(next, k), WinSize + k)
  <2>1. WinSize + k - WinSize <= Place(u.expectedTxSeq, next, WinSize)
    BY <1>5, <1>6
  <2> QED BY <1>1, <1>5, <1>6, <2>1, RxWindowMove
<1>8. SeqAdd(next, k) = SeqAdd(u.expectedTxSeq, WinSize)
  <2>1. SeqAdd(SeqAdd(x, WinSize), k) = SeqAdd(x, WinSize + k)
    BY <1>1, <1>6, SeqAddAdd
  <2>2. SeqAdd(SeqAdd(x, k), WinSize) = SeqAdd(x, k + WinSize)
    BY <1>1, <1>6, SeqAddAdd
  <2>3. WinSize + k = k + WinSize
    BY <1>1, <1>6
  <2> QED BY <2>1, <2>2, <2>3, <1>5 DEF next
<1>9. RxWindow(u, SeqAdd(u.expectedTxSeq, WinSize), WinSize)
  <2>1. SeqAdd(next, k) \in SeqNum
    BY <1>1, <1>6, SeqAddType
  <2> QED BY <1>1, <1>6, <1>7, <1>8, <2>1, RxWindowShift
<1>11. LocalRx(u)
  BY <1>9, <1>10 DEF LocalRx
<1> QED BY <1>11 DEF u

\* The inductive invariant: the receive window of a channel that exists is in order and
\* its timer runs exactly while there is a gap.
LocalInv == IInv /\ \A e \in Endpoint : alive[e] => LocalRx(ch[e])

\* What a handler leaves satisfies the invariant.
LEMMA HandlerKeepsLocal ==
  ASSUME LocalInv, IInv', NEW e \in Endpoint, NEW s, Good(s), LocalRx(s),
         ch' = [ch EXCEPT ![e] = [s EXCEPT !.out = << >>]], alive' = alive
  PROVE  LocalInv'
<1> DEFINE r == [s EXCEPT !.out = << >>]
<1>1. SameRx(s, r)
  BY DEF Good, Channel, SameRx
<1>2. ch' = [ch EXCEPT ![e] = r]
  OBVIOUS
<1> HIDE DEF r
<1>3. LocalRx(r)
  BY <1>1, LocalSame
<1>4. ASSUME NEW x \in Endpoint, alive'[x]
      PROVE  LocalRx(ch'[x])
  <2>1. ch \in [Endpoint -> Channel]
    BY DEF LocalInv, IInv, TypeOK
  <2>2. CASE x = e
    BY <2>1, <2>2, <1>2, <1>3
  <2>3. CASE x # e
    <3>1. ch'[x] = ch[x] /\ alive[x]
      BY <2>1, <2>3, <1>2, <1>4
    <3> QED BY <3>1 DEF LocalInv
  <2> QED BY <2>2, <2>3
<1> QED BY <1>4 DEF LocalInv, LocalRx, RxWindow, Place, Behind

-----------------------------------------------------------------------------
(***************************************************************************)
(* The actions.                                                            *)
(***************************************************************************)
\* The client and the three timers only send.
LEMMA SendingActions ==
  ASSUME IInv, NEW e \in Endpoint,
         Send(e) \/ RspTimerExpireProc(e) \/ ReorderTimerExpireProc(e)
           \/ RetransTimerExpireProc(e)
  PROVE  /\ alive[e] /\ alive' = alive /\ Good(ch[e])
         /\ \E s : Good(s) /\ Sends(ch[e], s) /\ Commit(e, s)
<1>0. SendOutcomes \subseteq BOOLEAN
  BY ReliableAssumption
<1>a. alive[e] /\ alive' = alive /\ Good(ch[e])
  BY DEF Send, RspTimerExpireProc, ReorderTimerExpireProc, RetransTimerExpireProc, IInv
<1>1. CASE Send(e)
  <2> DEFINE m == offered[e] + 1
  <2>1. PICK ok \in SendOutcomes :
          Commit(e, [SendEnhanceFrame(ch[e], m, ok)
                       EXCEPT !.transBusy = SendReportsFull(ch[e], m, ok)])
    BY <1>1 DEF Send
  <2> DEFINE s == SendEnhanceFrame(ch[e], m, ok)
             busy == SendReportsFull(ch[e], m, ok)
             r == [s EXCEPT !.transBusy = busy]
  <2>3. m \in Msg
    <3>1. offered[e] < MaxMsg[e]
      BY <1>1 DEF Send
    <3>2. MaxMsg[e] \in Nat /\ 1 .. MaxMsg[e] \subseteq Msg
      BY ReliableAssumption
    <3>4. offered[e] \in Nat
      BY DEF IInv, TypeOK
    <3>3. m \in 1 .. MaxMsg[e]
      BY <3>4, <3>1, <3>2
    <3> QED BY <3>2, <3>3
  <2>4. Good(s) /\ Sends(ch[e], s)
    BY <1>0, <1>a, <2>3, SendEnhanceFrameGood, SendEnhanceFrameSends
  <2>5. busy \in BOOLEAN
    BY DEF SendReportsFull
  <2>6. Commit(e, r)
    BY <2>1
  <2> HIDE DEF s, busy, r
  <2>7. /\ r \in Channel /\ r.txList = s.txList /\ r.nextTxSeq = s.nextTxSeq
        /\ r.expectedAckSeq = s.expectedAckSeq /\ r.retransTimer = s.retransTimer
        /\ r.sent = s.sent /\ r.out = s.out /\ SameRx(s, r) /\ s \in Channel
    BY <2>4, <2>5 DEF Good, Channel, SameRx, r
  <2>8. Good(r) /\ Sends(s, r) BY <2>4, <2>7, SameWindowFields, SendsSame
  <2>9. Sends(ch[e], r)
    BY <1>a, <2>4, <2>8, SendsTrans
  <2> QED BY <1>a, <2>6, <2>8, <2>9
<1>2. CASE RspTimerExpireProc(e)
  <2>1. PICK ok \in SendOutcomes : Commit(e, SendAckFrame(ch[e], FALSE, ok))
    BY <1>2 DEF RspTimerExpireProc
  <2>2. Good(SendAckFrame(ch[e], FALSE, ok)) /\ Sends(ch[e], SendAckFrame(ch[e], FALSE, ok))
    BY <1>0, <1>a, SendAckFrameGood, SendAckFrameSends
  <2> QED BY <1>a, <2>1, <2>2
<1>3. CASE ReorderTimerExpireProc(e)
  <2>1. CASE ch[e].nackCnt >= MaxTxThreshold
    <3> DEFINE s == ch[e]
               r == [s EXCEPT !.isDestroyMsgSent = TRUE]
    <3>1. Commit(e, r)
      BY <1>3, <2>1 DEF ReorderTimerExpireProc
    <3>2. /\ r \in Channel /\ r.txList = s.txList /\ r.nextTxSeq = s.nextTxSeq
          /\ r.expectedAckSeq = s.expectedAckSeq /\ r.retransTimer = s.retransTimer
          /\ r.sent = s.sent /\ r.out = s.out /\ SameRx(s, r) /\ s \in Channel
      BY <1>a DEF Good, Channel, SameRx
    <3> HIDE DEF s, r
    <3>3. Good(s) BY <1>a DEF s
    <3>4. Good(r) /\ Sends(s, r) BY <3>2, <3>3, SameWindowFields, SendsSame
    <3> QED BY <1>a, <3>1, <3>4 DEF s
  <2>2. CASE ~(ch[e].nackCnt >= MaxTxThreshold)
    <3>1. PICK ok \in SendOutcomes :
            Commit(e, [SendAckFrame(ch[e], TRUE, ok)
                         EXCEPT !.nackCnt = IF ok THEN @ + 1 ELSE @])
      BY <1>3, <2>2 DEF ReorderTimerExpireProc
    <3> DEFINE s == SendAckFrame(ch[e], TRUE, ok)
               r == [s EXCEPT !.nackCnt = IF ok THEN @ + 1 ELSE @]
    <3>2. Good(s) /\ Sends(ch[e], s)
      BY <1>0, <1>a, SendAckFrameGood, SendAckFrameSends
    <3>3. s.nackCnt = ch[e].nackCnt
      BY <1>a DEF SendAckFrame, SendFrame, Good, Channel
    <3>4. ch[e].nackCnt \in 0 .. MaxTxThreshold /\ ch[e].nackCnt + 1 \in 0 .. MaxTxThreshold
      BY <1>a, <2>2, ReliableAssumption DEF Good, Channel
    <3>5. Commit(e, r)
      BY <3>1
    <3> HIDE DEF s
    <3>6. /\ r \in Channel /\ r.txList = s.txList /\ r.nextTxSeq = s.nextTxSeq
          /\ r.expectedAckSeq = s.expectedAckSeq /\ r.retransTimer = s.retransTimer
      BY <3>2, <3>3, <3>4 DEF Good, Channel
    <3>8. r.sent = s.sent /\ r.out = s.out /\ SameRx(s, r) /\ s \in Channel
      BY <3>2 DEF Good, Channel, SameRx
    <3> HIDE DEF r
    <3>7. Good(r) /\ Sends(s, r) BY <3>2, <3>6, <3>8, SameWindowFields, SendsSame
    <3>9. Sends(ch[e], r)
      BY <1>a, <3>2, <3>7, SendsTrans
    <3> QED BY <1>a, <3>5, <3>7, <3>9
  <2> QED BY <2>1, <2>2
<1>4. CASE RetransTimerExpireProc(e)
  <2> DEFINE s == [ch[e] EXCEPT !.reTxSeq = ch[e].expectedAckSeq]
  <2>1. PICK ok \in SendOutcomes : Commit(e, RetransEnhanceFrame(s, ok))
    BY <1>4 DEF RetransTimerExpireProc
  <2>3. ch[e].expectedAckSeq \in SeqNum
    BY <1>a DEF Good, Channel
  <2>4. Good(s) /\ Sends(ch[e], s)
    BY <1>a, <2>3, SetReTxSeqGood, SetReTxSeqSends
  <2> HIDE DEF s
  <2>5. Good(RetransEnhanceFrame(s, ok)) /\ Sends(s, RetransEnhanceFrame(s, ok))
    BY <1>0, <2>4, RetransGood, RetransSends
  <2>6. Sends(ch[e], RetransEnhanceFrame(s, ok))
    BY <1>a, <2>4, <2>5, SendsTrans
  <2> QED BY <1>a, <2>1, <2>5, <2>6
<1> QED BY <1>1, <1>2, <1>3, <1>4

\* An acknowledgement arrives.
LEMMA AckAction ==
  ASSUME IInv, NEW e \in Endpoint, RecvAck(e)
  PROVE  /\ alive[e] /\ alive' = alive /\ Good(ch[e]) /\ net[e] # << >>
         /\ Head(net[e]) \in AckFrame
         /\ \E s1, s2, s : \E d \in Nat :
              /\ Good(s1) /\ Sends(ch[e], s1) /\ Len(s1.txList) = Len(ch[e].txList)
              /\ Good(s2) /\ Slides(s1, s2, d)
              /\ d # 0 => d \in 1 .. Len(s1.txList)
                          /\ Head(net[e]).reqSeq = SeqAdd(s1.expectedAckSeq, d)
              /\ Good(s) /\ Sends(s2, s) /\ Receive(e, s)
<1>1. PICK ok \in SendOutcomes : Receive(e, RecvAckFrame(ch[e], Head(net[e]), ok))
  BY DEF RecvAck
<1>2. Good(ch[e]) /\ net[e] # << >> /\ Head(net[e]) \in AckFrame \cup DataFrame
  BY HeadTailProperties DEF RecvAck, IInv, TypeOK
<1>3. Head(net[e]) \in AckFrame /\ ok \in BOOLEAN
  BY <1>2, ReliableAssumption DEF RecvAck, DataFrame
<1>a. PICK f \in AckFrame : f = Head(net[e])
  BY <1>3
<1>b. PICK c : c = ch[e] /\ Good(c)
  BY <1>2
<1>4. f = Head(net[e]) /\ c = ch[e] /\ Good(c)
  BY <1>a, <1>b
<1>5. Good(RecvAckFrame(c, f, ok))
  BY <1>3, <1>4, RecvAckFrameGood
<1>6. PICK s1, s2 : \E d \in Nat :
           /\ Good(s1) /\ Sends(c, s1) /\ Len(s1.txList) = Len(c.txList)
           /\ Good(s2) /\ Slides(s1, s2, d)
           /\ d # 0 => d \in 1 .. Len(s1.txList) /\ f.reqSeq = SeqAdd(s1.expectedAckSeq, d)
           /\ Sends(s2, RecvAckFrame(c, f, ok))
  BY <1>3, <1>4, AckHandler
<1>7. Receive(e, RecvAckFrame(c, f, ok))
  BY <1>1, <1>4
<1>8. alive[e] /\ alive' = alive
  BY <1>1 DEF RecvAck, Receive
<1>9. \E s1_, s2_, s : \E d \in Nat :
              /\ Good(s1_) /\ Sends(c, s1_) /\ Len(s1_.txList) = Len(c.txList)
              /\ Good(s2_) /\ Slides(s1_, s2_, d)
              /\ d # 0 => d \in 1 .. Len(s1_.txList)
                          /\ f.reqSeq = SeqAdd(s1_.expectedAckSeq, d)
              /\ Good(s) /\ Sends(s2_, s) /\ Receive(e, s)
  BY <1>5, <1>6, <1>7
<1> QED BY <1>2, <1>3, <1>4, <1>8, <1>9

\* A data frame arrives and is accepted.
LEMMA DataAction ==
  ASSUME IInv, NEW e \in Endpoint, RecvData(e)
  PROVE  /\ alive[e] /\ alive' = alive /\ Good(ch[e]) /\ net[e] # << >>
         /\ Head(net[e]) \in DataFrame
         /\ CheckEnhanceFrameTxSeq(ch[e], Head(net[e]).txSeq)
         /\ \E s1, s2, s, k : \E d \in Nat :
              /\ Good(s1) /\ Slides(ch[e], s1, d)
              /\ d # 0 => d \in 1 .. Len(ch[e].txList)
                          /\ Head(net[e]).reqSeq = SeqAdd(ch[e].expectedAckSeq, d)
              /\ s2 = RecvEnhanceFrameInner(OperateReorderTimer(
                        SlideRxWindow(s1, Head(net[e]).txSeq, Head(net[e]).pdu)), k)
              /\ k \in HandOvers(OperateReorderTimer(
                         SlideRxWindow(s1, Head(net[e]).txSeq, Head(net[e]).pdu)))
              /\ Good(s2) /\ Good(s) /\ Sends(s2, s) /\ Receive(e, s)
<1>1. PICK ok \in SendOutcomes, k \in HandOvers(RecvIntoWindow(ch[e], Head(net[e]))) :
          Receive(e, RecvDataFrame(ch[e], Head(net[e]), k, ok))
  BY DEF RecvData
<1>2. Good(ch[e]) /\ net[e] # << >> /\ Head(net[e]) \in AckFrame \cup DataFrame
  BY HeadTailProperties DEF RecvData, IInv, TypeOK
<1>3. Head(net[e]) \in DataFrame /\ ok \in BOOLEAN
  BY <1>2, ReliableAssumption DEF RecvData, AckFrame
<1>a. PICK f \in DataFrame : f = Head(net[e])
  BY <1>3
<1>b. PICK c : c = ch[e] /\ Good(c)
  BY <1>2
<1>4. f = Head(net[e]) /\ c = ch[e] /\ Good(c)
  BY <1>a, <1>b
<1>5. k \in HandOvers(RecvIntoWindow(c, f))
  BY <1>4
<1>6. Good(RecvDataFrame(c, f, k, ok))
  BY <1>3, <1>4, <1>5, RecvDataFrameGood
<1>7. PICK s1, s2 : \E d \in Nat :
           /\ Good(s1) /\ Slides(c, s1, d)
           /\ d # 0 => d \in 1 .. Len(c.txList) /\ f.reqSeq = SeqAdd(c.expectedAckSeq, d)
           /\ s2 = RecvEnhanceFrameInner(OperateReorderTimer(SlideRxWindow(s1, f.txSeq, f.pdu)), k)
           /\ k \in HandOvers(OperateReorderTimer(SlideRxWindow(s1, f.txSeq, f.pdu)))
           /\ Good(s2)
           /\ Sends(s2, RecvDataFrame(c, f, k, ok))
  BY <1>3, <1>4, <1>5, DataHandler
<1>8. Receive(e, RecvDataFrame(c, f, k, ok))
  BY <1>1, <1>4
<1>9. alive[e] /\ alive' = alive /\ CheckEnhanceFrameTxSeq(c, f.txSeq)
  BY <1>1, <1>4 DEF RecvData, Receive
<1>10. \E s1_, s2_, s, k_ : \E d \in Nat :
              /\ Good(s1_) /\ Slides(c, s1_, d)
              /\ d # 0 => d \in 1 .. Len(c.txList)
                          /\ f.reqSeq = SeqAdd(c.expectedAckSeq, d)
              /\ s2_ = RecvEnhanceFrameInner(OperateReorderTimer(
                        SlideRxWindow(s1_, f.txSeq, f.pdu)), k_)
              /\ k_ \in HandOvers(OperateReorderTimer(SlideRxWindow(s1_, f.txSeq, f.pdu)))
              /\ Good(s2_) /\ Good(s) /\ Sends(s2_, s) /\ Receive(e, s)
  BY <1>6, <1>7, <1>8
<1> QED BY <1>2, <1>3, <1>4, <1>9, <1>10

\* DTAP_CheckEnhanceFrameTxSeq looks at the receive window only.
LEMMA CheckSame ==
  ASSUME NEW s, NEW r, SameRx(s, r), NEW q, CheckEnhanceFrameTxSeq(s, q)
  PROVE  CheckEnhanceFrameTxSeq(r, q)
BY DEF SameRx, CheckEnhanceFrameTxSeq

\* Both channels start with an empty window.
LEMMA LocalInvInit == Init => LocalInv
<1> SUFFICES ASSUME Init PROVE LocalInv
  OBVIOUS
<1>1. \A e \in Endpoint : ch[e] = InitChannel
  BY DEF Init
<1> QED BY <1>1, InitInv, LocalInit DEF LocalInv

\* Every step keeps the receive windows in order and watched.
LEMMA LocalInvNext ==
  ASSUME MaxFull = 0, LocalInv, [Next]_vars
  PROVE  LocalInv'
<1>0. IInv /\ IInv'
  BY NextInv DEF LocalInv
<1>1. ASSUME NEW e \in Endpoint,
             Send(e) \/ RspTimerExpireProc(e) \/ ReorderTimerExpireProc(e)
               \/ RetransTimerExpireProc(e)
      PROVE  LocalInv'
  <2>1. alive[e] /\ alive' = alive /\ Good(ch[e])
    BY <1>0, <1>1, SendingActions
  <2>2. PICK s : Good(s) /\ Sends(ch[e], s) /\ Commit(e, s)
    BY <1>0, <1>1, SendingActions
  <2>3. LocalRx(ch[e])
    BY <2>1 DEF LocalInv
  <2>4. LocalRx(s)
    BY <2>2, <2>3, LocalSame DEF Sends
  <2> QED BY <1>0, <2>1, <2>2, <2>4, HandlerKeepsLocal DEF Commit
<1>2. ASSUME NEW e \in Endpoint, RecvAck(e)
      PROVE  LocalInv'
  <2>1. alive[e] /\ alive' = alive /\ Good(ch[e])
    BY <1>0, <1>2, AckAction
  <2>2. PICK s1, s2, s : \E d \in Nat :
              /\ Good(s1) /\ Sends(ch[e], s1)
              /\ Good(s2) /\ Slides(s1, s2, d)
              /\ Good(s) /\ Sends(s2, s) /\ Receive(e, s)
    BY <1>0, <1>2, AckAction
  <2>3. LocalRx(ch[e])
    BY <2>1 DEF LocalInv
  <2>4. SameRx(ch[e], s1) /\ SameRx(s1, s2) /\ SameRx(s2, s)
    BY <2>2 DEF Sends, Slides
  <2>5. LocalRx(s)
    BY <2>3, <2>4, LocalSame
  <2> QED BY <1>0, <2>1, <2>2, <2>5, HandlerKeepsLocal DEF Receive
<1>3. ASSUME NEW e \in Endpoint, RecvData(e)
      PROVE  LocalInv'
  <2>1. alive[e] /\ alive' = alive /\ Good(ch[e]) /\ Head(net[e]) \in DataFrame
        /\ CheckEnhanceFrameTxSeq(ch[e], Head(net[e]).txSeq)
    BY <1>0, <1>3, DataAction
  <2>2. PICK f \in DataFrame : f = Head(net[e])
    BY <2>1
  <2>3. PICK s1, s2, s, k : \E d \in Nat :
              /\ Good(s1) /\ Slides(ch[e], s1, d)
              /\ s2 = RecvEnhanceFrameInner(OperateReorderTimer(
                        SlideRxWindow(s1, Head(net[e]).txSeq, Head(net[e]).pdu)), k)
              /\ k \in HandOvers(OperateReorderTimer(
                         SlideRxWindow(s1, Head(net[e]).txSeq, Head(net[e]).pdu)))
              /\ Good(s2) /\ Good(s) /\ Sends(s2, s) /\ Receive(e, s)
    BY <1>0, <1>3, DataAction
  <2>4. /\ Good(s1) /\ SameRx(ch[e], s1) /\ Good(s) /\ SameRx(s2, s) /\ Receive(e, s)
        /\ s2 = RecvEnhanceFrameInner(OperateReorderTimer(SlideRxWindow(s1, f.txSeq, f.pdu)), k)
        /\ k \in HandOvers(OperateReorderTimer(SlideRxWindow(s1, f.txSeq, f.pdu)))
    BY <2>2, <2>3 DEF Slides, Sends
  <2>5. f.txSeq \in SeqNum /\ f.pdu \in Pdu /\ CheckEnhanceFrameTxSeq(ch[e], f.txSeq)
    BY <2>1, <2>2 DEF DataFrame
  <2>6. LocalRx(s1) /\ CheckEnhanceFrameTxSeq(s1, f.txSeq)
    <3>1. LocalRx(ch[e])
      BY <2>1 DEF LocalInv
    <3> QED BY <3>1, <2>4, <2>5, LocalSame, CheckSame
  <2>7. LocalRx(s2)
    BY <2>4, <2>5, <2>6, LocalReceive
  <2>8. LocalRx(s)
    BY <2>4, <2>7, LocalSame
  <2> QED BY <1>0, <2>1, <2>4, <2>8, HandlerKeepsLocal DEF Receive
<1>4. ASSUME NEW e \in Endpoint, RefuseData(e)
      PROVE  LocalInv'
  <2>1. Good(ch[e]) /\ LocalRx(ch[e]) /\ Receive(e, ch[e])
    BY <1>4 DEF RefuseData, LocalInv, IInv
  <2> QED BY <1>0, <2>1, HandlerKeepsLocal DEF Receive
<1>5. ASSUME ch' = ch, alive' = alive
      PROVE  LocalInv'
  BY <1>0, <1>5 DEF LocalInv, LocalRx, RxWindow, Place, Behind
<1>6. ASSUME NEW e \in Endpoint, LoseFrame(e)
      PROVE  LocalInv'
  BY <1>5, <1>6 DEF LoseFrame
<1>7. ASSUME NEW e \in Endpoint, SetTransChannelStatus(e)
      PROVE  LocalInv'
  <2>1. alive[e] /\ ch[e].isRxWindowFull
    BY <1>7 DEF SetTransChannelStatus
  <2>2. ~ch[e].isRxWindowFull
    BY <2>1 DEF LocalInv, LocalRx, RxWindow
  <2> QED BY <2>1, <2>2
<1>8. ASSUME NEW e \in Endpoint, ChannelDel(e)
      PROVE  LocalInv'
  <2>1. /\ ch \in [Endpoint -> Channel] /\ alive \in [Endpoint -> BOOLEAN]
        /\ alive' = [alive EXCEPT ![e] = FALSE]
    BY <1>0, <1>8 DEF ChannelDel, IInv, TypeOK
  <2>2. \A x \in Endpoint : x # e => ch'[x] = ch[x]
    BY <1>8, <2>1 DEF ChannelDel
  <2>3. ASSUME NEW x \in Endpoint, alive'[x]
        PROVE  LocalRx(ch'[x])
    <3>1. x # e /\ alive[x]
      BY <2>1, <2>3
    <3> QED BY <3>1, <2>2 DEF LocalInv
  <2> QED BY <1>0, <2>3 DEF LocalInv, LocalRx, RxWindow, Place, Behind
<1>9. CASE UNCHANGED vars
  BY <1>5, <1>9 DEF vars
<1> QED BY <1>1, <1>2, <1>3, <1>4, <1>6, <1>7, <1>8, <1>9 DEF Next

\* The receive window of every channel is in order and watched, whatever frames are lost,
\* repeated or delayed, and whatever the peer sends at the same time: recvCb never
\* answers "full", as in the stack.
THEOREM ReceiveWindowsWatched == MaxFull = 0 => (Spec => []LocalInv)
<1> SUFFICES ASSUME MaxFull = 0 PROVE Spec => []LocalInv
  OBVIOUS
<1>1. LocalInv /\ [Next]_vars => LocalInv'
  BY LocalInvNext
<1> QED BY <1>1, LocalInvInit, PTL DEF Spec

\* A gap in the receive window always has the reorder timer running (OperateReorderTimer
\* after SlideRxWindow), for windows and sequence numbers of any size.
THEOREM GapsAlwaysWatched == MaxFull = 0 => (Spec => []GapIsWatched)
<1>1. LocalInv => GapIsWatched
  BY DEF LocalInv, LocalRx, GapIsWatched
<1> QED BY <1>1, ReceiveWindowsWatched, PTL

-----------------------------------------------------------------------------
(***************************************************************************)
(* The reliable mode delivers: what an endpoint has handed to its upper    *)
(* layer is a prefix of what its peer has sent, and a frame leaves the     *)
(* send window only when the peer has handed it over.                      *)
(*                                                                         *)
(* The invariant is about one direction of the channel at a time, from a   *)
(* sender S to a receiver R with the frames q on the link between them     *)
(* (Direction).  Every data frame in it is identified by its place, see    *)
(* above, and the PDU of a frame is the one S sent at its place.           *)
(***************************************************************************)

\* The place of number q among the frames S has sent.
At(S, q) == Place(q, S.nextTxSeq, Len(S.sent))

\* What R has received of what S sent: the frames handed over are the first ones, and
\* those that wait in rxList are the ones of their place.
Received(S, R) ==
    /\ At(S, R.expectedTxSeq) = Len(R.handed)
    /\ RxWindow(R, S.nextTxSeq, Len(S.sent))
    /\ \A i \in 1 .. Len(R.handed) : R.handed[i].pdu = S.sent[i]
    /\ \A i \in 1 .. Len(R.rxList) : R.rxList[i].pdu = S.sent[At(S, R.rxList[i].txSeq) + 1]

\* A data frame on its way from S to R: it is the one of its place, and it is not more
\* than a window behind a frame that has arrived before it.
OnItsWay(f, S, R) ==
    /\ 0 <= At(S, f.txSeq) /\ At(S, f.txSeq) < Len(S.sent)
    /\ f.pdu = S.sent[At(S, f.txSeq) + 1]
    /\ Len(R.handed) <= At(S, f.txSeq) + WinSize
    /\ \A i \in 1 .. Len(R.rxList) : At(S, R.rxList[i].txSeq) < At(S, f.txSeq) + WinSize

\* The frames on the link from S to R: no data frame is a window or more behind one that
\* was put on the link before it.
InFlight(q, S, R) ==
    \A j \in 1 .. Len(q) : IsData(q[j]) =>
        /\ OnItsWay(q[j], S, R)
        /\ \A i \in 1 .. Len(q) :
             i < j /\ IsData(q[i]) => At(S, q[i].txSeq) < At(S, q[j].txSeq) + WinSize

\* The send window of S: the last frames sent, among them all that R has not handed over.
Unacked(S, R) ==
    /\ Len(S.txList) <= Len(S.sent) /\ Len(S.sent) - Len(S.txList) <= Len(R.handed)
    /\ \A i \in 1 .. Len(S.txList) :
         S.txList[i].frame.pdu = S.sent[Len(S.sent) - Len(S.txList) + i]

\* One direction of the channel while both ends exist.
Direction(S, R, q) == Received(S, R) /\ InFlight(q, S, R) /\ Unacked(S, R)

-----------------------------------------------------------------------------
(***************************************************************************)
(* A step of the sender.                                                   *)
(***************************************************************************)
\* The numbers from expectedAckSeq to nextTxSeq have the last places.
LEMMA AckPlaces ==
  ASSUME NEW r, Good(r), Len(r.txList) <= Len(r.sent), NEW k \in 0 .. Len(r.txList)
  PROVE  At(r, SeqAdd(r.expectedAckSeq, k)) = Len(r.sent) - Len(r.txList) + k
<1>1. PICK m \in Nat : m = Len(r.sent)
  BY Lengths DEF Good
<1>2. PICK v \in Nat : v = Len(r.txList)
  BY Lengths DEF Good
<1>3. PICK a \in SeqNum : a = r.expectedAckSeq
  BY DEF Good, Channel
<1>4. v <= WinSize /\ r.nextTxSeq = SeqAdd(a, v)
  BY <1>2, <1>3 DEF Good, TxWindow
<1>5. v <= m /\ k \in Nat /\ k <= v
  BY <1>1, <1>2
<1>6. /\ v \in 0 .. SeqMod /\ k \in 0 .. SeqMod /\ m - v \in Nat
      /\ SeqAdd(a, v) \in SeqNum
  <2>1. SeqAdd(a, v) \in SeqNum
    BY SeqAddType
  <2>2. v <= SeqMod /\ SeqMod \in Nat
    BY <1>4, WindowFacts, SeqModFacts
  <2> QED BY <2>1, <2>2, <1>5
<1>7. Place(a, a, m - v) = m - v
  BY <1>6, PlaceOfNext
<1>8. Place(a, SeqAdd(a, v), (m - v) + v) = m - v
  <2>1. (m - v) + v - SeqMod < Place(a, a, m - v)
    <3>1. v < SeqMod /\ SeqMod \in Nat
      BY <1>4, WindowFacts, SeqModFacts
    <3> QED BY <3>1, <1>7
  <2> QED BY <2>1, <1>6, <1>7, PlaceMove
<1>9. (m - v) + v = m
  OBVIOUS
<1>10. Place(a, SeqAdd(a, v), m) = m - v
  BY <1>8, <1>9
<1>11. Place(SeqAdd(a, k), SeqAdd(a, v), m) = m - v + k
  <2>1. Place(SeqAdd(a, k), SeqAdd(a, v), m) =
          IF Place(a, SeqAdd(a, v), m) + k <= m THEN Place(a, SeqAdd(a, v), m) + k
          ELSE Place(a, SeqAdd(a, v), m) + k - SeqMod
    BY <1>6, PlaceAdd
  <2>2. m - v + k <= m
    BY <1>5
  <2> QED BY <2>1, <2>2, <1>10
<1> QED BY <1>1, <1>2, <1>3, <1>4, <1>11 DEF At

\* The places of the frames in the send window are the last ones.
LEMMA TxPlaces ==
  ASSUME NEW r, Good(r), Len(r.txList) <= Len(r.sent), NEW i \in 1 .. Len(r.txList)
  PROVE  At(r, r.txList[i].frame.txSeq) = Len(r.sent) - Len(r.txList) + i - 1
<1>1. Len(r.txList) \in Nat /\ Len(r.sent) \in Nat
  BY Lengths DEF Good
<1>2. r.txList[i].frame.txSeq = SeqAdd(r.expectedAckSeq, i - 1)
  BY DEF Good, TxWindow
<1>3. PICK k \in 0 .. Len(r.txList) : k = i - 1
  BY <1>1
<1>4. At(r, SeqAdd(r.expectedAckSeq, k)) = Len(r.sent) - Len(r.txList) + k
  BY AckPlaces
<1>5. Len(r.sent) - Len(r.txList) + k = Len(r.sent) - Len(r.txList) + i - 1
  BY <1>1, <1>3
<1> QED BY <1>2, <1>3, <1>4, <1>5

\* Sending leaves in place what has arrived and what is at most a window older.
LEMMA SendsKeepsPlaces ==
  ASSUME NEW s, Good(s), NEW r, Good(r), Sends(s, r), NEW R, R \in Channel,
         Received(s, R), Unacked(s, R)
  PROVE  /\ Received(r, R)
         /\ Len(s.sent) <= Len(r.sent) /\ Len(r.txList) <= Len(r.sent)
         /\ \A q \in SeqNum :
              Len(R.handed) <= At(s, q) + WinSize => At(r, q) = At(s, q)
         /\ \A i \in 1 .. Len(R.rxList) : At(r, R.rxList[i].txSeq) = At(s, R.rxList[i].txSeq)
<1>1. PICK n \in Nat : n = Len(s.sent)
  BY Lengths DEF Good
<1>2. PICK m \in Nat : m = Len(r.sent)
  BY Lengths DEF Good
<1>3. PICK t \in Nat : t = Len(s.txList)
  BY Lengths DEF Good
<1>4. PICK v \in Nat : v = Len(r.txList)
  BY Lengths DEF Good
<1>5. PICK h \in Nat : h = Len(R.handed)
  BY Lengths
<1>6. PICK x \in SeqNum : x = s.nextTxSeq
  BY DEF Good, Channel
<1>7. /\ n <= m /\ v - t = m - n /\ r.nextTxSeq = SeqAdd(x, m - n)
      /\ \A i \in 1 .. n : r.sent[i] = s.sent[i]
  BY <1>1, <1>2, <1>3, <1>4, <1>6 DEF Sends, Grows
<1>8. v <= WinSize /\ t <= n /\ n - t <= h
  BY <1>1, <1>3, <1>4, <1>5 DEF Good, TxWindow, Unacked
<1>9. /\ Place(R.expectedTxSeq, x, n) = h /\ RxWindow(R, x, n)
      /\ \A i \in 1 .. h : R.handed[i].pdu = s.sent[i]
      /\ \A i \in 1 .. Len(R.rxList) : R.rxList[i].pdu = s.sent[Place(R.rxList[i].txSeq, x, n) + 1]
  BY <1>1, <1>5, <1>6 DEF Received, At
<1>10. /\ \A i \in 1 .. Len(R.rxList) : R.rxList[i].txSeq \in SeqNum
       /\ R.expectedTxSeq \in SeqNum /\ R.maxExpectedTxSeq \in SeqNum
  BY RxNumbers
<1>11. PICK c \in Nat : c = m - n
  BY <1>7
<1>12. c <= SeqMod /\ n + c = m /\ n + c - WinSize <= h /\ c \in 0 .. SeqMod
  <2>1. c <= WinSize /\ WinSize \in Nat /\ WinSize < SeqMod /\ SeqMod \in Nat
    BY <1>7, <1>8, <1>11, WindowFacts, SeqModFacts
  <2>2. n + c = m /\ m - WinSize <= h
    BY <1>7, <1>8, <1>11, WindowFacts
  <2> QED BY <2>1, <2>2
<1>13. r.nextTxSeq = SeqAdd(x, c)
  BY <1>7, <1>11
<1>14. /\ RxWindow(R, SeqAdd(x, c), n + c)
       /\ Place(R.expectedTxSeq, SeqAdd(x, c), n + c) = h
       /\ \A i \in 1 .. Len(R.rxList) :
            Place(R.rxList[i].txSeq, SeqAdd(x, c), n + c) = Place(R.rxList[i].txSeq, x, n)
  BY <1>9, <1>12, RxWindowMove
<1>15. \A q \in SeqNum : At(s, q) = Place(q, x, n) /\ At(r, q) = Place(q, SeqAdd(x, c), n + c)
  BY <1>1, <1>2, <1>6, <1>12, <1>13 DEF At
<1>16. ASSUME NEW q \in SeqNum, h <= At(s, q) + WinSize
       PROVE  At(r, q) = At(s, q)
  <2>1. PICK p \in Int : p = Place(q, x, n)
    BY PlaceType
  <2>2. n + c - SeqMod < p
    BY <1>12, <1>15, <1>16, <2>1, WindowFacts, ReliableAssumption, SeqModFacts
  <2>3. Place(q, SeqAdd(x, c), n + c) = Place(q, x, n)
    BY <1>12, <2>1, <2>2, PlaceMove
  <2> QED BY <2>3, <1>15
<1>17. ASSUME NEW i \in 1 .. Len(R.rxList)
       PROVE  /\ At(r, R.rxList[i].txSeq) = At(s, R.rxList[i].txSeq)
              /\ R.rxList[i].pdu = r.sent[At(r, R.rxList[i].txSeq) + 1]
  <2>1. At(r, R.rxList[i].txSeq) = At(s, R.rxList[i].txSeq)
    BY <1>10, <1>14, <1>15
  <2>2. PICK p \in Int : p = Place(R.rxList[i].txSeq, x, n)
    BY <1>10, PlaceType
  <2>3. PICK y \in Int : y = Place(R.maxExpectedTxSeq, x, n) /\ y <= n
    BY <1>10, PlaceType
  <2>4. h < p /\ p < y
    BY <1>9, <2>2, <2>3 DEF RxWindow
  <2>5. p + 1 \in 1 .. n
    BY <2>3, <2>4
  <2> QED BY <1>7, <1>9, <1>10, <1>15, <2>1, <2>2, <2>5
<1>18. h <= n
  <2>1. Place(R.expectedTxSeq, x, n) <= n
    BY <1>10, PlaceType
  <2> QED BY <2>1, <1>9
<1>19. \A i \in 1 .. h : R.handed[i].pdu = r.sent[i]
  BY <1>7, <1>9, <1>18
<1>20. Received(r, R)
  BY <1>2, <1>5, <1>10, <1>12, <1>13, <1>14, <1>15, <1>17, <1>19 DEF Received, At
<1>21. v <= m /\ n <= m
  BY <1>7, <1>8
<1> QED BY <1>1, <1>2, <1>4, <1>5, <1>16, <1>17, <1>20, <1>21

\* The frames of a queue that carry a sequence number.
LEMMA DataSeq ==
  ASSUME NEW q \in Seq(AckFrame \cup DataFrame), NEW j \in 1 .. Len(q), IsData(q[j])
  PROVE  q[j] \in DataFrame /\ q[j].txSeq \in SeqNum
<1>1. q[j] \in AckFrame \cup DataFrame
  BY ElementOfSeq
<1> QED BY <1>1 DEF IsData, AckFrame, DataFrame

\* Sending, with the frames it puts on the link, keeps the direction from the sender.
LEMMA SendsDirection ==
  ASSUME NEW s, Good(s), NEW r, Good(r), Sends(s, r), NEW R, R \in Channel,
         NEW q \in Seq(AckFrame \cup DataFrame), NEW z \in Seq(AckFrame \cup DataFrame),
         Direction(s, R, q), Len(q) <= Len(z),
         \A j \in 1 .. Len(q) : z[j] = q[j],
         \A j \in 1 .. Len(z) : j > Len(q) /\ IsData(z[j]) =>
           \E i \in 1 .. Len(r.txList) : SameFrame(z[j], r.txList[i].frame)
  PROVE  Direction(r, R, z)
<1>1. PICK n \in Nat : n = Len(s.sent)
  BY Lengths DEF Good
<1>2. PICK m \in Nat : m = Len(r.sent)
  BY Lengths DEF Good
<1>3. PICK t \in Nat : t = Len(s.txList)
  BY Lengths DEF Good
<1>4. PICK v \in Nat : v = Len(r.txList)
  BY Lengths DEF Good
<1>5. PICK h \in Nat : h = Len(R.handed)
  BY Lengths
<1>6. Received(s, R) /\ Unacked(s, R) /\ InFlight(q, s, R)
  BY DEF Direction
<1>7. /\ Received(r, R) /\ n <= m /\ v <= m
      /\ \A x \in SeqNum : h <= At(s, x) + WinSize => At(r, x) = At(s, x)
      /\ \A i \in 1 .. Len(R.rxList) : At(r, R.rxList[i].txSeq) = At(s, R.rxList[i].txSeq)
  BY <1>1, <1>2, <1>4, <1>5, <1>6, SendsKeepsPlaces
<1>8. /\ v - t = m - n /\ v <= WinSize /\ WinSize \in Nat /\ t <= n /\ n - t <= h
      /\ \A i \in 1 .. n : r.sent[i] = s.sent[i]
  BY <1>1, <1>2, <1>3, <1>4, <1>5, <1>6, WindowFacts DEF Sends, Grows, Good, TxWindow, Unacked
<1>9. \A x \in SeqNum : At(s, x) \in Int /\ At(r, x) \in Int /\ At(s, x) <= n
  BY <1>1, <1>2, PlaceType DEF At, Good, Channel
<1>10. /\ R.expectedTxSeq \in SeqNum /\ R.maxExpectedTxSeq \in SeqNum
       /\ \A i \in 1 .. Len(R.rxList) : R.rxList[i].txSeq \in SeqNum
  BY RxNumbers
<1>11. h <= n /\ \A i \in 1 .. Len(R.rxList) : At(s, R.rxList[i].txSeq) < n
  <2>1. At(s, R.expectedTxSeq) = h /\ RxWindow(R, s.nextTxSeq, Len(s.sent))
    BY <1>5, <1>6 DEF Received
  <2>2. h <= n
    BY <2>1, <1>9, <1>10
  <2>3. ASSUME NEW i \in 1 .. Len(R.rxList)
        PROVE  At(s, R.rxList[i].txSeq) < n
    <3>1. At(s, R.rxList[i].txSeq) < At(s, R.maxExpectedTxSeq)
      BY <2>1 DEF RxWindow, At
    <3>2. /\ At(s, R.rxList[i].txSeq) \in Int /\ At(s, R.maxExpectedTxSeq) \in Int
          /\ At(s, R.maxExpectedTxSeq) <= n
      BY <1>9, <1>10
    <3> QED BY <3>1, <3>2
  <2> QED BY <2>2, <2>3
\* The data frames that were on the link.
<1>12. ASSUME NEW j \in 1 .. Len(q), IsData(q[j])
       PROVE  /\ q[j].txSeq \in SeqNum /\ At(r, q[j].txSeq) = At(s, q[j].txSeq)
              /\ At(r, q[j].txSeq) < n
              /\ OnItsWay(q[j], r, R)
  <2>1. q[j].txSeq \in SeqNum /\ OnItsWay(q[j], s, R)
    BY <1>6, <1>12, DataSeq DEF InFlight
  <2>2. PICK p \in Int : p = At(s, q[j].txSeq)
    BY <2>1, <1>9
  <2>3. /\ 0 <= p /\ p < n /\ q[j].pdu = s.sent[p + 1] /\ h <= p + WinSize
        /\ \A i \in 1 .. Len(R.rxList) : At(s, R.rxList[i].txSeq) < p + WinSize
    BY <2>1, <2>2, <1>1, <1>5 DEF OnItsWay
  <2>4. At(r, q[j].txSeq) = p
    BY <2>1, <2>2, <2>3, <1>7
  <2>5. p + 1 \in 1 .. n /\ p < m
    BY <2>3, <1>7
  <2>6. q[j].pdu = r.sent[p + 1]
    BY <2>3, <2>5, <1>8
  <2>7. \A i \in 1 .. Len(R.rxList) : At(r, R.rxList[i].txSeq) < p + WinSize
    BY <2>3, <1>7
  <2>8. OnItsWay(q[j], r, R)
    BY <2>3, <2>4, <2>5, <2>6, <2>7, <1>2, <1>5 DEF OnItsWay
  <2> QED BY <2>1, <2>2, <2>3, <2>4, <2>8
\* The frames of the window.
<1>13. ASSUME NEW i \in 1 .. v
       PROVE  r.txList[i].frame.pdu = r.sent[m - v + i]
  <2>1. CASE i > t
    BY <2>1, <1>2, <1>3, <1>4 DEF Sends, Extends
  <2>2. CASE i <= t
    <3>1. i \in 1 .. t
      BY <2>2
    <3>2. SameFrame(r.txList[i].frame, s.txList[i].frame)
      BY <3>1, <1>3 DEF Sends, Extends
    <3>3. s.txList[i].frame.pdu = s.sent[n - t + i]
      BY <3>1, <1>1, <1>3, <1>6 DEF Unacked
    <3>4. n - t + i \in 1 .. n /\ n - t + i = m - v + i
      BY <3>1, <1>8
    <3> QED BY <3>2, <3>3, <3>4, <1>8 DEF SameFrame
  <2> QED BY <2>1, <2>2
<1>14. Unacked(r, R)
  <2>1. m - v <= h
    BY <1>8
  <2> QED BY <2>1, <1>2, <1>4, <1>5, <1>7, <1>13 DEF Unacked
\* The data frames that are put on the link.
<1>15. ASSUME NEW j \in 1 .. Len(z), j > Len(q), IsData(z[j])
       PROVE  /\ z[j].txSeq \in SeqNum /\ At(r, z[j].txSeq) < m
              /\ m - WinSize <= At(r, z[j].txSeq)
              /\ OnItsWay(z[j], r, R)
  <2>1. PICK i \in 1 .. v : SameFrame(z[j], r.txList[i].frame)
    BY <1>4, <1>15
  <2>2. At(r, r.txList[i].frame.txSeq) = m - v + i - 1
    BY <1>2, <1>4, <1>7, TxPlaces
  <2>3. z[j].txSeq \in SeqNum
    BY <1>15, DataSeq
  <2>4. PICK p \in Int : p = m - v + i - 1
    OBVIOUS
  <2>5. At(r, z[j].txSeq) = p
    BY <2>1, <2>2, <2>4 DEF SameFrame
  <2>6. 0 <= p /\ p < m /\ m - WinSize <= p /\ p + 1 = m - v + i
    <3>1. v <= m /\ v <= WinSize /\ WinSize \in Nat
      BY <1>7, <1>8
    <3> QED BY <2>4, <3>1
  <2>7. z[j].pdu = r.sent[p + 1]
    <3>1. z[j].pdu = r.txList[i].frame.pdu
      BY <2>1 DEF SameFrame
    <3>2. r.txList[i].frame.pdu = r.sent[m - v + i]
      BY <1>13
    <3> QED BY <2>6, <3>1, <3>2
  <2>8. h <= p + WinSize
    <3>1. h <= n /\ n <= m /\ WinSize \in Nat
      BY <1>7, <1>8, <1>11
    <3> QED BY <2>6, <3>1
  <2>9. ASSUME NEW k \in 1 .. Len(R.rxList)
        PROVE  At(r, R.rxList[k].txSeq) < p + WinSize
    <3>1. At(r, R.rxList[k].txSeq) < n /\ At(r, R.rxList[k].txSeq) \in Int
      BY <1>7, <1>9, <1>10, <1>11
    <3>2. n <= m /\ WinSize \in Nat
      BY <1>7, <1>8
    <3> QED BY <2>6, <3>1, <3>2
  <2>10. OnItsWay(z[j], r, R)
    BY <2>5, <2>6, <2>7, <2>8, <2>9, <1>2, <1>5 DEF OnItsWay
  <2> QED BY <2>3, <2>5, <2>6, <2>10
<1>16. Len(q) \in Nat /\ Len(z) \in Nat
  BY LenProperties
<1>17. ASSUME NEW j \in 1 .. Len(z), IsData(z[j])
       PROVE  /\ z[j].txSeq \in SeqNum /\ At(r, z[j].txSeq) < m /\ OnItsWay(z[j], r, R)
  <2>1. CASE j > Len(q)
    BY <2>1, <1>15, <1>17
  <2>2. CASE j <= Len(q)
    <3>1. j \in 1 .. Len(q) /\ z[j] = q[j]
      BY <2>2, <1>16
    <3>2. q[j].txSeq \in SeqNum /\ At(r, q[j].txSeq) < n /\ OnItsWay(q[j], r, R)
      BY <3>1, <1>12, <1>17
    <3>3. At(r, q[j].txSeq) < m
      BY <3>2, <1>7, <1>9
    <3> QED BY <3>1, <3>2, <3>3
  <2> QED BY <2>1, <2>2, <1>16
<1>18. ASSUME NEW j \in 1 .. Len(z), IsData(z[j]), NEW i \in 1 .. Len(z), i < j, IsData(z[i])
       PROVE  At(r, z[i].txSeq) < At(r, z[j].txSeq) + WinSize
  <2>1. CASE j > Len(q)
    <3>1. /\ z[i].txSeq \in SeqNum /\ At(r, z[i].txSeq) < m
          /\ z[j].txSeq \in SeqNum /\ m - WinSize <= At(r, z[j].txSeq)
      BY <2>1, <1>15, <1>17, <1>18
    <3>2. At(r, z[i].txSeq) \in Int /\ At(r, z[j].txSeq) \in Int /\ WinSize \in Nat
      BY <3>1, <1>8, <1>9
    <3> QED BY <3>1, <3>2
  <2>2. CASE j <= Len(q)
    <3>1. j \in 1 .. Len(q) /\ i \in 1 .. Len(q) /\ z[j] = q[j] /\ z[i] = q[i]
      BY <2>2, <1>16, <1>18
    <3>2. At(s, q[i].txSeq) < At(s, q[j].txSeq) + WinSize
      BY <3>1, <1>6, <1>18 DEF InFlight
    <3> QED BY <3>1, <3>2, <1>12, <1>18
  <2> QED BY <2>1, <2>2, <1>16
<1>19. InFlight(z, r, R)
  BY <1>17, <1>18 DEF InFlight
<1> QED BY <1>7, <1>14, <1>19 DEF Direction

\* Freeing frames that the receiver has handed over keeps the direction from the sender.
LEMMA SlidesDirection ==
  ASSUME NEW s, Good(s), NEW r, Good(r), NEW d \in Nat, Slides(s, r, d), NEW R, R \in Channel,
         NEW q, Direction(s, R, q),
         d # 0 => Len(s.sent) - Len(s.txList) + d <= Len(R.handed)
  PROVE  Direction(r, R, q)
<1>1. PICK n \in Nat : n = Len(s.sent) /\ n = Len(r.sent)
  BY Lengths DEF Good, Slides
<1>2. PICK t \in Nat : t = Len(s.txList)
  BY Lengths DEF Good
<1>3. PICK v \in Nat : v = Len(r.txList)
  BY Lengths DEF Good
<1>4. PICK h \in Nat : h = Len(R.handed)
  BY Lengths
<1>5. /\ r.nextTxSeq = s.nextTxSeq /\ r.sent = s.sent /\ v = t - d /\ d <= t
      /\ \A i \in 1 .. t - d : r.txList[i] = s.txList[d + i]
  BY <1>2, <1>3 DEF Slides
<1>6. /\ t <= n /\ n - t <= h
      /\ \A i \in 1 .. t : s.txList[i].frame.pdu = s.sent[n - t + i]
  BY <1>1, <1>2, <1>4 DEF Direction, Unacked
<1>a. d # 0 => n - t + d <= h
  BY <1>1, <1>2, <1>4
<1>7. v <= n /\ n - v <= h
  BY <1>a, <1>5, <1>6
<1>8. ASSUME NEW i \in 1 .. v
      PROVE  r.txList[i].frame.pdu = r.sent[n - v + i]
  <2>0. v = t - d
    BY <1>5
  <2>1. d + i \in 1 .. t /\ i \in 1 .. t - d /\ n - t + (d + i) = n - v + i
    BY <2>0
  <2> QED BY <2>1, <1>5, <1>6
<1>9. Unacked(r, R)
  BY <1>1, <1>3, <1>4, <1>7, <1>8 DEF Unacked
<1>10. Received(r, R) /\ InFlight(q, r, R)
  BY <1>5 DEF Direction, Received, InFlight, OnItsWay, At
<1> QED BY <1>9, <1>10 DEF Direction

\* Taking frames off the link, at either end of it, leaves the others as they were.
LEMMA InFlightPart ==
  ASSUME NEW q \in Seq(AckFrame \cup DataFrame), NEW z \in Seq(AckFrame \cup DataFrame),
         NEW m \in Nat, Len(z) + m <= Len(q), \A j \in 1 .. Len(z) : z[j] = q[j + m],
         NEW S, NEW R, InFlight(q, S, R)
  PROVE  InFlight(z, S, R)
<1>1. Len(q) \in Nat /\ Len(z) \in Nat
  BY LenProperties
<1>2. ASSUME NEW j \in 1 .. Len(z)
      PROVE  j + m \in 1 .. Len(q) /\ z[j] = q[j + m]
  BY <1>1
<1>3. ASSUME NEW j \in 1 .. Len(z), IsData(z[j])
      PROVE  OnItsWay(z[j], S, R)
  BY <1>2, <1>3 DEF InFlight
<1>4. ASSUME NEW j \in 1 .. Len(z), IsData(z[j]), NEW i \in 1 .. Len(z), i < j, IsData(z[i])
      PROVE  At(S, z[i].txSeq) < At(S, z[j].txSeq) + WinSize
  <2>1. i + m < j + m
    BY <1>4
  <2> QED BY <2>1, <1>2, <1>4 DEF InFlight
<1> QED BY <1>3, <1>4 DEF InFlight

-----------------------------------------------------------------------------
(***************************************************************************)
(* A step of the receiver.                                                 *)
(***************************************************************************)
\* A data frame that DTAP_CheckEnhanceFrame accepts is not behind what is expected, and it
\* is not in rxList.
LEMMA AcceptedPlace ==
  ASSUME NEW S, S \in Channel, NEW s, Good(s), NEW f \in DataFrame,
         Received(S, s), OnItsWay(f, S, s), CheckEnhanceFrameTxSeq(s, f.txSeq)
  PROVE  /\ Len(s.handed) <= At(S, f.txSeq)
         /\ ~HasRxSeq(s.rxList, f.txSeq)
<1>1. PICK n \in Nat : n = Len(S.sent)
  BY Lengths
<1>2. PICK h \in Nat : h = Len(s.handed)
  BY Lengths DEF Good
<1>3. PICK x \in SeqNum : x = S.nextTxSeq
  BY DEF Channel
<1>4. PICK g \in SeqNum : g = f.txSeq
  BY DEF DataFrame
<1>5. PICK y \in SeqNum : y = s.expectedTxSeq
  BY DEF Good, Channel
<1>6. PICK p \in Int : p = Place(g, x, n)
  BY PlaceType
<1>7. Place(y, x, n) = h /\ n - WinSize <= h
  BY <1>1, <1>2, <1>3, <1>5 DEF Received, At, RxWindow
<1>8. p < n /\ h <= p + WinSize
  BY <1>1, <1>2, <1>3, <1>4, <1>6 DEF OnItsWay, At
<1>9. p - h < SignMask /\ h - p < SignMask
  BY <1>7, <1>8, WindowFacts, SeqModFacts
<1>10. IsFrameSeqSmaller(g, y) <=> p < h
  BY <1>6, <1>7, <1>9, PlaceSmaller
<1>11. h <= p
  BY <1>4, <1>5, <1>10 DEF CheckEnhanceFrameTxSeq
<1>12. ~HasRxSeq(s.rxList, g)
  <2>1. CASE g = y
    <3> SUFFICES ASSUME HasRxSeq(s.rxList, g) PROVE FALSE
      OBVIOUS
    <3>1. PICK i \in 1 .. Len(s.rxList) : s.rxList[i].txSeq = y
      <4>1. DOMAIN s.rxList = 1 .. Len(s.rxList)
        BY LenProperties DEF Good, Channel
      <4> QED BY <4>1, <2>1 DEF HasRxSeq
    <3>2. Place(y, x, n) < Place(s.rxList[i].txSeq, x, n)
      BY <1>1, <1>3, <1>5 DEF Received, RxWindow
    <3> QED BY <3>1, <3>2, <1>7
  <2>2. CASE g # y
    BY <2>2, <1>4, <1>5 DEF CheckEnhanceFrameTxSeq
  <2> QED BY <2>1, <2>2
<1> QED BY <1>1, <1>2, <1>3, <1>4, <1>6, <1>11, <1>12 DEF At

\* DTAP_RecvEnhanceFrame on a frame it accepts keeps the direction to the receiver.
LEMMA ReceiveDirection ==
  ASSUME MaxFull = 0, NEW S, S \in Channel, NEW s, Good(s),
         NEW q \in Seq(AckFrame \cup DataFrame), q # << >>, Head(q) \in DataFrame,
         Received(S, s), InFlight(q, S, s),
         CheckEnhanceFrameTxSeq(s, Head(q).txSeq),
         NEW k \in HandOvers(OperateReorderTimer(SlideRxWindow(s, Head(q).txSeq, Head(q).pdu)))
  PROVE  LET u == RecvEnhanceFrameInner(
                    OperateReorderTimer(SlideRxWindow(s, Head(q).txSeq, Head(q).pdu)), k)
         IN  /\ Good(u) /\ SameTx(s, u)
             /\ Received(S, u) /\ InFlight(Tail(q), S, u)
             /\ Len(s.handed) <= Len(u.handed)
             /\ \A i \in 1 .. Len(s.handed) : u.handed[i] = s.handed[i]
<1>1. PICK n \in Nat : n = Len(S.sent)
  BY Lengths
<1>2. PICK h \in Nat : h = Len(s.handed)
  BY Lengths DEF Good
<1>3. PICK x \in SeqNum : x = S.nextTxSeq
  BY DEF Channel
<1>4. PICK g \in SeqNum : g = Head(q).txSeq
  BY DEF DataFrame
<1>5. PICK b \in Pdu : b = Head(q).pdu
  BY DEF DataFrame
<1>6. PICK p \in Int : p = At(S, g) /\ p = Place(g, x, n)
  BY <1>1, <1>3, PlaceType DEF At
<1>7. /\ Len(q) \in Nat /\ Len(q) >= 1 /\ Head(q) = q[1] /\ IsData(q[1])
      /\ Tail(q) \in Seq(AckFrame \cup DataFrame) /\ Len(Tail(q)) = Len(q) - 1
      /\ \A j \in 1 .. Len(q) - 1 : Tail(q)[j] = q[j + 1]
  BY HeadTailProperties, LenProperties, EmptySeq DEF IsData, DataFrame
<1>8. OnItsWay(Head(q), S, s)
  BY <1>7 DEF InFlight
<1>9. p < n /\ b = S.sent[p + 1] /\ h <= p /\ ~HasRxSeq(s.rxList, g)
  BY <1>1, <1>2, <1>4, <1>5, <1>6, <1>8, AcceptedPlace DEF OnItsWay
<1>10. RxWindow(s, x, n) /\ Place(s.expectedTxSeq, x, n) = h
  BY <1>1, <1>2, <1>3 DEF Received, At
<1> DEFINE u == RecvEnhanceFrameInner(OperateReorderTimer(SlideRxWindow(s, g, b)), k)
<1>11. k \in HandOvers(OperateReorderTimer(SlideRxWindow(s, g, b)))
  BY <1>4, <1>5
<1>12. /\ Good(u) /\ SameTx(s, u) /\ RxWindow(u, x, n) /\ k \in 0 .. WinSize
       /\ Place(u.expectedTxSeq, x, n) = h + k /\ Len(u.handed) = h + k
       /\ \A i \in 1 .. h : u.handed[i] = s.handed[i]
       /\ \A i \in 1 .. k :
            \/ p = h + i - 1 /\ u.handed[h + i].pdu = b
            \/ \E j \in 1 .. Len(s.rxList) :
                 /\ Place(s.rxList[j].txSeq, x, n) = h + i - 1
                 /\ u.handed[h + i].pdu = s.rxList[j].pdu
       /\ \A i \in 1 .. Len(u.rxList) :
            \/ u.rxList[i].txSeq = g /\ u.rxList[i].pdu = b
            \/ \E j \in 1 .. Len(s.rxList) : u.rxList[i] = s.rxList[j]
  <2>1. /\ Place(s.expectedTxSeq, x, n) <= Place(g, x, n) /\ Place(g, x, n) < n
    BY <1>6, <1>9, <1>10
  <2>2. /\ Good(u) /\ SameTx(s, u) /\ RxWindow(u, x, n) /\ k \in 0 .. WinSize
        /\ Place(u.expectedTxSeq, x, n) = Place(s.expectedTxSeq, x, n) + k
        /\ Len(u.handed) = Len(s.handed) + k
    BY <2>1, <1>9, <1>10, <1>11, ReceiveStep
  <2>3. \A i \in 1 .. Len(s.handed) : u.handed[i] = s.handed[i]
    BY <2>1, <1>9, <1>10, <1>11, ReceiveStep
  <2>4. \A i \in 1 .. k :
             \/ Place(g, x, n) = Place(s.expectedTxSeq, x, n) + i - 1
                /\ u.handed[Len(s.handed) + i].pdu = b
             \/ \E j \in 1 .. Len(s.rxList) :
                  /\ Place(s.rxList[j].txSeq, x, n) = Place(s.expectedTxSeq, x, n) + i - 1
                  /\ u.handed[Len(s.handed) + i].pdu = s.rxList[j].pdu
    <3>1. HandedByStep(s, u, k, g, b, x, n)
      BY <2>1, <1>9, <1>10, <1>11, ReceiveStep
    <3> HIDE DEF u
    <3> QED BY <3>1 DEF HandedByStep
  <2>5. \A i \in 1 .. Len(u.rxList) :
             \/ u.rxList[i].txSeq = g /\ u.rxList[i].pdu = b
             \/ \E j \in 1 .. Len(s.rxList) : u.rxList[i] = s.rxList[j]
    BY <2>1, <1>9, <1>10, <1>11, ReceiveStep
  <2> HIDE DEF u
  <2> QED BY <2>2, <2>3, <2>4, <2>5, <1>2, <1>6, <1>10
<1> HIDE DEF u
<1>13. /\ \A i \in 1 .. h : s.handed[i].pdu = S.sent[i]
       /\ \A j \in 1 .. Len(s.rxList) :
            s.rxList[j].pdu = S.sent[Place(s.rxList[j].txSeq, x, n) + 1]
  BY <1>1, <1>2, <1>3 DEF Received, At
<1>14. k \in Nat /\ WinSize \in Nat
  BY <1>12, WindowFacts
<1>15. ASSUME NEW i \in 1 .. h + k
       PROVE  u.handed[i].pdu = S.sent[i]
  <2>1. CASE i <= h
    BY <2>1, <1>12, <1>13
  <2>2. CASE i > h
    <3>1. PICK j \in 1 .. k : j = i - h
      BY <2>2, <1>14
    <3>2. h + j = i /\ h + j - 1 + 1 = i
      BY <3>1
    <3>3. CASE p = h + j - 1 /\ u.handed[h + j].pdu = b
      <4>1. p + 1 = i
        BY <3>2, <3>3
      <4> QED BY <4>1, <3>2, <3>3, <1>9
    <3>4. CASE \E l \in 1 .. Len(s.rxList) :
                 /\ Place(s.rxList[l].txSeq, x, n) = h + j - 1
                 /\ u.handed[h + j].pdu = s.rxList[l].pdu
      <4>1. PICK l \in 1 .. Len(s.rxList) :
                 /\ Place(s.rxList[l].txSeq, x, n) = h + j - 1
                 /\ u.handed[h + j].pdu = s.rxList[l].pdu
        BY <3>4
      <4>2. Place(s.rxList[l].txSeq, x, n) + 1 = i
        BY <4>1, <3>2
      <4>3. s.rxList[l].pdu = S.sent[i]
        BY <4>2, <1>13
      <4> QED BY <4>1, <4>3, <3>2
    <3> QED BY <3>3, <3>4, <1>12
  <2> QED BY <2>1, <2>2
<1>16. ASSUME NEW i \in 1 .. Len(u.rxList)
       PROVE  u.rxList[i].pdu = S.sent[At(S, u.rxList[i].txSeq) + 1]
  <2>1. CASE u.rxList[i].txSeq = g /\ u.rxList[i].pdu = b
    BY <2>1, <1>6, <1>9
  <2>2. CASE \E j \in 1 .. Len(s.rxList) : u.rxList[i] = s.rxList[j]
    BY <2>2, <1>1, <1>3, <1>13 DEF At
  <2> QED BY <2>1, <2>2, <1>12
<1>17. Received(S, u)
  BY <1>1, <1>3, <1>12, <1>15, <1>16 DEF Received, At
\* The frames behind it on the link.
<1>18. ASSUME NEW j \in 1 .. Len(Tail(q)), IsData(Tail(q)[j])
       PROVE  OnItsWay(Tail(q)[j], S, u)
  <2>1. j + 1 \in 1 .. Len(q) /\ 1 \in 1 .. Len(q) /\ 1 < j + 1 /\ Tail(q)[j] = q[j + 1]
    BY <1>7
  <2>2. OnItsWay(q[j + 1], S, s) /\ At(S, g) < At(S, q[j + 1].txSeq) + WinSize
    BY <2>1, <1>4, <1>7, <1>18 DEF InFlight
  <2>3. q[j + 1].txSeq \in SeqNum
    BY <2>1, <1>18, DataSeq
  <2>4. PICK y \in Int : y = At(S, q[j + 1].txSeq)
    BY <2>3, <1>1, <1>3, PlaceType DEF At
  <2>5. /\ 0 <= y /\ y < n /\ q[j + 1].pdu = S.sent[y + 1] /\ h <= y + WinSize
        /\ p < y + WinSize
        /\ \A i \in 1 .. Len(s.rxList) : Place(s.rxList[i].txSeq, x, n) < y + WinSize
    BY <2>2, <2>4, <1>1, <1>2, <1>3, <1>6 DEF OnItsWay, At
  <2>6. h + k <= y + WinSize
    <3>1. CASE k = 0
      BY <3>1, <2>5, <1>14
    <3>2. CASE k # 0
      <4>1. k \in 1 .. k
        BY <3>2, <1>14
      <4>2. h + k - 1 < y + WinSize
        BY <4>1, <2>5, <1>12
      <4> QED BY <4>2, <1>14
    <3> QED BY <3>1, <3>2
  <2>7. ASSUME NEW i \in 1 .. Len(u.rxList)
        PROVE  At(S, u.rxList[i].txSeq) < y + WinSize
    BY <2>5, <1>1, <1>3, <1>6, <1>12 DEF At
  <2> QED BY <2>1, <2>4, <2>5, <2>6, <2>7, <1>1, <1>12 DEF OnItsWay
<1>19. InFlight(Tail(q), S, u)
  <2>1. Len(Tail(q)) + 1 <= Len(q) /\ \A j \in 1 .. Len(Tail(q)) : Tail(q)[j] = q[j + 1]
    BY <1>7
  <2>2. InFlight(Tail(q), S, s)
    BY <2>1, <1>7, InFlightPart
  <2> QED BY <2>2, <1>18 DEF InFlight
<1>20. Len(s.handed) <= Len(u.handed)
  BY <1>2, <1>12, <1>14
<1> QED BY <1>2, <1>4, <1>5, <1>12, <1>17, <1>19, <1>20 DEF u

-----------------------------------------------------------------------------
(***************************************************************************)
(* The actions.                                                            *)
(***************************************************************************)
\* What a handler of e may receive into its window: nothing, or the frame at the head of
\* the link when DTAP_CheckEnhanceFrame accepts it.
Takes(e, s, r) ==
    \/ r = s
    \/ /\ net[e] # << >> /\ Head(net[e]) \in DataFrame /\ net'[e] = Tail(net[e])
       /\ CheckEnhanceFrameTxSeq(s, Head(net[e]).txSeq)
       /\ \E k \in HandOvers(OperateReorderTimer(
                               SlideRxWindow(s, Head(net[e]).txSeq, Head(net[e]).pdu))) :
            r = RecvEnhanceFrameInner(OperateReorderTimer(
                  SlideRxWindow(s, Head(net[e]).txSeq, Head(net[e]).pdu)), k)

\* The acknowledgement that a handler of e takes from the head of the link frees the first
\* d frames of the window of s.
Frees(e, s, d) ==
    d # 0 => /\ net[e] # << >> /\ net'[e] = Tail(net[e]) /\ d \in 1 .. Len(s.txList)
             /\ Head(net[e]).reqSeq = SeqAdd(s.expectedAckSeq, d)

\* The shape of every handler: it sends old frames again, frees acknowledged ones,
\* receives and sends.
Handles(e, s1, s2, s3, s, d) ==
    /\ alive[e] /\ Good(ch[e]) /\ Good(s1) /\ Good(s2) /\ Good(s3) /\ Good(s) /\ d \in Nat
    /\ Sends(ch[e], s1) /\ Len(s1.txList) = Len(ch[e].txList)
    /\ Slides(s1, s2, d) /\ Frees(e, s1, d)
    /\ Takes(e, s2, s3)
    /\ Sends(s3, s)
    /\ ch' = [ch EXCEPT ![e] = [s EXCEPT !.out = << >>]] /\ alive' = alive
    /\ net'[Peer(e)] = Transmit(net[Peer(e)], s.out)
    /\ net'[e] = net[e] \/ (net[e] # << >> /\ net'[e] = Tail(net[e]))

\* A channel that sends nothing, or frees nothing, stays as it is.
LEMMA Stays ==
  ASSUME NEW s, Good(s)
  PROVE  Sends(s, s) /\ Slides(s, s, 0)
<1>1. s \in Channel
  BY DEF Good
<1>2. Len(s.txList) \in Nat
  BY <1>1, Lengths
<1>3. SameRx(s, s)
  BY DEF SameRx
<1>4. Sends(s, s)
  BY <1>1, <1>3, SendsSame
<1>5. 0 <= Len(s.txList) /\ Len(s.txList) = Len(s.txList) - 0
  BY <1>2
<1>6. \A i \in 1 .. Len(s.txList) - 0 : 0 + i = i
  BY <1>2
<1>7. Slides(s, s, 0)
  BY <1>3, <1>5, <1>6 DEF Slides
<1> QED BY <1>4, <1>7

\* What Commit and Receive do to the link.
LEMMA LinkAfter ==
  ASSUME IInv, NEW e \in Endpoint, NEW s
  PROVE  /\ Commit(e, s) => /\ ch' = [ch EXCEPT ![e] = [s EXCEPT !.out = << >>]]
                            /\ net'[Peer(e)] = Transmit(net[Peer(e)], s.out)
                            /\ net'[e] = net[e]
         /\ Receive(e, s) => /\ ch' = [ch EXCEPT ![e] = [s EXCEPT !.out = << >>]]
                             /\ net'[Peer(e)] = Transmit(net[Peer(e)], s.out)
                             /\ net'[e] = Tail(net[e]) /\ alive' = alive
<1>1. DOMAIN net = Endpoint /\ Peer(e) \in Endpoint /\ Peer(e) # e
  BY PeerType DEF IInv, TypeOK
<1> QED BY <1>1 DEF Commit, Receive

\* Every handler has that shape.
LEMMA HandlerShape ==
  ASSUME IInv, NEW e \in Endpoint,
         \/ Send(e) \/ RecvAck(e) \/ RecvData(e) \/ RefuseData(e)
         \/ RspTimerExpireProc(e) \/ ReorderTimerExpireProc(e) \/ RetransTimerExpireProc(e)
  PROVE  \E s1, s2, s3, s, d : Handles(e, s1, s2, s3, s, d)
<1>1. CASE Send(e) \/ RspTimerExpireProc(e) \/ ReorderTimerExpireProc(e)
             \/ RetransTimerExpireProc(e)
  <2>1. alive[e] /\ alive' = alive /\ Good(ch[e])
    BY <1>1, SendingActions
  <2>2. PICK s : Good(s) /\ Sends(ch[e], s) /\ Commit(e, s)
    BY <1>1, SendingActions
  <2>3. Handles(e, ch[e], ch[e], ch[e], s, 0)
    BY <2>1, <2>2, Stays, LinkAfter DEF Handles, Takes, Frees
  <2> QED BY <2>3
<1>2. CASE RecvAck(e)
  <2>1. alive[e] /\ alive' = alive /\ Good(ch[e]) /\ net[e] # << >>
    BY <1>2, AckAction
  <2>2. PICK s1, s2, s : \E d \in Nat :
              /\ Good(s1) /\ Sends(ch[e], s1) /\ Len(s1.txList) = Len(ch[e].txList)
              /\ Good(s2) /\ Slides(s1, s2, d)
              /\ d # 0 => d \in 1 .. Len(s1.txList)
                          /\ Head(net[e]).reqSeq = SeqAdd(s1.expectedAckSeq, d)
              /\ Good(s) /\ Sends(s2, s) /\ Receive(e, s)
    BY <1>2, AckAction
  <2>3. PICK d \in Nat :
              /\ Good(s1) /\ Sends(ch[e], s1) /\ Len(s1.txList) = Len(ch[e].txList)
              /\ Good(s2) /\ Slides(s1, s2, d)
              /\ d # 0 => d \in 1 .. Len(s1.txList)
                          /\ Head(net[e]).reqSeq = SeqAdd(s1.expectedAckSeq, d)
              /\ Good(s) /\ Sends(s2, s) /\ Receive(e, s)
    BY <2>2
  <2>4. /\ ch' = [ch EXCEPT ![e] = [s EXCEPT !.out = << >>]]
        /\ net'[Peer(e)] = Transmit(net[Peer(e)], s.out) /\ net'[e] = Tail(net[e])
    BY <2>3, LinkAfter
  <2>5. Handles(e, s1, s2, s2, s, d)
    BY <2>1, <2>3, <2>4 DEF Handles, Takes, Frees
  <2> QED BY <2>5
<1>3. CASE RecvData(e)
  <2>1. /\ alive[e] /\ alive' = alive /\ Good(ch[e]) /\ net[e] # << >>
        /\ Head(net[e]) \in DataFrame
        /\ CheckEnhanceFrameTxSeq(ch[e], Head(net[e]).txSeq)
    BY <1>3, DataAction
  <2>2. PICK s1, s2, s, k : \E d \in Nat :
              /\ Good(s1) /\ Slides(ch[e], s1, d)
              /\ d # 0 => d \in 1 .. Len(ch[e].txList)
                          /\ Head(net[e]).reqSeq = SeqAdd(ch[e].expectedAckSeq, d)
              /\ s2 = RecvEnhanceFrameInner(OperateReorderTimer(
                        SlideRxWindow(s1, Head(net[e]).txSeq, Head(net[e]).pdu)), k)
              /\ k \in HandOvers(OperateReorderTimer(
                         SlideRxWindow(s1, Head(net[e]).txSeq, Head(net[e]).pdu)))
              /\ Good(s2) /\ Good(s) /\ Sends(s2, s) /\ Receive(e, s)
    BY <1>3, DataAction
  <2>3. PICK d \in Nat :
              /\ Good(s1) /\ Slides(ch[e], s1, d)
              /\ d # 0 => d \in 1 .. Len(ch[e].txList)
                          /\ Head(net[e]).reqSeq = SeqAdd(ch[e].expectedAckSeq, d)
              /\ s2 = RecvEnhanceFrameInner(OperateReorderTimer(
                        SlideRxWindow(s1, Head(net[e]).txSeq, Head(net[e]).pdu)), k)
              /\ k \in HandOvers(OperateReorderTimer(
                         SlideRxWindow(s1, Head(net[e]).txSeq, Head(net[e]).pdu)))
              /\ Good(s2) /\ Good(s) /\ Sends(s2, s) /\ Receive(e, s)
    BY <2>2
  <2>4. /\ ch' = [ch EXCEPT ![e] = [s EXCEPT !.out = << >>]]
        /\ net'[Peer(e)] = Transmit(net[Peer(e)], s.out) /\ net'[e] = Tail(net[e])
    BY <2>3, LinkAfter
  <2>5. CheckEnhanceFrameTxSeq(s1, Head(net[e]).txSeq)
    BY <2>1, <2>3, CheckSame DEF Slides
  <2>6. Takes(e, s1, s2)
    BY <2>1, <2>3, <2>4, <2>5, Zenon DEF Takes
  <2>7. Frees(e, ch[e], d)
    BY <2>1, <2>3, <2>4 DEF Frees
  <2>8. Handles(e, ch[e], s1, s2, s, d)
    BY <2>1, <2>3, <2>4, <2>6, <2>7, Stays, Zenon DEF Handles
  <2> QED BY <2>8
<1>4. CASE RefuseData(e)
  <2>1. alive[e] /\ net[e] # << >> /\ Receive(e, ch[e])
    BY <1>4 DEF RefuseData
  <2>2. Good(ch[e])
    BY <2>1 DEF IInv
  <2>3. Handles(e, ch[e], ch[e], ch[e], ch[e], 0)
    BY <2>1, <2>2, Stays, LinkAfter DEF Handles, Takes, Frees
  <2> QED BY <2>3
<1> QED BY <1>1, <1>2, <1>3, <1>4

-----------------------------------------------------------------------------
(***************************************************************************)
(* Both directions of the channel.                                         *)
(***************************************************************************)
\* One direction of the channel; live says that the sender's end still exists.
Flow(S, R, q, live) == Received(S, R) /\ InFlight(q, S, R) /\ (live => Unacked(S, R))

\* Between two steps nothing waits to be put on the link.
Flows ==
    \A e \in Endpoint :
        /\ ch[e].out = << >>
        /\ Flow(ch[e], ch[Peer(e)], net[Peer(e)], alive[e])

\* An acknowledgement that is about to free frames is of frames the peer has handed over.
AcksSafe ==
    \A e \in Endpoint : alive[e] /\ net[e] # << >> =>
        \A d \in 1 .. Len(ch[e].txList) :
            Head(net[e]).reqSeq = SeqAdd(ch[e].expectedAckSeq, d) =>
                Len(ch[e].sent) - Len(ch[e].txList) + d <= Len(ch[Peer(e)].handed)

\* x is the queue q followed by the frames a.
Joined(x, q, a) ==
    /\ x \in Seq(AckFrame \cup DataFrame) /\ Len(x) = Len(q) + Len(a)
    /\ \A j \in 1 .. Len(q) : x[j] = q[j]
    /\ \A j \in 1 .. Len(a) : x[Len(q) + j] = a[j]

\* Any two queues can be joined.
LEMMA CanJoin ==
  ASSUME NEW q \in Seq(AckFrame \cup DataFrame), NEW a \in Seq(AckFrame \cup DataFrame)
  PROVE  Joined(q \o a, q, a)
<1>1. /\ Len(q \o a) = Len(q) + Len(a)
      /\ \A i \in 1 .. Len(q) : (q \o a)[i] = q[i]
      /\ \A i \in 1 .. Len(a) : (q \o a)[Len(q) + i] = a[i]
      /\ q \o a \in Seq(AckFrame \cup DataFrame)
  BY ConcatElements
<1>2. PICK x : x = q \o a
  OBVIOUS
<1>3. /\ Len(x) = Len(q) + Len(a)
      /\ \A i \in 1 .. Len(q) : x[i] = q[i]
      /\ \A i \in 1 .. Len(a) : x[Len(q) + i] = a[i]
      /\ x \in Seq(AckFrame \cup DataFrame)
  BY <1>1, <1>2
<1>4. Joined(x, q, a)
  BY <1>3, Zenon DEF Joined
<1> QED BY <1>2, <1>4

\* The link takes the first of the joined frames.
LEMMA TransmitElements ==
  ASSUME NEW q \in Seq(AckFrame \cup DataFrame), NEW a \in Seq(AckFrame \cup DataFrame),
         NEW x \in Seq(AckFrame \cup DataFrame), Joined(x, q, a)
  PROVE  /\ Transmit(q, a) \in Seq(AckFrame \cup DataFrame)
         /\ Len(Transmit(q, a)) <= Len(x)
         /\ \A j \in 1 .. Len(Transmit(q, a)) : Transmit(q, a)[j] = x[j]
<1>a. Joined(q \o a, q, a) /\ q \o a \in Seq(AckFrame \cup DataFrame)
  BY CanJoin DEF Joined
<1>1. PICK y \in Seq(AckFrame \cup DataFrame) : y = q \o a /\ Joined(y, q, a)
  BY <1>a
<1>b. Joined(y, q, a) /\ y \in Seq(AckFrame \cup DataFrame)
  BY <1>1 DEF Joined
<1>2. Len(x) = Len(y) /\ \A j \in 1 .. Len(x) : x[j] = y[j]
  <2>1. Len(q) \in Nat /\ Len(a) \in Nat
    BY LenProperties
  <2>2. /\ Len(x) = Len(q) + Len(a)
        /\ \A j \in 1 .. Len(q) : x[j] = q[j]
        /\ \A j \in 1 .. Len(a) : x[Len(q) + j] = a[j]
    BY DEF Joined
  <2>3. /\ Len(y) = Len(q) + Len(a)
        /\ \A j \in 1 .. Len(q) : y[j] = q[j]
        /\ \A j \in 1 .. Len(a) : y[Len(q) + j] = a[j]
    BY <1>b DEF Joined
  <2>4. ASSUME NEW j \in 1 .. Len(x)
        PROVE  x[j] = y[j]
    <3>1. CASE j <= Len(q)
      <4>1. j \in 1 .. Len(q)
        BY <3>1, <2>1
      <4> QED BY <4>1, <2>2, <2>3
    <3>2. CASE j > Len(q)
      <4>1. PICK i \in 1 .. Len(a) : Len(q) + i = j
        <5>1. j - Len(q) \in 1 .. Len(a) /\ Len(q) + (j - Len(q)) = j
          BY <3>2, <2>1, <2>2
        <5> QED BY <5>1
      <4>2. x[Len(q) + i] = a[i] /\ y[Len(q) + i] = a[i]
        BY <2>2, <2>3
      <4> QED BY <4>1, <4>2
    <3> QED BY <3>1, <3>2, <2>1, <2>2
  <2> QED BY <2>2, <2>3, <2>4
<1>3. y \in Seq(AckFrame \cup DataFrame)
  BY <1>1 DEF Joined
<1>4. Len(y) \in Nat /\ NetCap \in Nat
  BY <1>3, LenProperties, ReliableAssumption
<1>5. PICK n \in 0 .. Len(y) : Transmit(q, a) = SubSeq(y, 1, n)
  <2>1. Transmit(q, a) = SubSeq(y, 1, IF Len(y) <= NetCap THEN Len(y) ELSE NetCap)
    BY <1>1 DEF Transmit
  <2>2. (IF Len(y) <= NetCap THEN Len(y) ELSE NetCap) \in 0 .. Len(y)
    BY <1>4
  <2> QED BY <2>1, <2>2
<1>6. /\ SubSeq(y, 1, n) \in Seq(AckFrame \cup DataFrame)
      /\ Len(SubSeq(y, 1, n)) = n /\ \A j \in 1 .. n : SubSeq(y, 1, n)[j] = y[j]
  <2>1. \A i \in 1 .. n : y[i] \in AckFrame \cup DataFrame
    BY <1>3, <1>4, ElementOfSeq
  <2>2. n \in Int /\ 1 \in Int /\ n - 1 + 1 = n /\ (IF 1 <= n THEN n - 1 + 1 ELSE 0) = n
    BY <1>4
  <2>3. \A i \in 1 .. n : 1 + i - 1 = i
    BY <1>4
  <2>4. /\ SubSeq(y, 1, n) \in Seq(AckFrame \cup DataFrame)
        /\ Len(SubSeq(y, 1, n)) = IF 1 <= n THEN n - 1 + 1 ELSE 0
        /\ \A i \in 1 .. n - 1 + 1 : SubSeq(y, 1, n)[i] = y[1 + i - 1]
    BY <2>1, <2>2, SubSeqProperties
  <2> QED BY <2>2, <2>3, <2>4
<1>7. PICK z : z = SubSeq(y, 1, n)
  OBVIOUS
<1>8. z \in Seq(AckFrame \cup DataFrame) /\ Len(z) = n /\ \A j \in 1 .. n : z[j] = y[j]
  BY <1>6, <1>7
<1>9. n <= Len(x) /\ \A j \in 1 .. n : z[j] = x[j]
  BY <1>2, <1>4, <1>8
<1> QED BY <1>5, <1>7, <1>8, <1>9

\* Sending keeps the direction from the sender, the frames that wait in out included.
LEMMA SendsOut ==
  ASSUME NEW s, Good(s), NEW r, Good(r), Sends(s, r), NEW R, R \in Channel,
         NEW q \in Seq(AckFrame \cup DataFrame),
         NEW x, Joined(x, q, s.out), NEW z, Joined(z, q, r.out), Direction(s, R, x)
  PROVE  Direction(r, R, z)
<1>1. PICK a \in Seq(AckFrame \cup DataFrame) : a = s.out
  BY DEF Good, Channel
<1>2. PICK b \in Seq(AckFrame \cup DataFrame) : b = r.out
  BY DEF Good, Channel
<1>3. /\ Len(a) <= Len(b) /\ \A j \in 1 .. Len(a) : b[j] = a[j]
      /\ \A j \in 1 .. Len(b) : j > Len(a) /\ IsData(b[j]) =>
           \E i \in 1 .. Len(r.txList) : SameFrame(b[j], r.txList[i].frame)
  BY <1>1, <1>2 DEF Sends, Emits
<1>4. /\ x \in Seq(AckFrame \cup DataFrame) /\ Len(x) = Len(q) + Len(a)
      /\ \A j \in 1 .. Len(q) : x[j] = q[j]
      /\ \A j \in 1 .. Len(a) : x[Len(q) + j] = a[j]
  BY <1>1 DEF Joined
<1>5. /\ z \in Seq(AckFrame \cup DataFrame) /\ Len(z) = Len(q) + Len(b)
      /\ \A j \in 1 .. Len(q) : z[j] = q[j]
      /\ \A j \in 1 .. Len(b) : z[Len(q) + j] = b[j]
  BY <1>2 DEF Joined
<1>7. Len(q) \in Nat /\ Len(a) \in Nat /\ Len(b) \in Nat /\ Len(x) = Len(q) + Len(a)
      /\ Len(z) = Len(q) + Len(b)
  BY <1>4, <1>5, LenProperties
<1>8. Len(x) <= Len(z)
  BY <1>3, <1>7
<1>9. ASSUME NEW j \in 1 .. Len(x)
      PROVE  z[j] = x[j]
  <2>1. CASE j <= Len(q)
    <3>1. j \in 1 .. Len(q)
      BY <2>1, <1>7
    <3> QED BY <3>1, <1>4, <1>5
  <2>2. CASE j > Len(q)
    <3>1. PICK i \in 1 .. Len(a) : Len(q) + i = j
      <4>1. j - Len(q) \in 1 .. Len(a) /\ Len(q) + (j - Len(q)) = j
        BY <2>2, <1>7
      <4> QED BY <4>1
    <3>2. i \in 1 .. Len(b)
      BY <1>3, <1>7
    <3>3. z[Len(q) + i] = b[i] /\ x[Len(q) + i] = a[i] /\ b[i] = a[i]
      BY <3>2, <1>3, <1>4, <1>5
    <3> QED BY <3>1, <3>3
  <2> QED BY <2>1, <2>2, <1>7
<1>10. ASSUME NEW j \in 1 .. Len(z), j > Len(x), IsData(z[j])
       PROVE  \E i \in 1 .. Len(r.txList) : SameFrame(z[j], r.txList[i].frame)
  <2>1. PICK i \in 1 .. Len(b) : Len(q) + i = j /\ i > Len(a)
    <3>1. j - Len(q) \in 1 .. Len(b) /\ Len(q) + (j - Len(q)) = j /\ j - Len(q) > Len(a)
      BY <1>7, <1>10
    <3> QED BY <3>1
  <2>2. z[j] = b[i]
    BY <2>1, <1>5
  <2> QED BY <2>1, <2>2, <1>3, <1>10
<1> QED BY <1>4, <1>5, <1>8, <1>9, <1>10, SendsDirection

\* Putting the frames on the link.
LEMMA TransmitDirection ==
  ASSUME NEW s, Good(s), NEW R, NEW q \in Seq(AckFrame \cup DataFrame),
         NEW x, Joined(x, q, s.out), Direction(s, R, x)
  PROVE  Direction([s EXCEPT !.out = << >>], R, Transmit(q, s.out))
<1>1. PICK a \in Seq(AckFrame \cup DataFrame) : a = s.out
  BY DEF Good, Channel
<1>2. PICK z : z = Transmit(q, a)
  OBVIOUS
<1>3. /\ z \in Seq(AckFrame \cup DataFrame) /\ Len(z) <= Len(x)
      /\ \A j \in 1 .. Len(z) : z[j] = x[j]
  <2>1. Joined(x, q, a) /\ x \in Seq(AckFrame \cup DataFrame)
    BY <1>1 DEF Joined
  <2>2. /\ Transmit(q, a) \in Seq(AckFrame \cup DataFrame)
        /\ Len(Transmit(q, a)) <= Len(x)
        /\ \A j \in 1 .. Len(Transmit(q, a)) : Transmit(q, a)[j] = x[j]
    BY <2>1, TransmitElements
  <2> QED BY <2>2, <1>2
<1>4. x \in Seq(AckFrame \cup DataFrame) /\ Len(x) \in Nat /\ Len(z) \in Nat
  BY <1>3, LenProperties DEF Joined
<1>7. Len(z) + 0 <= Len(x) /\ \A j \in 1 .. Len(z) : z[j] = x[j + 0]
  BY <1>3, <1>4
<1>8. InFlight(z, s, R)
  BY <1>3, <1>4, <1>7, InFlightPart DEF Direction
<1> DEFINE r == [s EXCEPT !.out = << >>]
<1>9. r.nextTxSeq = s.nextTxSeq /\ r.sent = s.sent /\ r.txList = s.txList
  BY DEF Good, Channel
<1> HIDE DEF r
<1>10. Direction(r, R, z)
  BY <1>8, <1>9 DEF Direction, Received, InFlight, OnItsWay, Unacked, At
<1> QED BY <1>1, <1>2, <1>10 DEF r

\* Steps of the receiver that do not receive.
LEMMA SameRxFlow ==
  ASSUME NEW R, NEW r, SameRx(R, r), NEW S, NEW q
  PROVE  /\ Received(S, R) => Received(S, r)
         /\ InFlight(q, S, R) => InFlight(q, S, r)
         /\ Unacked(S, R) => Unacked(S, r)
BY DEF SameRx, Received, RxWindow, InFlight, OnItsWay, Unacked, At

\* Losing or reading the frame at the head of a queue.
LEMMA InFlightTail ==
  ASSUME NEW q \in Seq(AckFrame \cup DataFrame), q # << >>, NEW S, NEW R, InFlight(q, S, R)
  PROVE  InFlight(Tail(q), S, R)
<1>1. /\ Len(q) \in Nat /\ Len(q) >= 1
      /\ Tail(q) \in Seq(AckFrame \cup DataFrame) /\ Len(Tail(q)) = Len(q) - 1
      /\ \A j \in 1 .. Len(q) - 1 : Tail(q)[j] = q[j + 1]
  BY HeadTailProperties, LenProperties, EmptySeq
<1>2. Len(Tail(q)) + 1 <= Len(q) /\ \A j \in 1 .. Len(Tail(q)) : Tail(q)[j] = q[j + 1]
  BY <1>1
<1> QED BY <1>1, <1>2, InFlightPart

\* What a handler receives keeps the direction to it and adds to what it has handed over.
LEMMA TakesFlow ==
  ASSUME MaxFull = 0, IInv, NEW e \in Endpoint, NEW S, S \in Channel, NEW s, Good(s), NEW r,
         Takes(e, s, r), Received(S, s), InFlight(net[e], S, s),
         net'[e] = net[e] \/ (net[e] # << >> /\ net'[e] = Tail(net[e]))
  PROVE  /\ SameTx(s, r) /\ Received(S, r) /\ InFlight(net'[e], S, r)
         /\ Len(s.handed) <= Len(r.handed)
         /\ \A i \in 1 .. Len(s.handed) : r.handed[i] = s.handed[i]
<1>1. net[e] \in Seq(AckFrame \cup DataFrame) /\ Len(s.handed) \in Nat
  BY Lengths DEF IInv, TypeOK, Good
<1>2. CASE r = s
  <2>1. InFlight(net'[e], S, s)
    BY <1>1, InFlightTail
  <2> QED BY <2>1, <1>1, <1>2 DEF SameTx
<1>3. CASE r # s
  <2> DEFINE f == Head(net[e])
  <2>1. /\ net[e] # << >> /\ f \in DataFrame /\ net'[e] = Tail(net[e])
        /\ CheckEnhanceFrameTxSeq(s, f.txSeq)
    BY <1>3 DEF Takes
  <2>2. PICK k \in HandOvers(OperateReorderTimer(SlideRxWindow(s, f.txSeq, f.pdu))) :
          r = RecvEnhanceFrameInner(OperateReorderTimer(SlideRxWindow(s, f.txSeq, f.pdu)), k)
    BY <1>3 DEF Takes
  <2>3. /\ SameTx(s, r) /\ Received(S, r) /\ InFlight(Tail(net[e]), S, r)
        /\ Len(s.handed) <= Len(r.handed)
        /\ \A i \in 1 .. Len(s.handed) : r.handed[i] = s.handed[i]
    BY <1>1, <2>1, <2>2, ReceiveDirection
  <2> QED BY <2>1, <2>3
<1> QED BY <1>2, <1>3

\* A handler keeps the direction to its endpoint.
LEMMA HandlerReceives ==
  ASSUME MaxFull = 0, IInv, Flows, NEW e \in Endpoint, NEW s1, NEW s2, NEW s3, NEW s, NEW d,
         Handles(e, s1, s2, s3, s, d)
  PROVE  /\ Received(ch[Peer(e)], s2) /\ Received(ch[Peer(e)], s3) /\ SameTx(s2, s3)
         /\ Received(ch[Peer(e)], s) /\ InFlight(net'[e], ch[Peer(e)], s)
         /\ Len(ch[e].handed) <= Len(s3.handed) /\ s.handed = s3.handed
         /\ \A i \in 1 .. Len(ch[e].handed) : s.handed[i] = ch[e].handed[i]
<1> DEFINE S == ch[Peer(e)]
<1>1. Peer(e) \in Endpoint /\ Peer(Peer(e)) = e /\ S \in Channel
  BY ReliableAssumption DEF Peer, Endpoint, IInv, TypeOK
<1>2. Received(S, ch[e]) /\ InFlight(net[e], S, ch[e])
  <2>1. Flow(ch[Peer(e)], ch[Peer(Peer(e))], net[Peer(Peer(e))], alive[Peer(e)])
    BY <1>1 DEF Flows
  <2> QED BY <2>1, <1>1 DEF Flow
<1> HIDE DEF S
<1>3. SameRx(ch[e], s1) /\ SameRx(s1, s2) /\ SameRx(s3, s)
  BY DEF Handles, Sends, Slides
<1>4. Received(S, s2) /\ InFlight(net[e], S, s2) /\ s2.handed = ch[e].handed
  <2>1. Received(S, s1) /\ InFlight(net[e], S, s1)
    BY <1>2, <1>3, SameRxFlow
  <2>2. Received(S, s2) /\ InFlight(net[e], S, s2)
    BY <2>1, <1>3, SameRxFlow
  <2> QED BY <2>2, <1>3 DEF SameRx
<1>5. /\ SameTx(s2, s3) /\ Received(S, s3) /\ InFlight(net'[e], S, s3)
      /\ Len(s2.handed) <= Len(s3.handed)
      /\ \A i \in 1 .. Len(s2.handed) : s3.handed[i] = s2.handed[i]
  BY <1>1, <1>4, TakesFlow DEF Handles
<1>6. Received(S, s) /\ InFlight(net'[e], S, s)
  BY <1>3, <1>5, SameRxFlow
<1>7. s.handed = s3.handed
  BY <1>3 DEF SameRx
<1> QED BY <1>4, <1>5, <1>6, <1>7 DEF S

\* A handler keeps the direction from its endpoint.
LEMMA HandlerSends ==
  ASSUME MaxFull = 0, IInv, Flows, AcksSafe, NEW e \in Endpoint,
         NEW s1, NEW s2, NEW s3, NEW s, NEW d, Handles(e, s1, s2, s3, s, d)
  PROVE  /\ Direction([s EXCEPT !.out = << >>], ch[Peer(e)], net'[Peer(e)])
         /\ Received(s3, ch[Peer(e)]) /\ Unacked(s3, ch[Peer(e)])
<1> DEFINE R == ch[Peer(e)]
           q == net[Peer(e)]
<1>1. R \in Channel /\ q \in Seq(AckFrame \cup DataFrame) /\ Len(q) \in Nat
  BY PeerType, LenProperties DEF IInv, TypeOK
<1>2. ch[e].out = << >> /\ Direction(ch[e], R, q)
  BY DEF Flows, Flow, Direction, Handles
<1>3. d # 0 => Len(s1.sent) - Len(s1.txList) + d <= Len(R.handed)
  <2>1. /\ Len(ch[e].sent) \in Nat /\ Len(ch[e].txList) \in Nat
        /\ Len(s1.sent) \in Nat /\ Len(s1.txList) \in Nat
    BY Lengths DEF Handles, Good
  <2>2. /\ Len(s1.txList) - Len(ch[e].txList) = Len(s1.sent) - Len(ch[e].sent)
        /\ s1.expectedAckSeq = ch[e].expectedAckSeq
        /\ Len(s1.txList) = Len(ch[e].txList)
    BY DEF Handles, Sends, Grows
  <2>3. Len(s1.sent) = Len(ch[e].sent)
    BY <2>1, <2>2
  <2>4. d # 0 => /\ net[e] # << >> /\ d \in 1 .. Len(ch[e].txList)
                 /\ Head(net[e]).reqSeq = SeqAdd(ch[e].expectedAckSeq, d)
    BY <2>2 DEF Handles, Frees
  <2>5. d # 0 => Len(ch[e].sent) - Len(ch[e].txList) + d <= Len(ch[Peer(e)].handed)
    BY <2>4 DEF AcksSafe, Handles
  <2> QED BY <2>2, <2>3, <2>5
<1>4. SameTx(s2, s3)
  BY HandlerReceives
<1>5. /\ Good(ch[e]) /\ Good(s1) /\ Good(s2) /\ Good(s3) /\ Good(s) /\ d \in Nat
      /\ Sends(ch[e], s1) /\ Slides(s1, s2, d) /\ Sends(s3, s)
      /\ net'[Peer(e)] = Transmit(q, s.out)
  BY DEF Handles
<1> HIDE DEF R, q
<1>6. Joined(q, q, ch[e].out)
  <2>1. Len(ch[e].out) = 0
    BY <1>2, EmptySeq
  <2>2. Len(q) = Len(q) + Len(ch[e].out) /\ 1 .. Len(ch[e].out) = {}
    BY <2>1, <1>1
  <2> QED BY <2>2, <1>1 DEF Joined
<1>7. PICK x1 : Joined(x1, q, s1.out)
  BY <1>1, <1>5, CanJoin DEF Good, Channel
<1>8. PICK x : Joined(x, q, s.out)
  BY <1>1, <1>5, CanJoin DEF Good, Channel
<1>9. Direction(s1, R, x1)
  BY <1>1, <1>2, <1>5, <1>6, <1>7, SendsOut
<1>10. Direction(s2, R, x1)
  BY <1>1, <1>3, <1>5, <1>9, SlidesDirection
<1>11. Direction(s3, R, x1)
  BY <1>4, <1>10 DEF SameTx, Direction, Received, InFlight, OnItsWay, Unacked, At
<1>12. Joined(x1, q, s3.out)
  BY <1>4, <1>5, <1>7 DEF SameTx, Slides
<1>13. Direction(s, R, x)
  BY <1>1, <1>5, <1>8, <1>11, <1>12, SendsOut
<1>14. Direction([s EXCEPT !.out = << >>], R, Transmit(q, s.out))
  BY <1>1, <1>5, <1>8, <1>13, TransmitDirection
<1>15. Received(s3, R) /\ Unacked(s3, R)
  BY <1>11 DEF Direction
<1> QED BY <1>5, <1>14, <1>15 DEF R

\* The steps of the two endpoints and the link.  The upper layer never has to make room.
LEMMA Steps ==
  ASSUME LocalInv, [Next]_vars
  PROVE  \/ \E e \in Endpoint : \E s1, s2, s3, s, d : Handles(e, s1, s2, s3, s, d)
         \/ \E e \in Endpoint : LoseFrame(e)
         \/ \E e \in Endpoint : ChannelDel(e)
         \/ UNCHANGED vars
<1>0. IInv
  BY DEF LocalInv
<1>1. ASSUME NEW e \in Endpoint
      PROVE  ~SetTransChannelStatus(e)
  <2>1. alive[e] => ~ch[e].isRxWindowFull
    BY DEF LocalInv, LocalRx, RxWindow
  <2> QED BY <2>1 DEF SetTransChannelStatus
<1>2. CASE Next
  <2>1. PICK e \in Endpoint :
          \/ Send(e) \/ RecvAck(e) \/ RecvData(e) \/ RefuseData(e) \/ LoseFrame(e)
          \/ RspTimerExpireProc(e) \/ ReorderTimerExpireProc(e) \/ RetransTimerExpireProc(e)
          \/ SetTransChannelStatus(e) \/ ChannelDel(e)
    BY <1>2 DEF Next
  <2>2. CASE \/ Send(e) \/ RecvAck(e) \/ RecvData(e) \/ RefuseData(e)
             \/ RspTimerExpireProc(e) \/ ReorderTimerExpireProc(e) \/ RetransTimerExpireProc(e)
    BY <2>2, <1>0, HandlerShape
  <2> QED BY <2>1, <2>2, <1>1
<1> QED BY <1>2

\* The channels and the link after a handler.
LEMMA HandlerState ==
  ASSUME IInv, NEW e \in Endpoint, NEW s1, NEW s2, NEW s3, NEW s, NEW d,
         Handles(e, s1, s2, s3, s, d)
  PROVE  /\ ch'[e] = [s EXCEPT !.out = << >>] /\ ch'[Peer(e)] = ch[Peer(e)]
         /\ alive' = alive /\ alive[e]
         /\ ch'[e].out = << >> /\ SameRx(s, ch'[e])
         /\ ch'[e].sent = s.sent /\ ch'[e].nextTxSeq = s.nextTxSeq
         /\ ch'[e].txList = s.txList /\ ch'[e].expectedAckSeq = s.expectedAckSeq
<1>1. Peer(e) \in Endpoint /\ Peer(e) # e /\ DOMAIN ch = Endpoint
  BY PeerType DEF IInv, TypeOK
<1> DEFINE r == [s EXCEPT !.out = << >>]
<1>2. ch' = [ch EXCEPT ![e] = r] /\ alive' = alive /\ alive[e] /\ s \in Channel
  BY DEF Handles, Good
<1>3. /\ r.out = << >> /\ SameRx(s, r) /\ r.sent = s.sent /\ r.nextTxSeq = s.nextTxSeq
      /\ r.txList = s.txList /\ r.expectedAckSeq = s.expectedAckSeq
  BY <1>2 DEF Channel, SameRx
<1> HIDE DEF r
<1>4. ch'[e] = r /\ ch'[Peer(e)] = ch[Peer(e)]
  BY <1>1, <1>2
<1> QED BY <1>2, <1>3, <1>4 DEF r

\* There are two endpoints.
LEMMA BothEnds ==
  ASSUME NEW e \in Endpoint, NEW x \in Endpoint
  PROVE  (x = e \/ x = Peer(e)) /\ Peer(Peer(e)) = e
BY ReliableAssumption DEF Peer, Endpoint

\* A handler keeps both directions.
LEMMA HandlerFlows ==
  ASSUME MaxFull = 0, IInv, Flows, AcksSafe, NEW e \in Endpoint,
         NEW s1, NEW s2, NEW s3, NEW s, NEW d, Handles(e, s1, s2, s3, s, d)
  PROVE  Flows'
<1> DEFINE p == Peer(e)
<1>1. p \in Endpoint /\ p # e /\ Peer(p) = e
  BY PeerType, BothEnds
<1>2. /\ ch'[e] = [s EXCEPT !.out = << >>] /\ ch'[p] = ch[p]
      /\ alive' = alive /\ ch'[e].out = << >> /\ SameRx(s, ch'[e])
  BY HandlerState
<1>3. ch[p].out = << >> /\ Flow(ch[p], ch[e], net[e], alive[p])
  BY <1>1 DEF Flows
<1>4. Direction(ch'[e], ch[p], net'[p])
  BY <1>2, HandlerSends
<1>5. /\ Received(ch[p], s) /\ InFlight(net'[e], ch[p], s)
      /\ Len(ch[e].handed) <= Len(s.handed)
  BY HandlerReceives
<1>6. /\ Received(ch[p], ch'[e]) /\ InFlight(net'[e], ch[p], ch'[e])
  BY <1>2, <1>5, SameRxFlow
<1>7. alive[p] => Unacked(ch[p], ch'[e])
  <2>1. alive[p] => Unacked(ch[p], ch[e])
    BY <1>3 DEF Flow
  <2>2. Len(ch[e].handed) <= Len(ch'[e].handed)
    BY <1>2, <1>5 DEF SameRx
  <2>3. /\ Len(ch[p].sent) \in Nat /\ Len(ch[p].txList) \in Nat /\ Len(ch[e].handed) \in Nat
        /\ Len(s.handed) \in Nat /\ ch'[e].handed = s.handed
    BY <1>1, <1>2, Lengths DEF IInv, TypeOK, Handles, Good, SameRx
  <2>4. PICK n \in Nat, t \in Nat, h \in Nat, g \in Nat :
          n = Len(ch[p].sent) /\ t = Len(ch[p].txList) /\ h = Len(ch[e].handed)
          /\ g = Len(ch'[e].handed) /\ h <= g
    BY <2>2, <2>3
  <2>5. ASSUME alive[p]
        PROVE  t <= n /\ n - t <= h
               /\ \A i \in 1 .. t : ch[p].txList[i].frame.pdu = ch[p].sent[n - t + i]
    BY <2>1, <2>4, <2>5 DEF Unacked
  <2>6. h <= g
    BY <2>4
  <2>7. ASSUME alive[p]
        PROVE  Unacked(ch[p], ch'[e])
    <3>a. t <= n /\ n - t <= h
          /\ \A i \in 1 .. t : ch[p].txList[i].frame.pdu = ch[p].sent[n - t + i]
      BY <2>5, <2>7
    <3>b. n - t <= g
      BY <2>6, <3>a
    <3>1. t <= n /\ n - t <= g
          /\ \A i \in 1 .. t : ch[p].txList[i].frame.pdu = ch[p].sent[n - t + i]
      BY <3>a, <3>b
    <3>2. n = Len(ch[p].sent) /\ t = Len(ch[p].txList) /\ g = Len(ch'[e].handed)
      BY <2>4
    <3> QED BY <3>1, <3>2, Zenon DEF Unacked
  <2> QED BY <2>7
<1> HIDE DEF p
<1>8. Flow(ch'[e], ch'[p], net'[p], alive'[e])
  BY <1>2, <1>4 DEF Flow, Direction
<1>9. Flow(ch'[p], ch'[e], net'[e], alive'[p])
  BY <1>2, <1>6, <1>7 DEF Flow
<1>10. ASSUME NEW x \in Endpoint
       PROVE  ch'[x].out = << >> /\ Flow(ch'[x], ch'[Peer(x)], net'[Peer(x)], alive'[x])
  <2>1. CASE x = e
    BY <2>1, <1>2, <1>8 DEF p
  <2>2. CASE x = p
    BY <2>2, <1>1, <1>2, <1>3, <1>9
  <2> QED BY <2>1, <2>2, BothEnds DEF p
<1> QED BY <1>10 DEF Flows, Flow, Received, InFlight, OnItsWay, Unacked, At, RxWindow, Place, Behind

\* Losing a frame keeps both directions.
LEMMA LoseFrameFlows ==
  ASSUME IInv, Flows, NEW e \in Endpoint, LoseFrame(e)
  PROVE  Flows'
<1>1. /\ net[e] # << >> /\ net' = [net EXCEPT ![e] = Tail(net[e])]
      /\ ch' = ch /\ alive' = alive /\ DOMAIN net = Endpoint
      /\ net[e] \in Seq(AckFrame \cup DataFrame)
  BY DEF LoseFrame, IInv, TypeOK
<1>2. ASSUME NEW x \in Endpoint
      PROVE  Flow(ch[x], ch[Peer(x)], net'[Peer(x)], alive[x])
  <2>1. Flow(ch[x], ch[Peer(x)], net[Peer(x)], alive[x]) /\ Peer(x) \in Endpoint
    BY PeerType DEF Flows
  <2>2. CASE Peer(x) = e
    <3>1. net'[Peer(x)] = Tail(net[e])
      BY <2>2, <1>1
    <3>2. InFlight(Tail(net[e]), ch[x], ch[Peer(x)])
      BY <2>1, <2>2, <1>1, InFlightTail DEF Flow
    <3> QED BY <2>1, <3>1, <3>2 DEF Flow
  <2>3. CASE Peer(x) # e
    BY <2>1, <2>3, <1>1
  <2> QED BY <2>2, <2>3
<1>3. ASSUME NEW x \in Endpoint
      PROVE  ch'[x].out = << >> /\ Flow(ch'[x], ch'[Peer(x)], net'[Peer(x)], alive'[x])
  BY <1>1, <1>2 DEF Flows
<1> QED BY <1>3 DEF Flows, Flow, Received, InFlight, OnItsWay, Unacked, At, RxWindow, Place, Behind

\* Releasing the channel at one end keeps both directions: the histories stay, and nothing
\* is said about the send window of an endpoint that is gone.
LEMMA ChannelDelFlows ==
  ASSUME IInv, Flows, NEW e \in Endpoint, ChannelDel(e)
  PROVE  Flows'
<1> DEFINE p == Peer(e)
<1>1. /\ p \in Endpoint /\ p # e /\ Peer(p) = e
      /\ ch \in [Endpoint -> Channel] /\ alive \in [Endpoint -> BOOLEAN]
  BY PeerType, BothEnds DEF IInv, TypeOK
<1>2. PICK r : ch' = [ch EXCEPT ![e] = r]
               /\ r = [ch[e] EXCEPT !.txList = << >>, !.rxList = << >>, !.cacheBuff = NoMsg,
                                    !.retransTimer = FALSE, !.reorderTimer = FALSE]
  BY <1>1 DEF ChannelDel
<1>3. /\ r.rxList = << >> /\ r.nextTxSeq = ch[e].nextTxSeq /\ r.sent = ch[e].sent
      /\ r.out = ch[e].out /\ r.handed = ch[e].handed
      /\ r.expectedTxSeq = ch[e].expectedTxSeq /\ r.bufferSeq = ch[e].bufferSeq
      /\ r.maxExpectedTxSeq = ch[e].maxExpectedTxSeq
      /\ r.isRxWindowFull = ch[e].isRxWindowFull
  BY <1>1, <1>2 DEF Channel
<1>4. ch'[e] = r /\ ch'[p] = ch[p] /\ net' = net /\ ~alive'[e] /\ alive'[p] = alive[p]
  BY <1>1, <1>2 DEF ChannelDel
<1>5. /\ ch[e].out = << >> /\ ch[p].out = << >>
      /\ Flow(ch[e], ch[p], net[p], alive[e]) /\ Flow(ch[p], ch[e], net[e], alive[p])
  BY <1>1 DEF Flows
<1> HIDE DEF p
<1>6. Len(r.rxList) = 0 /\ 1 .. Len(r.rxList) = {}
  BY <1>3, EmptySeq
<1>7. Received(r, ch[p]) /\ InFlight(net[p], r, ch[p])
  BY <1>3, <1>5 DEF Flow, Received, InFlight, OnItsWay, At
<1>8. Received(ch[p], r)
  BY <1>3, <1>5, <1>6 DEF Flow, Received, RxWindow, At
<1>9. InFlight(net[e], ch[p], r)
  BY <1>3, <1>5, <1>6 DEF Flow, InFlight, OnItsWay
<1>10. alive[p] => Unacked(ch[p], r)
  BY <1>3, <1>5 DEF Flow, Unacked
<1>11. ASSUME NEW x \in Endpoint
       PROVE  ch'[x].out = << >> /\ Flow(ch'[x], ch'[Peer(x)], net'[Peer(x)], alive'[x])
  <2>1. CASE x = e
    BY <2>1, <1>3, <1>4, <1>5, <1>7 DEF p, Flow
  <2>2. CASE x = p
    BY <2>2, <1>1, <1>4, <1>5, <1>8, <1>9, <1>10 DEF Flow
  <2> QED BY <2>1, <2>2, BothEnds DEF p
<1> QED BY <1>11 DEF Flows, Flow, Received, InFlight, OnItsWay, Unacked, At, RxWindow, Place, Behind

\* Every step keeps both directions, as long as the acknowledgements are safe.
LEMMA FlowsNext ==
  ASSUME MaxFull = 0, LocalInv, Flows, AcksSafe, [Next]_vars
  PROVE  Flows'
<1>0. IInv
  BY DEF LocalInv
<1>1. CASE \E e \in Endpoint : \E s1, s2, s3, s, d : Handles(e, s1, s2, s3, s, d)
  BY <1>0, <1>1, HandlerFlows
<1>2. CASE \E e \in Endpoint : LoseFrame(e)
  BY <1>0, <1>2, LoseFrameFlows
<1>3. CASE \E e \in Endpoint : ChannelDel(e)
  BY <1>0, <1>3, ChannelDelFlows
<1>4. CASE UNCHANGED vars
  <2>1. ch' = ch /\ net' = net /\ alive' = alive
    BY <1>4 DEF vars
  <2>2. ASSUME NEW x \in Endpoint
        PROVE  ch'[x].out = << >> /\ Flow(ch'[x], ch'[Peer(x)], net'[Peer(x)], alive'[x])
    BY <2>1 DEF Flows
  <2> QED BY <2>2 DEF Flows, Flow, Received, InFlight, OnItsWay, Unacked, At, RxWindow, Place, Behind
<1> QED BY <1>1, <1>2, <1>3, <1>4, Steps

\* Two channels that were just created.
LEMMA FlowsInit == Init => Flows
<1> SUFFICES ASSUME Init PROVE Flows
  OBVIOUS
<1>1. PICK s : s = InitChannel
  OBVIOUS
<1>2. /\ s.sent = << >> /\ s.txList = << >> /\ s.rxList = << >> /\ s.handed = << >>
      /\ s.out = << >> /\ s.nextTxSeq = 0 /\ s.expectedTxSeq = 0 /\ s.maxExpectedTxSeq = 0
      /\ s.bufferSeq = 0 /\ ~s.isRxWindowFull
  BY <1>1 DEF InitChannel
<1>3. /\ Len(s.sent) = 0 /\ Len(s.txList) = 0 /\ Len(s.rxList) = 0 /\ Len(s.handed) = 0
      /\ 1 .. 0 = {}
  BY <1>2, EmptySeq
<1>4. Place(0, 0, 0) = 0 /\ 0 - WinSize <= 0
  BY PlaceOfNext, WindowFacts
<1>5. Received(s, s)
  BY <1>2, <1>3, <1>4 DEF Received, RxWindow, At
<1>6. Unacked(s, s)
  BY <1>3 DEF Unacked
<1>7. InFlight(<< >>, s, s)
  <2>1. 1 .. Len(<< >>) = {}
    BY EmptySeq
  <2> QED BY <2>1 DEF InFlight
<1>8. ASSUME NEW e \in Endpoint
      PROVE  ch[e] = s /\ ch[Peer(e)] = s /\ net[Peer(e)] = << >>
  BY <1>1, PeerType DEF Init
<1> QED BY <1>2, <1>5, <1>6, <1>7, <1>8 DEF Flows, Flow

\* What is handed over is a prefix of what was sent.
LEMMA FlowsInOrder ==
  ASSUME IInv, Flows
  PROVE  InOrderDelivery
<1>1. ASSUME NEW e \in Endpoint
      PROVE  /\ Len(ch[e].handed) <= Len(ch[Peer(e)].sent)
             /\ \A i \in 1 .. Len(ch[e].handed) : ch[e].handed[i].pdu = ch[Peer(e)].sent[i]
  <2> DEFINE S == ch[Peer(e)]
  <2>1. Peer(e) \in Endpoint /\ Peer(Peer(e)) = e
    BY PeerType, BothEnds
  <2>2. Received(S, ch[e])
    BY <2>1 DEF Flows, Flow
  <2>3. S \in Channel /\ ch[e] \in Channel
    BY <2>1 DEF IInv, TypeOK
  <2> HIDE DEF S
  <2>4. Len(S.sent) \in Nat /\ S.nextTxSeq \in SeqNum /\ ch[e].expectedTxSeq \in SeqNum
    BY <2>3, Lengths DEF Channel
  <2>5. Place(ch[e].expectedTxSeq, S.nextTxSeq, Len(S.sent)) <= Len(S.sent)
    BY <2>4, PlaceType
  <2> QED BY <2>2, <2>5 DEF S, Received, At
<1> QED BY <1>1 DEF InOrderDelivery

\* What has left the send window was handed over.
LEMMA FlowsAcked ==
  ASSUME IInv, Flows
  PROVE  AckedWasReceived
<1>1. ASSUME NEW e \in Endpoint, alive[e]
      PROVE  Len(ch[e].sent) - Len(ch[e].txList)
               <= Len(ch[Peer(e)].handed) + Deliverable(ch[Peer(e)])
  <2>1. ch[e] \in Channel /\ ch[Peer(e)] \in Channel
    BY PeerType DEF IInv, TypeOK
  <2>2. PICK n \in Nat, t \in Nat, h \in Nat :
          n = Len(ch[e].sent) /\ t = Len(ch[e].txList) /\ h = Len(ch[Peer(e)].handed)
    BY <2>1, Lengths
  <2>3. PICK k \in Nat : k = Deliverable(ch[Peer(e)])
    BY <2>1, DeliverableType
  <2>4. n - t <= h
    BY <2>2, <1>1 DEF Flows, Flow, Unacked
  <2>5. n - t <= h + k
    BY <2>4
  <2> QED BY <2>2, <2>3, <2>5
<1> QED BY <1>1 DEF AckedWasReceived

-----------------------------------------------------------------------------
(***************************************************************************)
(* Traffic in both directions, before the sequence numbers wrap around.    *)
(***************************************************************************)
\* No endpoint has used up its sequence numbers.
FewFrames == \A e \in Endpoint : Len(ch[e].sent) < SeqMod

\* A frame acknowledges at most the first n frames.
AcksUpTo(f, n) == f.reqSeq # SEQ_INIT => f.reqSeq <= n

\* The next number of s is the number of frames it has sent, and no frame that s sends, or
\* may send again, acknowledges more than it has handed over.
Short(s) ==
    /\ s.nextTxSeq = Len(s.sent)
    /\ \A i \in 1 .. Len(s.txList) : AcksUpTo(s.txList[i].frame, Len(s.handed))
    /\ \A j \in 1 .. Len(s.out) : AcksUpTo(s.out[j], Len(s.handed))

\* The same of both endpoints and of the frames on the link.
ShortAcks ==
    \A e \in Endpoint :
        /\ Short(ch[e])
        /\ \A j \in 1 .. Len(net[Peer(e)]) : AcksUpTo(net[Peer(e)][j], Len(ch[e].handed))

\* Before the numbers wrap around, the places that matter are the numbers.
LEMMA ShortPlace ==
  ASSUME NEW S, S \in Channel, S.nextTxSeq = Len(S.sent), NEW q \in SeqNum, 0 <= At(S, q)
  PROVE  At(S, q) = q
<1>1. PICK n \in SeqNum : n = S.nextTxSeq
  BY DEF Channel
<1>2. At(S, q) = Place(q, n, n)
  BY <1>1 DEF At
<1>3. n \in Nat /\ q \in Nat /\ q < SeqMod /\ n < SeqMod /\ SeqMod \in Nat
  BY SeqModFacts
<1>4. Place(q, n, n) = q \/ Place(q, n, n) < 0
  BY <1>3 DEF Place, Behind
<1>5. PICK p \in Int : p = Place(q, n, n)
  BY <1>3, PlaceType
<1>6. 0 <= p /\ (p = q \/ p < 0)
  BY <1>2, <1>4, <1>5
<1>7. p = q
  BY <1>6
<1> QED BY <1>2, <1>5, <1>7

\* What a receiver expects is the number of frames it has handed over.
LEMMA ShortExpected ==
  ASSUME NEW S, S \in Channel, S.nextTxSeq = Len(S.sent), NEW R, R \in Channel, Received(S, R)
  PROVE  R.expectedTxSeq = Len(R.handed) /\ R.bufferSeq = Len(R.handed)
<1>1. At(S, R.expectedTxSeq) = Len(R.handed) /\ R.bufferSeq = R.expectedTxSeq
  BY DEF Received, RxWindow
<1>2. 0 <= Len(R.handed) /\ R.expectedTxSeq \in SeqNum
  BY Lengths DEF Channel
<1>3. At(S, R.expectedTxSeq) = R.expectedTxSeq
  BY <1>1, <1>2, ShortPlace
<1> QED BY <1>1, <1>3

\* Before the numbers wrap around, the acknowledgements are safe.
LEMMA ShortSafe ==
  ASSUME IInv, Flows, ShortAcks
  PROVE  AcksSafe
<1> SUFFICES ASSUME NEW e \in Endpoint, alive[e], net[e] # << >>,
                    NEW d \in 1 .. Len(ch[e].txList),
                    Head(net[e]).reqSeq = SeqAdd(ch[e].expectedAckSeq, d)
             PROVE  Len(ch[e].sent) - Len(ch[e].txList) + d <= Len(ch[Peer(e)].handed)
  BY DEF AcksSafe
<1>1. Good(ch[e]) /\ ch[e] \in Channel /\ ch[e].nextTxSeq = Len(ch[e].sent)
  BY DEF IInv, Good, ShortAcks, Short
<1>2. PICK n \in Nat, t \in Nat : n = Len(ch[e].sent) /\ t = Len(ch[e].txList) /\ t <= n
  BY <1>1, Lengths DEF Flows, Flow, Unacked
<1>3. d \in 0 .. Len(ch[e].txList) /\ d \in Nat
  BY <1>2
<1>4. PICK q \in SeqNum : q = SeqAdd(ch[e].expectedAckSeq, d)
  BY <1>1, <1>3, SeqAddType DEF Channel
<1>5. At(ch[e], q) = n - t + d
  BY <1>1, <1>2, <1>3, <1>4, AckPlaces
<1>6. n - t + d = q
  <2>0. t <= n /\ d \in Nat
    BY <1>2, <1>3
  <2>1. 0 <= n - t + d
    BY <2>0
  <2>2. 0 <= At(ch[e], q)
    BY <2>1, <1>5
  <2>3. At(ch[e], q) = q
    BY <2>2, <1>1, ShortPlace
  <2> QED BY <2>3, <1>5
<1>7. AcksUpTo(Head(net[e]), Len(ch[Peer(e)].handed))
  <2>1. Peer(e) \in Endpoint /\ Peer(Peer(e)) = e
    BY PeerType, BothEnds
  <2>2. net[e] \in Seq(AckFrame \cup DataFrame)
    BY DEF IInv, TypeOK
  <2>3. 1 \in 1 .. Len(net[e]) /\ Head(net[e]) = net[e][1]
    BY <2>2, EmptySeq, HeadTailProperties
  <2> QED BY <2>1, <2>3 DEF ShortAcks
<1>8. q <= Len(ch[Peer(e)].handed)
  BY <1>4, <1>7, WindowFacts DEF AcksUpTo
<1> QED BY <1>2, <1>6, <1>8

\* Sending acknowledges what s expects, which is what it has handed over.
LEMMA SendsShort ==
  ASSUME NEW s, Good(s), NEW r, Good(r), Sends(s, r), Short(s), Len(r.sent) < SeqMod,
         s.expectedTxSeq = Len(s.handed), s.bufferSeq = Len(s.handed)
  PROVE  Short(r)
<1>1. PICK h \in Nat : h = Len(s.handed) /\ h = Len(r.handed)
  BY Lengths DEF Good, Sends, SameRx
<1>2. r.nextTxSeq = Len(r.sent)
  <2>1. PICK n \in Nat, m \in Nat : n = Len(s.sent) /\ m = Len(r.sent)
    BY Lengths DEF Good
  <2>2. n <= m /\ r.nextTxSeq = SeqAdd(n, m - n) /\ m < SeqMod /\ n \in SeqNum
    BY <2>1 DEF Sends, Grows, Short, Good, Channel
  <2>3. PICK c \in Nat : c = m - n
    BY <2>2
  <2>4. c \in 0 .. SeqMod /\ n + c = m
    BY <2>2, <2>3, SeqModFacts
  <2>5. SeqAdd(n, c) = IF n + c < SeqMod THEN n + c ELSE n + c - SeqMod
    BY <2>2, <2>4, SeqAddValue
  <2> QED BY <2>1, <2>2, <2>3, <2>4, <2>5
<1>3. ASSUME NEW i \in 1 .. Len(r.txList)
      PROVE  AcksUpTo(r.txList[i].frame, h)
  <2>1. Len(s.txList) \in Nat /\ Len(r.txList) \in Nat
    BY Lengths DEF Good
  <2>2. CASE i > Len(s.txList)
    <3>1. r.txList[i].frame.reqSeq \in {SEQ_INIT, h}
      BY <2>2, <1>1 DEF Sends, Extends
    <3> QED BY <3>1 DEF AcksUpTo
  <2>3. CASE i <= Len(s.txList)
    <3>1. i \in 1 .. Len(s.txList)
      BY <2>1, <2>3
    <3>2. /\ r.txList[i].frame.reqSeq = s.txList[i].frame.reqSeq
          /\ AcksUpTo(s.txList[i].frame, h)
      BY <3>1, <1>1 DEF Sends, Extends, SameFrame, Short
    <3> QED BY <3>2 DEF AcksUpTo
  <2> QED BY <2>1, <2>2, <2>3
<1>4. ASSUME NEW j \in 1 .. Len(r.out)
      PROVE  AcksUpTo(r.out[j], h)
  <2>1. Len(s.out) \in Nat /\ Len(r.out) \in Nat
    BY Lengths DEF Good
  <2>2. CASE j > Len(s.out)
    <3>1. CASE \E i \in 1 .. Len(r.txList) : SameFrame(r.out[j], r.txList[i].frame)
      BY <3>1, <1>3 DEF SameFrame, AcksUpTo
    <3>2. CASE r.out[j].reqSeq \in {s.expectedTxSeq, s.bufferSeq}
      BY <3>2, <1>1 DEF AcksUpTo
    <3> QED BY <2>2, <3>1, <3>2 DEF Sends, Emits
  <2>3. CASE j <= Len(s.out)
    <3>1. j \in 1 .. Len(s.out)
      BY <2>1, <2>3
    <3> QED BY <3>1, <1>1 DEF Sends, Emits, Short
  <2> QED BY <2>1, <2>2, <2>3
<1> QED BY <1>1, <1>2, <1>3, <1>4 DEF Short

\* Freeing frames, and receiving, leave the rest of the send window alone.
LEMMA SlidesShort ==
  ASSUME NEW s, Good(s), NEW r, NEW d \in Nat, Slides(s, r, d), Short(s)
  PROVE  Short(r)
<1>1. /\ r.nextTxSeq = s.nextTxSeq /\ r.sent = s.sent /\ r.out = s.out /\ r.handed = s.handed
      /\ d <= Len(s.txList) /\ Len(r.txList) = Len(s.txList) - d
      /\ \A i \in 1 .. Len(s.txList) - d : r.txList[i] = s.txList[d + i]
  BY DEF Slides, SameRx
<1>2. Len(s.txList) \in Nat
  BY Lengths DEF Good
<1>3. ASSUME NEW i \in 1 .. Len(r.txList)
      PROVE  AcksUpTo(r.txList[i].frame, Len(s.handed))
  <2>1. i \in 1 .. Len(s.txList) - d /\ d + i \in 1 .. Len(s.txList)
    BY <1>1, <1>2
  <2> QED BY <2>1, <1>1 DEF Short
<1> QED BY <1>1, <1>3 DEF Short

\* A longer list of handed frames covers the same acknowledgements.
LEMMA MoreHanded ==
  ASSUME NEW f \in AckFrame \cup DataFrame, NEW g \in Nat, NEW h \in Nat, g <= h, AcksUpTo(f, g)
  PROVE  AcksUpTo(f, h)
<1>1. f.reqSeq \in SeqNum \cup {SEQ_INIT}
  BY DEF AckFrame, DataFrame
<1>2. CASE f.reqSeq = SEQ_INIT
  BY <1>2 DEF AcksUpTo
<1>3. CASE f.reqSeq # SEQ_INIT
  <2>1. f.reqSeq \in Nat /\ f.reqSeq <= g
    BY <1>1, <1>3, SeqModFacts DEF AcksUpTo
  <2> QED BY <2>1 DEF AcksUpTo
<1> QED BY <1>2, <1>3

\* Receiving leaves the send window alone.
LEMMA TakesShort ==
  ASSUME NEW s, Good(s), NEW r, Good(r), SameTx(s, r), Short(s), Len(s.handed) <= Len(r.handed)
  PROVE  Short(r)
<1>1. PICK g \in Nat, h \in Nat : g = Len(s.handed) /\ h = Len(r.handed) /\ g <= h
  BY Lengths DEF Good
<1>2. ASSUME NEW i \in 1 .. Len(s.txList)
      PROVE  AcksUpTo(s.txList[i].frame, h)
  <2>1. s.txList[i].frame \in AckFrame \cup DataFrame /\ AcksUpTo(s.txList[i].frame, g)
    BY <1>1, TxListElement DEF Short
  <2> QED BY <2>1, <1>1, MoreHanded
<1>3. ASSUME NEW j \in 1 .. Len(s.out)
      PROVE  AcksUpTo(s.out[j], h)
  <2>1. s.out[j] \in AckFrame \cup DataFrame /\ AcksUpTo(s.out[j], g)
    BY <1>1, ElementOfSeq DEF Short, Good, Channel
  <2> QED BY <2>1, <1>1, MoreHanded
<1> QED BY <1>1, <1>2, <1>3 DEF Short, SameTx

\* The frames on a link after a handler has put its own on it.
LEMMA TransmitKeeps ==
  ASSUME NEW q \in Seq(AckFrame \cup DataFrame), NEW a \in Seq(AckFrame \cup DataFrame),
         NEW j \in 1 .. Len(Transmit(q, a))
  PROVE  \/ \E i \in 1 .. Len(q) : Transmit(q, a)[j] = q[i]
         \/ \E i \in 1 .. Len(a) : Transmit(q, a)[j] = a[i]
<1>1. PICK x \in Seq(AckFrame \cup DataFrame) : Joined(x, q, a)
  BY CanJoin DEF Joined
<1>2. PICK z : z = Transmit(q, a)
  OBVIOUS
<1>3. /\ z \in Seq(AckFrame \cup DataFrame) /\ Len(z) <= Len(x)
      /\ \A i \in 1 .. Len(z) : z[i] = x[i]
  <2>1. /\ Transmit(q, a) \in Seq(AckFrame \cup DataFrame)
        /\ Len(Transmit(q, a)) <= Len(x)
        /\ \A i \in 1 .. Len(Transmit(q, a)) : Transmit(q, a)[i] = x[i]
    BY <1>1, TransmitElements
  <2> QED BY <2>1, <1>2
<1>4. j \in 1 .. Len(z)
  BY <1>2
<1>5. /\ Len(x) = Len(q) + Len(a)
      /\ \A i \in 1 .. Len(q) : x[i] = q[i]
      /\ \A i \in 1 .. Len(a) : x[Len(q) + i] = a[i]
  BY <1>1 DEF Joined
<1>6. Len(q) \in Nat /\ Len(a) \in Nat /\ Len(z) \in Nat
  BY <1>3, LenProperties
<1>7. CASE j <= Len(q)
  <2>1. j \in 1 .. Len(q)
    BY <1>4, <1>6, <1>7
  <2>2. z[j] = q[j]
    BY <2>1, <1>3, <1>4, <1>5
  <2> QED BY <2>1, <2>2, <1>2
<1>8. CASE j > Len(q)
  <2>1. PICK i \in 1 .. Len(a) : Len(q) + i = j
    <3>1. j - Len(q) \in 1 .. Len(a) /\ Len(q) + (j - Len(q)) = j
      BY <1>3, <1>4, <1>5, <1>6, <1>8
    <3> QED BY <3>1
  <2>2. x[Len(q) + i] = a[i]
    BY <1>5
  <2>3. z[j] = a[i]
    BY <2>1, <2>2, <1>3, <1>4
  <2> QED BY <2>3, <1>2
<1> QED BY <1>4, <1>6, <1>7, <1>8

\* The frames that are left on a link.
LEMMA TailKeeps ==
  ASSUME NEW q \in Seq(AckFrame \cup DataFrame), q # << >>, NEW j \in 1 .. Len(Tail(q))
  PROVE  j + 1 \in 1 .. Len(q) /\ Tail(q)[j] = q[j + 1]
<1>1. /\ Len(q) \in Nat /\ Len(q) >= 1 /\ Len(Tail(q)) = Len(q) - 1
      /\ \A i \in 1 .. Len(q) - 1 : Tail(q)[i] = q[i + 1]
  BY HeadTailProperties, LenProperties, EmptySeq
<1> QED BY <1>1

\* A handler that receives leaves the send window alone.
LEMMA TakesSameTx ==
  ASSUME NEW e \in Endpoint, NEW s, Good(s), NEW r, Takes(e, s, r)
  PROVE  SameTx(s, r)
<1>1. CASE r = s
  BY <1>1 DEF SameTx
<1>2. CASE r # s
  <2> DEFINE f == Head(net[e])
             u == OperateReorderTimer(SlideRxWindow(s, f.txSeq, f.pdu))
  <2>1. f \in DataFrame
    BY <1>2 DEF Takes
  <2>2. PICK k : r = RecvEnhanceFrameInner(u, k)
    BY <1>2 DEF Takes
  <2>3. f.txSeq \in SeqNum /\ f.pdu \in Pdu
    BY <2>1 DEF DataFrame
  <2>4. Good(u) /\ SameTx(s, u)
    BY <2>3, RecvFields
  <2> HIDE DEF u
  <2>5. SameTx(u, RecvEnhanceFrameInner(u, k))
    <3>1. u \in Channel
      BY <2>4 DEF Good
    <3> QED BY <3>1 DEF Channel, RecvEnhanceFrameInner, SameTx
  <2> QED BY <2>2, <2>4, <2>5 DEF SameTx
<1> QED BY <1>1, <1>2

\* What a handler sent is added to the history.
LEMMA HandlerSent ==
  ASSUME IInv, NEW e \in Endpoint, NEW s1, NEW s2, NEW s3, NEW s, NEW d,
         Handles(e, s1, s2, s3, s, d)
  PROVE  Len(ch[e].sent) <= Len(ch'[e].sent) /\ ch'[Peer(e)] = ch[Peer(e)]
<1>1. /\ ch'[e] = [s EXCEPT !.out = << >>]
      /\ ch'[e].sent = s.sent /\ ch'[Peer(e)] = ch[Peer(e)]
  BY HandlerState
<1>2. SameTx(s2, s3)
  BY TakesSameTx DEF Handles
<1>3. /\ Len(ch[e].sent) <= Len(s1.sent) /\ s2.sent = s1.sent
      /\ s3.sent = s2.sent /\ Len(s3.sent) <= Len(s.sent)
  BY <1>2 DEF Handles, Sends, Grows, Slides, SameTx
<1>4. PICK a \in Nat, b \in Nat, c \in Nat :
        a = Len(ch[e].sent) /\ b = Len(s1.sent) /\ c = Len(s.sent)
  BY Lengths DEF Handles, Good
<1>5. a <= c
  BY <1>3, <1>4
<1> QED BY <1>1, <1>4, <1>5

\* An endpoint that is gone keeps its histories and its numbers.
LEMMA ChannelDelState ==
  ASSUME IInv, NEW e \in Endpoint, ChannelDel(e)
  PROVE  /\ ch'[Peer(e)] = ch[Peer(e)] /\ net' = net
         /\ ch'[e].sent = ch[e].sent /\ ch'[e].handed = ch[e].handed
         /\ ch'[e].nextTxSeq = ch[e].nextTxSeq /\ ch'[e].out = ch[e].out
         /\ ch'[e].txList = << >>
         /\ ch'[e].expectedTxSeq = ch[e].expectedTxSeq /\ ch'[e].bufferSeq = ch[e].bufferSeq
         /\ ch'[e].cacheBuff = NoMsg /\ ch'[e].isTxWindowFull = ch[e].isTxWindowFull
         /\ alive'[Peer(e)] = alive[Peer(e)] /\ ~alive'[e] /\ offered' = offered
<1>1. /\ Peer(e) \in Endpoint /\ Peer(e) # e
      /\ ch \in [Endpoint -> Channel] /\ alive \in [Endpoint -> BOOLEAN]
  BY PeerType DEF IInv, TypeOK
<1>2. PICK r : ch' = [ch EXCEPT ![e] = r]
               /\ r = [ch[e] EXCEPT !.txList = << >>, !.rxList = << >>, !.cacheBuff = NoMsg,
                                    !.retransTimer = FALSE, !.reorderTimer = FALSE]
  BY <1>1 DEF ChannelDel
<1>3. /\ r.sent = ch[e].sent /\ r.handed = ch[e].handed /\ r.nextTxSeq = ch[e].nextTxSeq
      /\ r.out = ch[e].out /\ r.txList = << >>
      /\ r.expectedTxSeq = ch[e].expectedTxSeq /\ r.bufferSeq = ch[e].bufferSeq
      /\ r.cacheBuff = NoMsg /\ r.isTxWindowFull = ch[e].isTxWindowFull
  BY <1>1, <1>2 DEF Channel
<1>4. ch'[e] = r /\ ch'[Peer(e)] = ch[Peer(e)]
  BY <1>1, <1>2
<1>5. /\ net' = net /\ ~alive'[e] /\ alive'[Peer(e)] = alive[Peer(e)] /\ offered' = offered
  BY <1>1 DEF ChannelDel
<1> QED BY <1>3, <1>4, <1>5

\* The histories of what was sent only grow.
LEMMA SentGrows ==
  ASSUME LocalInv, [Next]_vars, NEW x \in Endpoint
  PROVE  Len(ch[x].sent) <= Len(ch'[x].sent)
<1>0. IInv /\ Len(ch[x].sent) \in Nat
  BY Lengths DEF LocalInv, IInv, TypeOK
<1>1. CASE \E e \in Endpoint : \E s1, s2, s3, s, d : Handles(e, s1, s2, s3, s, d)
  <2>1. PICK e \in Endpoint : \E s1, s2, s3, s, d : Handles(e, s1, s2, s3, s, d)
    BY <1>1
  <2>2. Len(ch[e].sent) <= Len(ch'[e].sent) /\ ch'[Peer(e)] = ch[Peer(e)]
    BY <2>1, <1>0, HandlerSent
  <2>3. x = e \/ x = Peer(e)
    BY BothEnds
  <2> QED BY <2>2, <2>3, <1>0
<1>2. CASE \E e \in Endpoint : LoseFrame(e)
  <2>1. ch' = ch
    BY <1>2 DEF LoseFrame
  <2> QED BY <2>1, <1>0
<1>3. CASE \E e \in Endpoint : ChannelDel(e)
  <2>1. PICK e \in Endpoint : ChannelDel(e)
    BY <1>3
  <2>2. ch'[e].sent = ch[e].sent /\ ch'[Peer(e)] = ch[Peer(e)]
    BY <2>1, <1>0, ChannelDelState
  <2>3. x = e \/ x = Peer(e)
    BY BothEnds
  <2> QED BY <2>2, <2>3, <1>0
<1>4. CASE UNCHANGED vars
  BY <1>0, <1>4 DEF vars
<1> QED BY <1>1, <1>2, <1>3, <1>4, Steps

\* A handler keeps the acknowledgements within what was handed over.
LEMMA HandlerShort ==
  ASSUME MaxFull = 0, IInv, Flows, ShortAcks, NEW e \in Endpoint,
         NEW s1, NEW s2, NEW s3, NEW s, NEW d, Handles(e, s1, s2, s3, s, d),
         Len(s.sent) < SeqMod
  PROVE  Short(s) /\ Len(ch[e].handed) <= Len(s.handed)
<1> DEFINE S == ch[Peer(e)]
<1>1. Peer(e) \in Endpoint /\ Peer(Peer(e)) = e /\ S \in Channel /\ S.nextTxSeq = Len(S.sent)
  BY PeerType, BothEnds DEF IInv, TypeOK, ShortAcks, Short
<1>2. Received(S, ch[e])
  <2>1. Flow(ch[Peer(e)], ch[Peer(Peer(e))], net[Peer(Peer(e))], alive[Peer(e)])
    BY <1>1 DEF Flows
  <2> QED BY <2>1, <1>1 DEF Flow
<1>3. /\ Good(ch[e]) /\ Good(s1) /\ Good(s2) /\ Good(s3) /\ Good(s) /\ d \in Nat
      /\ Sends(ch[e], s1) /\ Len(s1.txList) = Len(ch[e].txList)
      /\ Slides(s1, s2, d) /\ Sends(s3, s)
  BY DEF Handles
<1>4. /\ Received(S, s3) /\ SameTx(s2, s3)
      /\ Len(ch[e].handed) <= Len(s3.handed) /\ s.handed = s3.handed
  BY HandlerReceives
<1> HIDE DEF S
<1>5. Short(ch[e])
  BY DEF ShortAcks
<1>6. Len(s1.sent) < SeqMod /\ Len(s3.sent) < SeqMod
  <2>1. PICK n \in Nat, m \in Nat, t \in Nat, v \in Nat, z \in Nat :
          /\ n = Len(ch[e].sent) /\ m = Len(s1.sent) /\ t = Len(ch[e].txList)
          /\ v = Len(s1.txList) /\ z = Len(s.sent)
    BY <1>3, Lengths DEF Good
  <2>2. s3.sent = s1.sent /\ Len(s3.sent) <= Len(s.sent)
    BY <1>3, <1>4 DEF SameTx, Slides, Sends, Grows
  <2>3. m <= z /\ z < SeqMod /\ SeqMod \in Nat
    BY <2>1, <2>2, SeqModFacts
  <2>4. m < SeqMod
    BY <2>3
  <2> QED BY <2>1, <2>2, <2>4
<1>7. Short(s1)
  <2>1. ch[e].expectedTxSeq = Len(ch[e].handed) /\ ch[e].bufferSeq = Len(ch[e].handed)
    BY <1>1, <1>2, <1>3, ShortExpected DEF Good
  <2> QED BY <2>1, <1>3, <1>5, <1>6, SendsShort
<1>8. Short(s2)
  BY <1>3, <1>7, SlidesShort
<1>9. Short(s3)
  <2>1. s2.handed = ch[e].handed
    BY <1>3 DEF Slides, Sends, SameRx
  <2>2. Len(s2.handed) <= Len(s3.handed)
    BY <2>1, <1>4
  <2> QED BY <2>2, <1>3, <1>4, <1>8, TakesShort
<1>10. Short(s)
  <2>1. s3.expectedTxSeq = Len(s3.handed) /\ s3.bufferSeq = Len(s3.handed)
    BY <1>1, <1>3, <1>4, ShortExpected DEF Good
  <2> QED BY <2>1, <1>3, <1>9, SendsShort
<1> QED BY <1>4, <1>10

\* A handler keeps the acknowledgements within what was handed over.
LEMMA HandlerShortAcks ==
  ASSUME MaxFull = 0, IInv, IInv', Flows, ShortAcks, NEW e \in Endpoint,
         NEW s1, NEW s2, NEW s3, NEW s, NEW d, Handles(e, s1, s2, s3, s, d),
         Len(ch'[e].sent) < SeqMod
  PROVE  ShortAcks'
<1> DEFINE p == Peer(e)
<1>1. p \in Endpoint /\ p # e /\ Peer(p) = e
  BY PeerType, BothEnds
<1>2. /\ ch'[e] = [s EXCEPT !.out = << >>]
      /\ ch'[p] = ch[p] /\ ch'[e].out = << >> /\ SameRx(s, ch'[e])
      /\ ch'[e].sent = s.sent /\ ch'[e].nextTxSeq = s.nextTxSeq /\ ch'[e].txList = s.txList
  BY HandlerState
<1>3. Short(s) /\ Len(ch[e].handed) <= Len(s.handed)
  BY <1>2, HandlerShort
<1>4. ch'[e].handed = s.handed
  BY <1>2 DEF SameRx
<1>5. PICK g \in Nat, h \in Nat : g = Len(ch[e].handed) /\ h = Len(s.handed) /\ g <= h
  BY <1>3, Lengths DEF Handles, Good
<1>6. /\ net[e] \in Seq(AckFrame \cup DataFrame) /\ net[p] \in Seq(AckFrame \cup DataFrame)
      /\ s.out \in Seq(AckFrame \cup DataFrame)
  BY <1>1 DEF IInv, TypeOK, Handles, Good, Channel
<1>7. /\ net'[p] = Transmit(net[p], s.out)
      /\ net'[e] = net[e] \/ (net[e] # << >> /\ net'[e] = Tail(net[e]))
  BY DEF Handles
<1>8. /\ \A j \in 1 .. Len(net[p]) : AcksUpTo(net[p][j], g)
      /\ \A j \in 1 .. Len(net[e]) : AcksUpTo(net[e][j], Len(ch[p].handed))
      /\ Short(ch[p])
  <2>1. \A j \in 1 .. Len(net[Peer(e)]) : AcksUpTo(net[Peer(e)][j], Len(ch[e].handed))
    BY DEF ShortAcks
  <2>2. \A j \in 1 .. Len(net[Peer(p)]) : AcksUpTo(net[Peer(p)][j], Len(ch[p].handed))
    BY <1>1 DEF ShortAcks
  <2>3. Short(ch[p])
    BY <1>1 DEF ShortAcks
  <2> QED BY <2>1, <2>2, <2>3, <1>1, <1>5
<1> HIDE DEF p
<1>9. ASSUME NEW j \in 1 .. Len(net'[p])
      PROVE  AcksUpTo(net'[p][j], h)
  <2>1. j \in 1 .. Len(Transmit(net[p], s.out))
    BY <1>7
  <2>2. \/ \E i \in 1 .. Len(net[p]) : Transmit(net[p], s.out)[j] = net[p][i]
        \/ \E i \in 1 .. Len(s.out) : Transmit(net[p], s.out)[j] = s.out[i]
    BY <2>1, <1>6, TransmitKeeps
  <2>3. ASSUME NEW i \in 1 .. Len(net[p])
        PROVE  AcksUpTo(net[p][i], h)
    <3>1. net[p][i] \in AckFrame \cup DataFrame
      BY <1>6, ElementOfSeq
    <3>2. AcksUpTo(net[p][i], g)
      BY <1>8
    <3> QED BY <3>1, <3>2, <1>5, MoreHanded
  <2>4. \A i \in 1 .. Len(s.out) : AcksUpTo(s.out[i], h)
    BY <1>3, <1>5 DEF Short
  <2> QED BY <2>2, <2>3, <2>4, <1>7
<1>10. ASSUME NEW j \in 1 .. Len(net'[e])
       PROVE  AcksUpTo(net'[e][j], Len(ch[p].handed))
  <2>1. CASE net'[e] = net[e]
    BY <2>1, <1>8
  <2>2. CASE net[e] # << >> /\ net'[e] = Tail(net[e])
    <3>1. j + 1 \in 1 .. Len(net[e]) /\ Tail(net[e])[j] = net[e][j + 1]
      BY <2>2, <1>6, TailKeeps
    <3> QED BY <3>1, <2>2, <1>8
  <2> QED BY <2>1, <2>2, <1>7
<1>11. Short(ch'[e])
  <2>1. 1 .. Len(ch'[e].out) = {}
    BY <1>2, EmptySeq
  <2> QED BY <2>1, <1>2, <1>3, <1>4 DEF Short
<1>12. ASSUME NEW x \in Endpoint
       PROVE  /\ Short(ch'[x])
              /\ \A j \in 1 .. Len(net'[Peer(x)]) : AcksUpTo(net'[Peer(x)][j], Len(ch'[x].handed))
  <2>1. CASE x = e
    <3>1. Len(ch'[x].handed) = h /\ Peer(x) = p
      BY <2>1, <1>4, <1>5 DEF p
    <3> QED BY <3>1, <2>1, <1>9, <1>11
  <2>2. CASE x = p
    <3>1. Len(ch'[x].handed) = Len(ch[p].handed) /\ Peer(x) = e /\ Short(ch'[x])
      BY <2>2, <1>1, <1>2, <1>8
    <3> QED BY <3>1, <1>10
  <2> QED BY <2>1, <2>2, BothEnds DEF p
<1> QED BY <1>12 DEF ShortAcks, Short, AcksUpTo

\* Every step does.
LEMMA ShortNext ==
  ASSUME MaxFull = 0, LocalInv, IInv', Flows, ShortAcks, FewFrames', [Next]_vars
  PROVE  ShortAcks'
<1>0. IInv
  BY DEF LocalInv
<1>1. CASE \E e \in Endpoint : \E s1, s2, s3, s, d : Handles(e, s1, s2, s3, s, d)
  <2>1. \A e \in Endpoint : Len(ch'[e].sent) < SeqMod
    BY DEF FewFrames
  <2> QED BY <1>0, <1>1, <2>1, HandlerShortAcks
<1>2. CASE \E e \in Endpoint : LoseFrame(e)
  <2>1. PICK e \in Endpoint : LoseFrame(e)
    BY <1>2
  <2>2. /\ net[e] # << >> /\ net' = [net EXCEPT ![e] = Tail(net[e])]
        /\ ch' = ch /\ DOMAIN net = Endpoint
        /\ net[e] \in Seq(AckFrame \cup DataFrame)
    BY <2>1, <1>0 DEF LoseFrame, IInv, TypeOK
  <2>3. ASSUME NEW x \in Endpoint
        PROVE  /\ Short(ch[x])
               /\ \A j \in 1 .. Len(net'[Peer(x)]) : AcksUpTo(net'[Peer(x)][j], Len(ch[x].handed))
    <3>1. /\ Short(ch[x]) /\ Peer(x) \in Endpoint
          /\ \A j \in 1 .. Len(net[Peer(x)]) : AcksUpTo(net[Peer(x)][j], Len(ch[x].handed))
      BY PeerType DEF ShortAcks
    <3>2. CASE Peer(x) = e
      <4>1. net'[Peer(x)] = Tail(net[e])
        BY <3>2, <2>2
      <4>2. ASSUME NEW j \in 1 .. Len(Tail(net[e]))
            PROVE  AcksUpTo(Tail(net[e])[j], Len(ch[x].handed))
        <5>1. j + 1 \in 1 .. Len(net[e]) /\ Tail(net[e])[j] = net[e][j + 1]
          BY <2>2, TailKeeps
        <5> QED BY <5>1, <3>1, <3>2
      <4> QED BY <3>1, <4>1, <4>2
    <3>3. CASE Peer(x) # e
      <4>1. net'[Peer(x)] = net[Peer(x)]
        BY <3>1, <3>3, <2>2
      <4> QED BY <4>1, <3>1
    <3> QED BY <3>2, <3>3
  <2> QED BY <2>2, <2>3 DEF ShortAcks, Short, AcksUpTo
<1>3. CASE \E e \in Endpoint : ChannelDel(e)
  <2>1. PICK e \in Endpoint : ChannelDel(e)
    BY <1>3
  <2>2. /\ ch'[Peer(e)] = ch[Peer(e)] /\ net' = net
        /\ ch'[e].sent = ch[e].sent /\ ch'[e].handed = ch[e].handed
        /\ ch'[e].nextTxSeq = ch[e].nextTxSeq /\ ch'[e].out = ch[e].out
        /\ ch'[e].txList = << >>
    BY <2>1, <1>0, ChannelDelState
  <2>3. ASSUME NEW x \in Endpoint
        PROVE  /\ Short(ch'[x])
               /\ \A j \in 1 .. Len(net'[Peer(x)]) : AcksUpTo(net'[Peer(x)][j], Len(ch'[x].handed))
    <3>1. /\ Short(ch[x])
          /\ \A j \in 1 .. Len(net[Peer(x)]) : AcksUpTo(net[Peer(x)][j], Len(ch[x].handed))
      BY DEF ShortAcks
    <3>2. CASE x = e
      <4>1. 1 .. Len(ch'[e].txList) = {}
        BY <2>2, EmptySeq
      <4> QED BY <4>1, <3>1, <3>2, <2>2 DEF Short
    <3>3. CASE x = Peer(e)
      <4>1. ch'[x] = ch[x]
        BY <3>3, <2>2
      <4> QED BY <4>1, <3>1, <2>2
    <3> QED BY <3>2, <3>3, BothEnds
  <2> QED BY <2>3 DEF ShortAcks, Short, AcksUpTo
<1>4. CASE UNCHANGED vars
  <2>1. ch' = ch /\ net' = net
    BY <1>4 DEF vars
  <2> QED BY <2>1 DEF ShortAcks, Short, AcksUpTo
<1> QED BY <1>1, <1>2, <1>3, <1>4, Steps

\* Nothing was sent yet.
LEMMA ShortInit == Init => ShortAcks
<1> SUFFICES ASSUME Init PROVE ShortAcks
  OBVIOUS
<1>1. PICK s : s = InitChannel
  OBVIOUS
<1>2. s.sent = << >> /\ s.txList = << >> /\ s.out = << >> /\ s.nextTxSeq = 0
  BY <1>1 DEF InitChannel
<1>3. Len(<< >>) = 0 /\ 1 .. 0 = {}
  BY EmptySeq
<1>4. Short(s)
  BY <1>2, <1>3 DEF Short
<1>5. ASSUME NEW e \in Endpoint
      PROVE  ch[e] = s /\ net[Peer(e)] = << >>
  BY <1>1, PeerType DEF Init
<1> QED BY <1>3, <1>4, <1>5 DEF ShortAcks

\* While no endpoint has used up its sequence numbers, both directions deliver.
EarlyInv == LocalInv /\ (FewFrames => Flows /\ ShortAcks)

\* The invariant is inductive.
LEMMA EarlyInvNext ==
  ASSUME MaxFull = 0, EarlyInv, [Next]_vars
  PROVE  EarlyInv'
<1>1. LocalInv /\ IInv
  BY DEF EarlyInv, LocalInv
<1>2. LocalInv'
  BY <1>1, LocalInvNext
<1>3. IInv'
  BY <1>2 DEF LocalInv
<1>4. ASSUME FewFrames'
      PROVE  Flows' /\ ShortAcks'
  <2>1. ASSUME NEW x \in Endpoint
        PROVE  Len(ch[x].sent) < SeqMod
    <3>1. ch[x] \in Channel /\ ch'[x] \in Channel
      BY <1>1, <1>3 DEF IInv, TypeOK
    <3>2. PICK a \in Nat, b \in Nat : a = Len(ch[x].sent) /\ b = Len(ch'[x].sent)
      BY <3>1, Lengths
    <3>3. Len(ch[x].sent) <= Len(ch'[x].sent)
      BY <1>1, SentGrows
    <3>4. Len(ch'[x].sent) < SeqMod
      BY <1>4 DEF FewFrames
    <3>5. a <= b /\ b < SeqMod /\ SeqMod \in Nat
      BY <3>2, <3>3, <3>4, SeqModFacts
    <3>6. a < SeqMod
      BY <3>5
    <3> QED BY <3>2, <3>6
  <2>2. Flows /\ ShortAcks
    BY <2>1 DEF EarlyInv, FewFrames
  <2>3. AcksSafe
    BY <1>1, <2>2, ShortSafe
  <2>4. Flows'
    BY <1>1, <2>2, <2>3, FlowsNext
  <2>5. ShortAcks'
    BY <1>1, <1>3, <1>4, <2>2, ShortNext
  <2> QED BY <2>4, <2>5
<1> QED BY <1>2, <1>4 DEF EarlyInv

\* As long as no endpoint has used up its sequence numbers, for every size of the windows,
\* what an endpoint hands over is a prefix of what its peer sent, whatever the link loses
\* and whenever the timers run out.
THEOREM DeliversInOrderBeforeWrap ==
  MaxFull = 0 => (Spec => [](FewFrames => InOrderDelivery))
<1> SUFFICES ASSUME MaxFull = 0 PROVE Spec => [](FewFrames => InOrderDelivery)
  OBVIOUS
<1>1. Init => EarlyInv
  BY LocalInvInit, FlowsInit, ShortInit DEF EarlyInv
<1>2. EarlyInv /\ [Next]_vars => EarlyInv'
  BY EarlyInvNext
<1>3. EarlyInv => (FewFrames => InOrderDelivery)
  BY FlowsInOrder DEF EarlyInv, LocalInv
<1> QED BY <1>1, <1>2, <1>3, PTL DEF Spec

\* And a frame is freed only when the peer has it.
THEOREM AckedWasReceivedBeforeWrap ==
  MaxFull = 0 => (Spec => [](FewFrames => AckedWasReceived))
<1> SUFFICES ASSUME MaxFull = 0 PROVE Spec => [](FewFrames => AckedWasReceived)
  OBVIOUS
<1>1. Init => EarlyInv
  BY LocalInvInit, FlowsInit, ShortInit DEF EarlyInv
<1>2. EarlyInv /\ [Next]_vars => EarlyInv'
  BY EarlyInvNext
<1>3. EarlyInv => (FewFrames => AckedWasReceived)
  BY FlowsAcked DEF EarlyInv, LocalInv
<1> QED BY <1>1, <1>2, <1>3, PTL DEF Spec

-----------------------------------------------------------------------------
(***************************************************************************)
(* Traffic in one direction, for any number of frames.  An endpoint that   *)
(* sends no data sends no frame again, so that its acknowledgements stay   *)
(* in order on the link, however often the sequence numbers wrap around.   *)
(***************************************************************************)
\* An endpoint that has sent no data and has none to send.
Quiet(s) == s.sent = << >> /\ s.txList = << >> /\ ~s.isTxWindowFull

\* The acknowledgements on the link to S are of frames that are in its window or were the
\* last to leave it, of at most the first h frames, and in order.
InOrderAcks(q, S, h) ==
    \A j \in 1 .. Len(q) :
        /\ q[j].reqSeq \in SeqNum
        /\ Len(S.sent) - Len(S.txList) <= At(S, q[j].reqSeq)
        /\ At(S, q[j].reqSeq) <= h
        /\ \A i \in 1 .. Len(q) : i < j => At(S, q[i].reqSeq) <= At(S, q[j].reqSeq)

\* Endpoint b only acknowledges.
OneWay(b) ==
    /\ Quiet(ch[b])
    /\ alive[Peer(b)] => InOrderAcks(net[Peer(b)], ch[Peer(b)], Len(ch[b].handed))

\* Without a frame in the window, DTAP_RetransEnhanceFrame finds none and DTAP_SlideTxWindow
\* frees none.
LEMMA QuietSends ==
  ASSUME NEW s, s \in Channel, Quiet(s), NEW ok \in BOOLEAN, NEW q \in SeqNum \cup {SEQ_INIT}
  PROVE  /\ RetransResult([s EXCEPT !.reTxSeq = q], ok) = "find_frame_err"
         /\ RetransEnhanceFrame([s EXCEPT !.reTxSeq = q], ok) = [s EXCEPT !.reTxSeq = q]
         /\ TransChannelStatusChange(s, ok) = s
<1> DEFINE r == [s EXCEPT !.reTxSeq = q]
<1>1. r.txList = << >>
  BY DEF Channel, Quiet
<1> HIDE DEF r
<1>2. ~HasTxSeq(r.txList, r.reTxSeq)
  BY <1>1 DEF HasTxSeq
<1>3. RetransResult(r, ok) = "find_frame_err"
  BY <1>2 DEF RetransResult
<1>4. RetransEnhanceFrame(r, ok) = r
  BY <1>3 DEF RetransEnhanceFrame
<1>5. TransChannelStatusChange(s, ok) = s
  BY DEF TransChannelStatusChange, Quiet
<1> QED BY <1>3, <1>4, <1>5 DEF r

\* The fields of the send window alone make an endpoint quiet.
LEMMA QuietSlide ==
  ASSUME NEW s, s \in Channel, Quiet(s), NEW q \in SeqNum \cup {SEQ_INIT}
  PROVE  Quiet(SlideTxWindow(s, q)) /\ SlideTxWindow(s, q) \in Channel
<1>1. SlideTxWindow(s, q) = s \/ SlideTxWindow(s, q) = [s EXCEPT !.sendPollingCounter = 0]
  BY DEF SlideTxWindow, Quiet
<1>2. 0 \in 0 .. PollingThreshold
  BY WindowFacts
<1> QED BY <1>1, <1>2 DEF Channel, Quiet

\* An acknowledgement leaves a quiet endpoint quiet.
LEMMA QuietAck ==
  ASSUME NEW s, s \in Channel, Quiet(s), NEW f \in AckFrame, NEW ok \in BOOLEAN
  PROVE  Quiet(RecvAckFrame(s, f, ok))
<1> DEFINE asked == [s EXCEPT !.reTxSeq = f.reqSeq]
           s1 == IF f.sBit THEN RetransEnhanceFrame(asked, ok) ELSE s
           s2 == SlideTxWindow(s1, f.reqSeq)
<1>1. f.reqSeq \in SeqNum
  BY DEF AckFrame
<1>2. asked \in Channel /\ Quiet(asked)
  BY <1>1 DEF Channel, Quiet
<1>3. RetransResult(asked, ok) = "find_frame_err" /\ RetransEnhanceFrame(asked, ok) = asked
  BY <1>1, QuietSends
<1>4. RecvAckFrame(s, f, ok) = TransChannelStatusChange(s2, ok)
  BY <1>3 DEF RecvAckFrame
<1> HIDE DEF asked
<1>5. s1 \in Channel /\ Quiet(s1)
  BY <1>2, <1>3
<1> HIDE DEF s1
<1>6. s2 \in Channel /\ Quiet(s2)
  BY <1>1, <1>5, QuietSlide
<1> HIDE DEF s2
<1>7. TransChannelStatusChange(s2, ok) = s2
  BY <1>6 DEF TransChannelStatusChange, Quiet
<1> QED BY <1>4, <1>6, <1>7

\* So does a data frame.
LEMMA QuietData ==
  ASSUME NEW s, Good(s), Quiet(s), NEW f \in DataFrame, NEW ok \in BOOLEAN, NEW k
  PROVE  Quiet(RecvDataFrame(s, f, k, ok))
<1> DEFINE s1 == SlideTxWindow(s, f.reqSeq)
           u == OperateReorderTimer(SlideRxWindow(s1, f.txSeq, f.pdu))
           s2 == RecvEnhanceFrameInner(u, k)
           s3 == IF f.pBit THEN SendAckFrame(s2, FALSE, ok) ELSE s2
<1>1. f.reqSeq \in SeqNum \cup {SEQ_INIT} /\ f.txSeq \in SeqNum /\ f.pdu \in Pdu
  BY DEF DataFrame
<1>2. Quiet(s1) /\ Good(s1)
  BY <1>1, QuietSlide, SlideTxWindowGood DEF Good
<1>3. RecvDataFrame(s, f, k, ok) = TransChannelStatusChange(s3, ok)
  BY DEF RecvDataFrame, RecvIntoWindow
<1> HIDE DEF s1
<1>4. Good(u) /\ SameTx(s1, u)
  BY <1>1, <1>2, RecvFields
<1> HIDE DEF u
<1>5. s2.sent = u.sent /\ s2.txList = u.txList /\ s2.isTxWindowFull = u.isTxWindowFull
  BY <1>4 DEF Good, Channel, RecvEnhanceFrameInner
<1>6. s3.sent = s2.sent /\ s3.txList = s2.txList /\ s3.isTxWindowFull = s2.isTxWindowFull
  <2>1. {"sent", "txList", "isTxWindowFull"} \subseteq DOMAIN s2
    BY <1>4 DEF Good, Channel, RecvEnhanceFrameInner
  <2> HIDE DEF s2
  <2> QED BY <2>1 DEF SendAckFrame, SendFrame
<1> HIDE DEF s2
<1> HIDE DEF s3
<1>7. Quiet(s3)
  BY <1>2, <1>4, <1>5, <1>6 DEF Quiet, SameTx
<1>8. TransChannelStatusChange(s3, ok) = s3
  BY <1>7 DEF TransChannelStatusChange, Quiet
<1> QED BY <1>3, <1>7, <1>8

\* An endpoint without messages of its own stays quiet.
LEMMA QuietNext ==
  ASSUME IInv, NEW b \in Endpoint, MaxMsg[b] = 0, Quiet(ch[b]), [Next]_vars
  PROVE  Quiet(ch'[b])
<1> DEFINE c == ch[b]
<1>1. /\ ch \in [Endpoint -> Channel] /\ c \in Channel /\ offered[b] \in Nat
      /\ SendOutcomes \subseteq BOOLEAN
      /\ net[b] \in Seq(AckFrame \cup DataFrame)
      /\ alive[b] => Good(c)
  BY ReliableAssumption DEF IInv, TypeOK
<1>2. ASSUME NEW s, Quiet(s), {"sent", "txList", "isTxWindowFull"} \subseteq DOMAIN s,
             ch' = [ch EXCEPT ![b] = [s EXCEPT !.out = << >>]]
      PROVE  Quiet(ch'[b])
  <2>1. ch'[b] = [s EXCEPT !.out = << >>]
    BY <1>1, <1>2
  <2> QED BY <2>1, <1>2 DEF Quiet
<1>3. ASSUME NEW s, Quiet(s), s \in Channel, ch' = [ch EXCEPT ![b] = [s EXCEPT !.out = << >>]]
      PROVE  Quiet(ch'[b])
  <2>1. {"sent", "txList", "isTxWindowFull"} \subseteq DOMAIN s
    BY <1>3 DEF Channel
  <2> QED BY <2>1, <1>2, <1>3
<1>4. CASE UNCHANGED vars
  BY <1>4 DEF vars
<1>5. ASSUME NEW e \in Endpoint, e # b,
             \/ Send(e) \/ RecvAck(e) \/ RecvData(e) \/ RefuseData(e)
             \/ RspTimerExpireProc(e) \/ ReorderTimerExpireProc(e) \/ RetransTimerExpireProc(e)
             \/ SetTransChannelStatus(e)
      PROVE  Quiet(ch'[b])
  <2>1. b = Peer(e)
    BY <1>5, BothEnds
  <2>2. CASE SetTransChannelStatus(e)
    <3>1. \E s : ch' = [ch EXCEPT ![e] = s]
      BY <2>2 DEF SetTransChannelStatus, Commit
    <3>2. ch'[b] = ch[b]
      BY <3>1, <1>1, <1>5
    <3> QED BY <3>2
  <2>3. CASE \/ Send(e) \/ RecvAck(e) \/ RecvData(e) \/ RefuseData(e)
             \/ RspTimerExpireProc(e) \/ ReorderTimerExpireProc(e) \/ RetransTimerExpireProc(e)
    <3>1. \E s1, s2, s3, s, d : Handles(e, s1, s2, s3, s, d)
      BY <2>3, HandlerShape
    <3>2. ch'[Peer(e)] = ch[Peer(e)]
      BY <3>1, HandlerSent
    <3> QED BY <3>2, <2>1
  <2> QED BY <1>5, <2>2, <2>3
<1>6. ASSUME NEW e \in Endpoint, LoseFrame(e)
      PROVE  Quiet(ch'[b])
  BY <1>6 DEF LoseFrame
<1>7. ASSUME NEW e \in Endpoint, ChannelDel(e)
      PROVE  Quiet(ch'[b])
  <2>1. /\ ch'[Peer(e)] = ch[Peer(e)] /\ ch'[e].sent = ch[e].sent /\ ch'[e].txList = << >>
        /\ ch'[e].isTxWindowFull = ch[e].isTxWindowFull
    BY <1>7, ChannelDelState
  <2>2. b = e \/ b = Peer(e)
    BY BothEnds
  <2> QED BY <2>1, <2>2 DEF Quiet
<1>8. ~Send(b)
  <2>1. ~(offered[b] < 0)
    BY <1>1
  <2> QED BY <2>1 DEF Send
<1>9. CASE RecvAck(b)
  <2>1. PICK ok \in SendOutcomes : Receive(b, RecvAckFrame(c, Head(net[b]), ok))
    BY <1>9 DEF RecvAck
  <2>2. Head(net[b]) \in AckFrame /\ Good(c)
    BY <1>9, AckAction
  <2>3. ok \in BOOLEAN
    BY <1>1
  <2>4. PICK f \in AckFrame : f = Head(net[b])
    BY <2>2
  <2>5. Quiet(RecvAckFrame(c, f, ok)) /\ Good(RecvAckFrame(c, f, ok))
    BY <1>1, <2>2, <2>3, QuietAck, RecvAckFrameGood
  <2>6. ch' = [ch EXCEPT ![b] = [RecvAckFrame(c, f, ok) EXCEPT !.out = << >>]]
    BY <2>1, <2>4 DEF Receive
  <2> QED BY <1>3, <2>5, <2>6 DEF Good
<1>10. CASE RecvData(b)
  <2>1. PICK ok \in SendOutcomes, k \in HandOvers(RecvIntoWindow(c, Head(net[b]))) :
           Receive(b, RecvDataFrame(c, Head(net[b]), k, ok))
    BY <1>10 DEF RecvData
  <2>2. Head(net[b]) \in DataFrame /\ Good(c)
    BY <1>10, DataAction
  <2>3. ok \in BOOLEAN
    BY <1>1
  <2>4. PICK f \in DataFrame : f = Head(net[b])
    BY <2>2
  <2>5. k \in HandOvers(RecvIntoWindow(c, f))
    BY <2>4
  <2>6. Quiet(RecvDataFrame(c, f, k, ok)) /\ Good(RecvDataFrame(c, f, k, ok))
    BY <2>2, <2>3, <2>5, QuietData, RecvDataFrameGood
  <2>7. ch' = [ch EXCEPT ![b] = [RecvDataFrame(c, f, k, ok) EXCEPT !.out = << >>]]
    BY <2>1, <2>4 DEF Receive
  <2> QED BY <1>3, <2>6, <2>7 DEF Good
<1>11. CASE RefuseData(b)
  <2>1. ch' = [ch EXCEPT ![b] = [c EXCEPT !.out = << >>]]
    BY <1>11 DEF RefuseData, Receive
  <2> QED BY <2>1, <1>1, <1>3
<1>12. CASE RspTimerExpireProc(b) \/ ReorderTimerExpireProc(b)
  <2>1. PICK s : /\ ch' = [ch EXCEPT ![b] = [s EXCEPT !.out = << >>]]
                 /\ \/ \E ok \in SendOutcomes : s = SendAckFrame(c, FALSE, ok)
                    \/ s = [c EXCEPT !.isDestroyMsgSent = TRUE]
                    \/ \E ok \in SendOutcomes : s = [SendAckFrame(c, TRUE, ok)
                                                       EXCEPT !.nackCnt = IF ok THEN @ + 1 ELSE @]
    BY <1>12 DEF RspTimerExpireProc, ReorderTimerExpireProc, Commit
  <2>2. ASSUME NEW sBit, NEW ok
        PROVE  /\ Quiet(SendAckFrame(c, sBit, ok))
               /\ {"sent", "txList", "isTxWindowFull"} \subseteq DOMAIN SendAckFrame(c, sBit, ok)
    BY <1>1 DEF SendAckFrame, SendFrame, Quiet, Channel
  <2>3. Quiet(s) /\ {"sent", "txList", "isTxWindowFull"} \subseteq DOMAIN s
    <3>1. CASE \E ok \in SendOutcomes : s = SendAckFrame(c, FALSE, ok)
      BY <3>1, <2>2
    <3>2. CASE s = [c EXCEPT !.isDestroyMsgSent = TRUE]
      BY <3>2, <1>1 DEF Quiet, Channel
    <3>3. CASE \E ok \in SendOutcomes : s = [SendAckFrame(c, TRUE, ok)
                                               EXCEPT !.nackCnt = IF ok THEN @ + 1 ELSE @]
      BY <3>3, <2>2 DEF Quiet
    <3> QED BY <2>1, <3>1, <3>2, <3>3
  <2> QED BY <2>1, <2>3, <1>2
<1>13. ~RetransTimerExpireProc(b)
  BY DEF RetransTimerExpireProc, Quiet
<1>14. CASE SetTransChannelStatus(b)
  <2> DEFINE room == [c EXCEPT !.isRxWindowFull = FALSE]
  <2>1. PICK k : ch' = [ch EXCEPT ![b] = [RecvEnhanceFrameInner(room, k) EXCEPT !.out = << >>]]
    BY <1>14 DEF SetTransChannelStatus, Commit
  <2>2. room \in Channel /\ Quiet(room)
    BY <1>1 DEF Channel, Quiet
  <2> HIDE DEF room
  <2>3. /\ Quiet(RecvEnhanceFrameInner(room, k))
        /\ {"sent", "txList", "isTxWindowFull"} \subseteq DOMAIN RecvEnhanceFrameInner(room, k)
    BY <2>2 DEF Channel, Quiet, RecvEnhanceFrameInner
  <2> QED BY <2>1, <2>3, <1>2
<1>15. CASE Next
  <2>1. PICK e \in Endpoint :
          \/ Send(e) \/ RecvAck(e) \/ RecvData(e) \/ RefuseData(e) \/ LoseFrame(e)
          \/ RspTimerExpireProc(e) \/ ReorderTimerExpireProc(e) \/ RetransTimerExpireProc(e)
          \/ SetTransChannelStatus(e) \/ ChannelDel(e)
    BY <1>15 DEF Next
  <2>2. CASE e = b
    BY <2>1, <2>2, <1>6, <1>7, <1>8, <1>9, <1>10, <1>11, <1>12, <1>13, <1>14
  <2>3. CASE e # b
    BY <2>1, <2>3, <1>5, <1>6, <1>7
  <2> QED BY <2>2, <2>3
<1> QED BY <1>4, <1>15

\* Sending leaves the acknowledgements where they are.
LEMMA AcksSends ==
  ASSUME NEW s, Good(s), NEW r, Good(r), Sends(s, r), NEW R, R \in Channel,
         Received(s, R), Unacked(s, R),
         NEW q, NEW h \in Nat, h = Len(R.handed), InOrderAcks(q, s, h)
  PROVE  InOrderAcks(q, r, h)
<1>1. PICK n \in Nat, m \in Nat, t \in Nat, v \in Nat :
        n = Len(s.sent) /\ m = Len(r.sent) /\ t = Len(s.txList) /\ v = Len(r.txList)
  BY Lengths DEF Good
<1>2. v - t = m - n /\ t <= n /\ t <= WinSize /\ WinSize \in Nat
  BY <1>1, WindowFacts DEF Sends, Grows, Good, TxWindow, Unacked
<1>3. h <= n
  <2>1. h = Place(R.expectedTxSeq, s.nextTxSeq, n)
    BY <1>1 DEF Received, At
  <2>2. R.expectedTxSeq \in SeqNum /\ s.nextTxSeq \in SeqNum
    BY DEF Good, Channel
  <2> QED BY <2>1, <2>2, PlaceType
<1>4. \A x \in SeqNum : h <= At(s, x) + WinSize => At(r, x) = At(s, x)
  BY SendsKeepsPlaces
<1>5. n - t = m - v
  BY <1>2
<1>6. ASSUME NEW j \in 1 .. Len(q)
      PROVE  /\ q[j].reqSeq \in SeqNum /\ At(r, q[j].reqSeq) = At(s, q[j].reqSeq)
             /\ m - v <= At(s, q[j].reqSeq) /\ At(s, q[j].reqSeq) <= h
  <2>1. /\ q[j].reqSeq \in SeqNum /\ n - t <= At(s, q[j].reqSeq)
        /\ At(s, q[j].reqSeq) <= h
    BY <1>1 DEF InOrderAcks
  <2>2. PICK p \in Int : p = At(s, q[j].reqSeq)
    BY <2>1, <1>1, PlaceType DEF At, Good, Channel
  <2>3. h <= p + WinSize
    BY <2>1, <2>2, <1>2, <1>3
  <2> QED BY <2>1, <2>2, <2>3, <1>4, <1>5
<1>7. ASSUME NEW j \in 1 .. Len(q), NEW i \in 1 .. Len(q), i < j
      PROVE  At(r, q[i].reqSeq) <= At(r, q[j].reqSeq)
  <2>1. At(s, q[i].reqSeq) <= At(s, q[j].reqSeq)
    BY <1>7 DEF InOrderAcks
  <2> QED BY <2>1, <1>6
<1> QED BY <1>1, <1>6, <1>7 DEF InOrderAcks

\* The acknowledgements behind the first one.
LEMMA AcksTail ==
  ASSUME NEW q \in Seq(AckFrame \cup DataFrame), q # << >>, NEW S, NEW h, InOrderAcks(q, S, h)
  PROVE  InOrderAcks(Tail(q), S, h)
<1>1. \A j \in 1 .. Len(Tail(q)) : j + 1 \in 1 .. Len(q) /\ Tail(q)[j] = q[j + 1]
  BY TailKeeps
<1>2. ASSUME NEW j \in 1 .. Len(Tail(q)), NEW i \in 1 .. Len(Tail(q)), i < j
      PROVE  At(S, Tail(q)[i].reqSeq) <= At(S, Tail(q)[j].reqSeq)
  <2>1. i + 1 < j + 1 /\ i + 1 \in 1 .. Len(q) /\ j + 1 \in 1 .. Len(q)
    BY <1>1, <1>2
  <2>2. At(S, q[i + 1].reqSeq) <= At(S, q[j + 1].reqSeq)
    BY <2>1 DEF InOrderAcks
  <2> QED BY <2>2, <1>1
<1> QED BY <1>1, <1>2 DEF InOrderAcks

\* Freeing the acknowledged frames moves the window up to the first acknowledgement, and
\* the others are not older.
LEMMA AcksSlides ==
  ASSUME NEW s, Good(s), Len(s.txList) <= Len(s.sent), NEW r, NEW d \in 1 .. Len(s.txList),
         Slides(s, r, d), NEW q \in Seq(AckFrame \cup DataFrame), q # << >>,
         Head(q).reqSeq = SeqAdd(s.expectedAckSeq, d), NEW h, InOrderAcks(q, s, h)
  PROVE  InOrderAcks(Tail(q), r, h)
<1>1. PICK n \in Nat, t \in Nat : n = Len(s.sent) /\ t = Len(s.txList)
  BY Lengths DEF Good
<1>2. d \in Nat /\ d \in 0 .. Len(s.txList)
  BY <1>1
<1>3. At(s, Head(q).reqSeq) = n - t + d
  BY <1>1, <1>2, AckPlaces
<1>4. r.sent = s.sent /\ r.nextTxSeq = s.nextTxSeq /\ Len(r.txList) = t - d
  BY <1>1 DEF Slides
<1>5. \A x : At(r, x) = At(s, x)
  BY <1>4 DEF At
<1>6. /\ 1 \in 1 .. Len(q) /\ Head(q) = q[1] /\ Len(q) \in Nat
      /\ \A j \in 1 .. Len(Tail(q)) : j + 1 \in 1 .. Len(q) /\ Tail(q)[j] = q[j + 1]
  BY TailKeeps, HeadTailProperties, LenProperties, EmptySeq
<1>7. InOrderAcks(Tail(q), s, h)
  BY AcksTail
<1>8. ASSUME NEW j \in 1 .. Len(Tail(q))
      PROVE  Len(r.sent) - Len(r.txList) <= At(s, Tail(q)[j].reqSeq)
  <2>1. 1 < j + 1 /\ j + 1 \in 1 .. Len(q)
    BY <1>6
  <2>2. At(s, q[1].reqSeq) <= At(s, q[j + 1].reqSeq)
    BY <2>1, <1>6 DEF InOrderAcks
  <2>3. Len(r.sent) - Len(r.txList) = n - t + d
    BY <1>1, <1>2, <1>4
  <2> QED BY <2>2, <2>3, <1>3, <1>6
<1> QED BY <1>5, <1>7, <1>8 DEF InOrderAcks

\* A handler of the endpoint that is acknowledged.
LEMMA SenderAcks ==
  ASSUME MaxFull = 0, IInv, Flows, AcksSafe, NEW e \in Endpoint,
         NEW s1, NEW s2, NEW s3, NEW s, NEW d, Handles(e, s1, s2, s3, s, d),
         NEW h \in Nat, h = Len(ch[Peer(e)].handed), InOrderAcks(net[e], ch[e], h)
  PROVE  InOrderAcks(net'[e], ch'[e], h)
<1> DEFINE R == ch[Peer(e)]
           q == net[e]
<1>1. R \in Channel /\ q \in Seq(AckFrame \cup DataFrame) /\ h = Len(R.handed)
  BY PeerType DEF IInv, TypeOK
<1>2. Received(ch[e], R) /\ Unacked(ch[e], R)
  BY DEF Flows, Flow, Handles
<1>3. /\ Good(ch[e]) /\ Good(s1) /\ Good(s2) /\ Good(s3) /\ Good(s) /\ d \in Nat
      /\ Sends(ch[e], s1) /\ Slides(s1, s2, d) /\ Sends(s3, s)
      /\ net'[e] = q \/ (q # << >> /\ net'[e] = Tail(q))
  BY DEF Handles
<1>4. d # 0 => /\ q # << >> /\ net'[e] = Tail(q) /\ d \in 1 .. Len(s1.txList)
               /\ Head(q).reqSeq = SeqAdd(s1.expectedAckSeq, d)
  BY DEF Handles, Frees
<1>5. Received(s3, R) /\ Unacked(s3, R)
  BY HandlerSends
<1>6. SameTx(s2, s3)
  BY TakesSameTx DEF Handles
<1>7. /\ ch'[e] = [s EXCEPT !.out = << >>]
      /\ ch'[e].sent = s.sent /\ ch'[e].nextTxSeq = s.nextTxSeq /\ ch'[e].txList = s.txList
  BY HandlerState
<1>8. InOrderAcks(q, ch[e], h)
  OBVIOUS
<1> HIDE DEF R, q
<1>9. InOrderAcks(q, s1, h)
  BY <1>1, <1>2, <1>3, <1>8, AcksSends
<1>10. Len(s1.txList) <= Len(s1.sent)
  BY <1>1, <1>2, <1>3, SendsKeepsPlaces
<1>11. InOrderAcks(net'[e], s2, h)
  <2>1. CASE d = 0
    <3>1. InOrderAcks(net'[e], s1, h)
      BY <1>1, <1>3, <1>9, AcksTail
    <3>2. s2.sent = s1.sent /\ s2.nextTxSeq = s1.nextTxSeq /\ Len(s2.txList) = Len(s1.txList) - 0
      BY <2>1, <1>3 DEF Slides
    <3>3. Len(s1.txList) \in Nat
      BY <1>3, Lengths DEF Good
    <3>4. Len(s2.txList) = Len(s1.txList)
      BY <3>2, <3>3
    <3> QED BY <3>1, <3>2, <3>4 DEF InOrderAcks, At
  <2>2. CASE d # 0
    BY <2>2, <1>1, <1>3, <1>4, <1>9, <1>10, AcksSlides
  <2> QED BY <2>1, <2>2
<1>12. InOrderAcks(net'[e], s3, h)
  BY <1>6, <1>11 DEF SameTx, InOrderAcks, At
<1>13. InOrderAcks(net'[e], s, h)
  BY <1>1, <1>3, <1>5, <1>12, AcksSends
<1> QED BY <1>7, <1>13 DEF InOrderAcks, At

\* More acknowledgements behind those on the link.
LEMMA AcksJoin ==
  ASSUME NEW q \in Seq(AckFrame \cup DataFrame), NEW a \in Seq(AckFrame \cup DataFrame),
         NEW S, S \in Channel, NEW g \in Nat, NEW h \in Nat, g <= h,
         Len(S.sent) - Len(S.txList) <= g, InOrderAcks(q, S, g),
         \A k \in 1 .. Len(a) : /\ a[k].reqSeq \in SeqNum
                                /\ g <= At(S, a[k].reqSeq) /\ At(S, a[k].reqSeq) <= h,
         \A k, l \in 1 .. Len(a) : l < k => At(S, a[l].reqSeq) <= At(S, a[k].reqSeq)
  PROVE  InOrderAcks(Transmit(q, a), S, h)
<1>1. PICK x \in Seq(AckFrame \cup DataFrame) : Joined(x, q, a)
  BY CanJoin DEF Joined
<1>2. PICK z : z = Transmit(q, a)
  OBVIOUS
<1>3. /\ z \in Seq(AckFrame \cup DataFrame) /\ Len(z) <= Len(x)
      /\ \A i \in 1 .. Len(z) : z[i] = x[i]
  <2>1. /\ Transmit(q, a) \in Seq(AckFrame \cup DataFrame)
        /\ Len(Transmit(q, a)) <= Len(x)
        /\ \A i \in 1 .. Len(Transmit(q, a)) : Transmit(q, a)[i] = x[i]
    BY <1>1, TransmitElements
  <2> QED BY <2>1, <1>2
<1>4. PICK lq \in Nat, la \in Nat, lz \in Nat : lq = Len(q) /\ la = Len(a) /\ lz = Len(z)
  BY <1>3, LenProperties
<1>5. /\ lz <= lq + la
      /\ \A i \in 1 .. lq : x[i] = q[i]
      /\ \A i \in 1 .. la : x[lq + i] = a[i]
  BY <1>1, <1>3, <1>4 DEF Joined
<1>6. PICK lo \in Int : lo = Len(S.sent) - Len(S.txList) /\ lo <= g
  <2>1. PICK n \in Nat, t \in Nat : n = Len(S.sent) /\ t = Len(S.txList)
    BY Lengths
  <2>2. n - t \in Int /\ n - t <= g
    BY <2>1
  <2> QED BY <2>1, <2>2
<1>7. \A y \in SeqNum : At(S, y) \in Int
  BY Lengths, PlaceType DEF At, Channel
<1>8. ASSUME NEW j \in 1 .. lz
      PROVE  \/ j \in 1 .. lq /\ z[j] = q[j]
             \/ \E k \in 1 .. la : j = lq + k /\ z[j] = a[k]
  <2>1. z[j] = x[j]
    BY <1>3, <1>4
  <2>2. CASE j <= lq
    <3>1. j \in 1 .. lq
      BY <2>2
    <3> QED BY <2>1, <3>1, <1>5
  <2>3. CASE j > lq
    <3>0. lz <= lq + la
      BY <1>5
    <3>1. j - lq \in 1 .. la /\ lq + (j - lq) = j
      BY <2>3, <3>0
    <3>2. x[lq + (j - lq)] = a[j - lq]
      BY <3>1, <1>5
    <3> QED BY <2>1, <3>1, <3>2
  <2> QED BY <2>2, <2>3
<1>9. ASSUME NEW j \in 1 .. lq
      PROVE  /\ q[j].reqSeq \in SeqNum /\ lo <= At(S, q[j].reqSeq) /\ At(S, q[j].reqSeq) <= g
             /\ \A i \in 1 .. lq : i < j => At(S, q[i].reqSeq) <= At(S, q[j].reqSeq)
  BY <1>4, <1>6 DEF InOrderAcks
<1>10. ASSUME NEW j \in 1 .. lz
       PROVE  z[j].reqSeq \in SeqNum /\ lo <= At(S, z[j].reqSeq) /\ At(S, z[j].reqSeq) <= h
  <2>1. CASE j \in 1 .. lq /\ z[j] = q[j]
    <3>1. q[j].reqSeq \in SeqNum /\ lo <= At(S, q[j].reqSeq) /\ At(S, q[j].reqSeq) <= g
      BY <2>1, <1>9
    <3>2. PICK p \in Int : p = At(S, q[j].reqSeq)
      BY <3>1, <1>7
    <3>3. lo <= p /\ p <= h
      BY <3>1, <3>2
    <3> QED BY <3>1, <3>2, <3>3, <2>1
  <2>2. CASE \E k \in 1 .. la : j = lq + k /\ z[j] = a[k]
    <3>1. PICK k \in 1 .. la : z[j] = a[k]
      BY <2>2
    <3>2. a[k].reqSeq \in SeqNum /\ g <= At(S, a[k].reqSeq) /\ At(S, a[k].reqSeq) <= h
      BY <1>4
    <3>3. PICK p \in Int : p = At(S, a[k].reqSeq)
      BY <3>2, <1>7
    <3>4. lo <= g /\ g <= p /\ p <= h
      BY <3>2, <3>3, <1>6
    <3>5. lo <= p
      BY <3>4
    <3> QED BY <3>1, <3>2, <3>3, <3>4, <3>5
  <2> QED BY <2>1, <2>2, <1>8
<1>11. ASSUME NEW j \in 1 .. lz, NEW i \in 1 .. lz, i < j
       PROVE  At(S, z[i].reqSeq) <= At(S, z[j].reqSeq)
  <2>1. CASE j \in 1 .. lq /\ z[j] = q[j]
    <3>1. i \in 1 .. lq
      BY <2>1, <1>11
    <3>2. z[i] = q[i]
      BY <3>1, <1>3, <1>4, <1>5
    <3> QED BY <2>1, <3>1, <3>2, <1>9, <1>11
  <2>2. ASSUME NEW k \in 1 .. la, j = lq + k, z[j] = a[k]
        PROVE  At(S, z[i].reqSeq) <= At(S, z[j].reqSeq)
    <3>1. a[k].reqSeq \in SeqNum /\ g <= At(S, a[k].reqSeq)
      BY <1>4
    <3>2. CASE i \in 1 .. lq /\ z[i] = q[i]
      <4>1. q[i].reqSeq \in SeqNum /\ At(S, q[i].reqSeq) <= g
        BY <3>2, <1>9
      <4>2. PICK p \in Int, r \in Int : p = At(S, q[i].reqSeq) /\ r = At(S, a[k].reqSeq)
        BY <4>1, <3>1, <1>7
      <4>3. p <= r
        BY <4>1, <4>2, <3>1
      <4> QED BY <4>2, <4>3, <3>2, <2>2
    <3>3. ASSUME NEW l \in 1 .. la, i = lq + l, z[i] = a[l]
          PROVE  At(S, z[i].reqSeq) <= At(S, z[j].reqSeq)
      <4>1. l < k
        <5>1. lq + l < lq + k
          BY <3>3, <2>2, <1>11
        <5> QED BY <5>1
      <4>2. At(S, a[l].reqSeq) <= At(S, a[k].reqSeq)
        BY <4>1, <1>4
      <4> QED BY <4>2, <3>3, <2>2
    <3> QED BY <3>2, <3>3, <1>8
  <2> QED BY <2>1, <2>2, <1>8
<1>12. InOrderAcks(z, S, h)
  BY <1>4, <1>6, <1>10, <1>11 DEF InOrderAcks
<1> QED BY <1>2, <1>12

\* A handler of the endpoint that only acknowledges.
LEMMA ReceiverAcks ==
  ASSUME MaxFull = 0, IInv, Flows, NEW e \in Endpoint,
         NEW s1, NEW s2, NEW s3, NEW s, NEW d, Handles(e, s1, s2, s3, s, d),
         Quiet(ch[e]), Quiet(ch'[e]), alive[Peer(e)],
         InOrderAcks(net[Peer(e)], ch[Peer(e)], Len(ch[e].handed))
  PROVE  InOrderAcks(net'[Peer(e)], ch'[Peer(e)], Len(ch'[e].handed))
<1> DEFINE S == ch[Peer(e)]
           q == net[Peer(e)]
<1>1. /\ Peer(e) \in Endpoint /\ Peer(Peer(e)) = e /\ S \in Channel
      /\ q \in Seq(AckFrame \cup DataFrame) /\ s.out \in Seq(AckFrame \cup DataFrame)
  BY PeerType, BothEnds DEF IInv, TypeOK, Handles, Good, Channel
<1>2. Received(S, ch[e]) /\ Unacked(S, ch[e])
  <2>1. Flow(ch[Peer(e)], ch[Peer(Peer(e))], net[Peer(Peer(e))], alive[Peer(e)])
    BY <1>1 DEF Flows
  <2> QED BY <2>1, <1>1 DEF Flow
<1>3. /\ Received(S, s3) /\ SameTx(s2, s3)
      /\ Len(ch[e].handed) <= Len(s3.handed) /\ s.handed = s3.handed
  BY HandlerReceives
<1>4. /\ Good(ch[e]) /\ Good(s1) /\ Good(s2) /\ Good(s3) /\ Good(s)
      /\ Sends(ch[e], s1) /\ Len(s1.txList) = Len(ch[e].txList)
      /\ Slides(s1, s2, d) /\ Sends(s3, s)
      /\ net'[Peer(e)] = Transmit(q, s.out)
  BY DEF Handles
<1>5. /\ ch'[e] = [s EXCEPT !.out = << >>] /\ ch'[Peer(e)] = S
      /\ ch'[e].txList = s.txList /\ SameRx(s, ch'[e])
  BY HandlerState
<1>6. ch[e].out = << >> /\ InOrderAcks(q, S, Len(ch[e].handed))
  BY DEF Flows
<1>7. Len(ch[e].txList) = 0 /\ Len(s.txList) = 0
  BY <1>5, EmptySeq DEF Quiet
<1> HIDE DEF S, q
<1>8. PICK g \in Nat, h \in Nat : g = Len(ch[e].handed) /\ h = Len(s.handed) /\ g <= h
  BY <1>3, <1>4, Lengths DEF Good
<1>9. PICK l1 \in Nat, l \in Nat : l1 = Len(s1.out) /\ l1 = Len(s3.out) /\ l = Len(s.out)
  BY <1>3, <1>4, Lengths DEF Good, Slides, SameTx
<1>10. ASSUME NEW k \in 1 .. l, k <= l1
       PROVE  ~IsData(s.out[k]) /\ At(S, s.out[k].reqSeq) = g
  <2>1. k \in 1 .. l1
    BY <1>9, <1>10
  <2>2. s.out[k] = s1.out[k]
    BY <2>1, <1>3, <1>4, <1>9 DEF Sends, Emits, Slides, SameTx
  <2>3. Len(ch[e].out) = 0 /\ k > 0
    BY <1>6, EmptySeq
  <2>4. 1 .. Len(s1.txList) = {}
    BY <1>4, <1>7
  <2>5. ~IsData(s1.out[k]) /\ s1.out[k].reqSeq \in {ch[e].expectedTxSeq, ch[e].bufferSeq}
    BY <2>1, <2>3, <2>4, <1>4, <1>9 DEF Sends, Emits
  <2>6. At(S, ch[e].expectedTxSeq) = g /\ ch[e].bufferSeq = ch[e].expectedTxSeq
    BY <1>2, <1>8 DEF Received, RxWindow
  <2> QED BY <2>2, <2>5, <2>6
<1>11. ASSUME NEW k \in 1 .. l, k > l1
       PROVE  ~IsData(s.out[k]) /\ At(S, s.out[k].reqSeq) = h
  <2>1. 1 .. Len(s.txList) = {}
    BY <1>7
  <2>2. ~IsData(s.out[k]) /\ s.out[k].reqSeq \in {s3.expectedTxSeq, s3.bufferSeq}
    BY <2>1, <1>4, <1>9, <1>11 DEF Sends, Emits
  <2>3. At(S, s3.expectedTxSeq) = h /\ s3.bufferSeq = s3.expectedTxSeq
    BY <1>3, <1>8 DEF Received, RxWindow
  <2> QED BY <2>2, <2>3
<1>12. ASSUME NEW k \in 1 .. Len(s.out)
       PROVE  /\ s.out[k].reqSeq \in SeqNum
              /\ g <= At(S, s.out[k].reqSeq) /\ At(S, s.out[k].reqSeq) <= h
  <2>0. k \in 1 .. l
    BY <1>9
  <2>1. ~IsData(s.out[k]) /\ At(S, s.out[k].reqSeq) \in {g, h}
    BY <2>0, <1>10, <1>11
  <2>2. s.out[k] \in AckFrame \cup DataFrame
    BY <1>1, ElementOfSeq
  <2>3. s.out[k].reqSeq \in SeqNum
    BY <2>1, <2>2 DEF IsData, AckFrame, DataFrame
  <2>4. PICK p \in {g, h} : p = At(S, s.out[k].reqSeq)
    BY <2>1
  <2>5. g <= p /\ p <= h
    BY <1>8
  <2> QED BY <2>3, <2>4, <2>5
<1>13. ASSUME NEW k \in 1 .. Len(s.out), NEW i \in 1 .. Len(s.out), i < k
       PROVE  At(S, s.out[i].reqSeq) <= At(S, s.out[k].reqSeq)
  <2>0. k \in 1 .. l /\ i \in 1 .. l
    BY <1>9
  <2>1. CASE k <= l1
    <3>1. i <= l1
      BY <2>0, <2>1, <1>13
    <3>2. At(S, s.out[i].reqSeq) = g /\ At(S, s.out[k].reqSeq) = g
      BY <2>0, <2>1, <3>1, <1>10
    <3> QED BY <3>2
  <2>2. CASE k > l1
    <3>1. At(S, s.out[k].reqSeq) = h
      BY <2>0, <2>2, <1>11
    <3>2. At(S, s.out[i].reqSeq) <= h
      BY <1>12
    <3> QED BY <3>1, <3>2
  <2> QED BY <2>0, <2>1, <2>2
<1>14. Len(S.sent) - Len(S.txList) <= g
  BY <1>2, <1>8 DEF Unacked
<1>15. InOrderAcks(q, S, g)
  BY <1>6, <1>8
<1>16. PICK a \in Seq(AckFrame \cup DataFrame) : a = s.out
  BY <1>1
<1>17. /\ \A k \in 1 .. Len(a) : /\ a[k].reqSeq \in SeqNum
                                 /\ g <= At(S, a[k].reqSeq) /\ At(S, a[k].reqSeq) <= h
       /\ \A k, i \in 1 .. Len(a) : i < k => At(S, a[i].reqSeq) <= At(S, a[k].reqSeq)
  BY <1>12, <1>13, <1>16
<1>18. InOrderAcks(Transmit(q, a), S, h)
  BY <1>1, <1>8, <1>14, <1>15, <1>17, AcksJoin
<1>19. ch'[e].handed = s.handed
  BY <1>5 DEF SameRx
<1> QED BY <1>4, <1>5, <1>8, <1>16, <1>18, <1>19 DEF S

\* When one endpoint only acknowledges, the acknowledgements are safe.
LEMMA OneWaySafe ==
  ASSUME IInv, Flows, NEW b \in Endpoint, OneWay(b)
  PROVE  AcksSafe
<1> SUFFICES ASSUME NEW e \in Endpoint, alive[e], net[e] # << >>,
                    NEW d \in 1 .. Len(ch[e].txList),
                    Head(net[e]).reqSeq = SeqAdd(ch[e].expectedAckSeq, d)
             PROVE  Len(ch[e].sent) - Len(ch[e].txList) + d <= Len(ch[Peer(e)].handed)
  BY DEF AcksSafe
<1>1. e # b
  <2>1. Len(ch[b].txList) = 0
    BY EmptySeq DEF OneWay, Quiet
  <2>2. 1 .. 0 = {}
    OBVIOUS
  <2> QED BY <2>1, <2>2
<1>2. e = Peer(b) /\ Peer(e) = b
  BY <1>1, BothEnds
<1>3. InOrderAcks(net[e], ch[e], Len(ch[Peer(e)].handed))
  BY <1>2 DEF OneWay
<1>4. Good(ch[e]) /\ Len(ch[e].txList) <= Len(ch[e].sent)
  BY DEF IInv, Flows, Flow, Unacked
<1>5. PICK n \in Nat, t \in Nat : n = Len(ch[e].sent) /\ t = Len(ch[e].txList)
  BY <1>4, Lengths DEF Good
<1>6. d \in 0 .. Len(ch[e].txList)
  BY <1>5
<1>7. At(ch[e], SeqAdd(ch[e].expectedAckSeq, d)) = n - t + d
  BY <1>4, <1>5, <1>6, AckPlaces
<1>8. 1 \in 1 .. Len(net[e]) /\ Head(net[e]) = net[e][1]
  <2>1. net[e] \in Seq(AckFrame \cup DataFrame)
    BY DEF IInv, TypeOK
  <2> QED BY <2>1, EmptySeq, HeadTailProperties
<1>9. At(ch[e], net[e][1].reqSeq) <= Len(ch[Peer(e)].handed)
  BY <1>3, <1>8 DEF InOrderAcks
<1> QED BY <1>5, <1>7, <1>8, <1>9

\* An endpoint without messages of its own only acknowledges.
LEMMA OneWayNext ==
  ASSUME MaxFull = 0, LocalInv, Flows, NEW b \in Endpoint, MaxMsg[b] = 0, OneWay(b), [Next]_vars
  PROVE  OneWay(b)'
<1> DEFINE a == Peer(b)
<1>1. IInv /\ AcksSafe
  BY OneWaySafe DEF LocalInv
<1>2. a \in Endpoint /\ a # b /\ Peer(a) = b
  BY PeerType, BothEnds
<1>3. Quiet(ch'[b])
  BY <1>1, QuietNext DEF OneWay
<1>4. Quiet(ch[b]) /\ (alive[a] => InOrderAcks(net[a], ch[a], Len(ch[b].handed)))
  BY DEF OneWay
<1>5. /\ net[a] \in Seq(AckFrame \cup DataFrame) /\ DOMAIN net = Endpoint
      /\ Len(ch[b].handed) \in Nat
  BY <1>1, <1>2, Lengths DEF IInv, TypeOK
<1>6. ASSUME NEW e \in Endpoint, NEW s1, NEW s2, NEW s3, NEW s, NEW d,
             Handles(e, s1, s2, s3, s, d), alive'[a]
      PROVE  InOrderAcks(net'[a], ch'[a], Len(ch'[b].handed))
  <2>1. alive' = alive
    BY <1>6 DEF Handles
  <2>2. InOrderAcks(net[a], ch[a], Len(ch[b].handed))
    BY <2>1, <1>4, <1>6
  <2>3. CASE e = b
    <3>1. Handles(b, s1, s2, s3, s, d)
      BY <2>3, <1>6
    <3> QED BY <3>1, <2>1, <2>2, <1>1, <1>3, <1>4, <1>6, ReceiverAcks
  <2>4. CASE e = a
    <3>1. Handles(a, s1, s2, s3, s, d)
      BY <2>4, <1>6
    <3>2. PICK h \in Nat : h = Len(ch[Peer(a)].handed) /\ h = Len(ch[b].handed)
      BY <1>2, <1>5
    <3>3. InOrderAcks(net[a], ch[a], h)
      BY <2>2, <3>2
    <3>4. InOrderAcks(net'[a], ch'[a], h)
      BY <1>1, <1>2, <3>1, <3>2, <3>3, SenderAcks
    <3>5. ch'[b] = ch[b]
      BY <1>1, <1>2, <3>1, HandlerSent
    <3> QED BY <3>2, <3>4, <3>5
  <2> QED BY <2>3, <2>4, BothEnds
<1>7. ASSUME NEW e \in Endpoint, LoseFrame(e), alive'[a]
      PROVE  InOrderAcks(net'[a], ch'[a], Len(ch'[b].handed))
  <2>1. /\ net[e] # << >> /\ net' = [net EXCEPT ![e] = Tail(net[e])]
        /\ ch' = ch /\ alive' = alive
    BY <1>7 DEF LoseFrame
  <2>2. InOrderAcks(net[a], ch[a], Len(ch[b].handed))
    BY <2>1, <1>4, <1>7
  <2>3. CASE e = a
    <3>1. net'[a] = Tail(net[a]) /\ net[a] # << >>
      BY <2>1, <2>3, <1>2, <1>5
    <3>2. InOrderAcks(Tail(net[a]), ch[a], Len(ch[b].handed))
      BY <2>2, <3>1, <1>5, AcksTail
    <3> QED BY <3>1, <3>2, <2>1
  <2>4. CASE e # a
    <3>1. net'[a] = net[a]
      BY <2>1, <2>4, <1>2, <1>5
    <3> QED BY <3>1, <2>1, <2>2
  <2> QED BY <2>3, <2>4
<1>8. ASSUME NEW e \in Endpoint, ChannelDel(e), alive'[a]
      PROVE  InOrderAcks(net'[a], ch'[a], Len(ch'[b].handed))
  <2>1. /\ ch'[Peer(e)] = ch[Peer(e)] /\ net' = net /\ ch'[e].handed = ch[e].handed
        /\ alive'[Peer(e)] = alive[Peer(e)] /\ ~alive'[e]
    BY <1>1, <1>8, ChannelDelState
  <2>2. e = b
    BY <2>1, <1>8, BothEnds
  <2>3. InOrderAcks(net[a], ch[a], Len(ch[b].handed))
    BY <2>1, <2>2, <1>4, <1>8
  <2> QED BY <2>1, <2>2, <2>3
<1>9. ASSUME UNCHANGED vars, alive'[a]
      PROVE  InOrderAcks(net'[a], ch'[a], Len(ch'[b].handed))
  BY <1>4, <1>9 DEF vars
<1>10. alive'[a] => InOrderAcks(net'[a], ch'[a], Len(ch'[b].handed))
  BY <1>6, <1>7, <1>8, <1>9, Steps
<1> QED BY <1>3, <1>10 DEF OneWay, Quiet, InOrderAcks, At, Place, Behind

\* Nothing is on the link yet.
LEMMA OneWayInit ==
  ASSUME Init, NEW b \in Endpoint
  PROVE  OneWay(b)
<1>1. ch[b] = InitChannel /\ net[Peer(b)] = << >>
  BY PeerType DEF Init
<1>2. 1 .. Len(net[Peer(b)]) = {}
  BY <1>1, EmptySeq
<1>3. Quiet(ch[b])
  BY <1>1 DEF InitChannel, Quiet
<1> QED BY <1>2, <1>3 DEF OneWay, InOrderAcks

\* One direction delivers for ever.
OneWayInv(b) == LocalInv /\ Flows /\ OneWay(b)

\* The invariant is inductive.
LEMMA OneWayInvNext ==
  ASSUME MaxFull = 0, NEW b \in Endpoint, MaxMsg[b] = 0, OneWayInv(b), [Next]_vars
  PROVE  OneWayInv(b)'
<1>1. LocalInv /\ IInv /\ Flows /\ OneWay(b)
  BY DEF OneWayInv, LocalInv
<1>2. AcksSafe
  BY <1>1, OneWaySafe
<1>3. LocalInv'
  BY <1>1, LocalInvNext
<1>4. Flows'
  BY <1>1, <1>2, FlowsNext
<1>5. OneWay(b)'
  BY <1>1, OneWayNext
<1> QED BY <1>3, <1>4, <1>5 DEF OneWayInv

\* When one endpoint has nothing to send, what it hands over is a prefix of what its peer
\* sent, for every number of frames: the sequence numbers may wrap around as often as they
\* like.
THEOREM DeliversInOrderOneWay ==
  MaxFull = 0 /\ (\E b \in Endpoint : MaxMsg[b] = 0) => (Spec => []InOrderDelivery)
<1> SUFFICES ASSUME MaxFull = 0, NEW b \in Endpoint, MaxMsg[b] = 0
             PROVE  Spec => []InOrderDelivery
  OBVIOUS
<1>1. Init => OneWayInv(b)
  BY LocalInvInit, FlowsInit, OneWayInit DEF OneWayInv
<1>2. OneWayInv(b) /\ [Next]_vars => OneWayInv(b)'
  BY OneWayInvNext
<1>3. OneWayInv(b) => InOrderDelivery
  BY FlowsInOrder DEF OneWayInv, LocalInv
<1> QED BY <1>1, <1>2, <1>3, PTL DEF Spec

\* And a frame leaves the send window only when the peer has it.
THEOREM AckedWasReceivedOneWay ==
  MaxFull = 0 /\ (\E b \in Endpoint : MaxMsg[b] = 0) => (Spec => []AckedWasReceived)
<1> SUFFICES ASSUME MaxFull = 0, NEW b \in Endpoint, MaxMsg[b] = 0
             PROVE  Spec => []AckedWasReceived
  OBVIOUS
<1>1. Init => OneWayInv(b)
  BY LocalInvInit, FlowsInit, OneWayInit DEF OneWayInv
<1>2. OneWayInv(b) /\ [Next]_vars => OneWayInv(b)'
  BY OneWayInvNext
<1>3. OneWayInv(b) => AckedWasReceived
  BY FlowsAcked DEF OneWayInv, LocalInv
<1> QED BY <1>1, <1>2, <1>3, PTL DEF Spec

-----------------------------------------------------------------------------
(***************************************************************************)
(* The refinement of ReliableFifo.                                         *)
(***************************************************************************)
\* A sequence that agrees with s up to its end extends it.
LEMMA Extension ==
  ASSUME NEW X, NEW s \in Seq(X), NEW t \in Seq(X), Len(s) <= Len(t),
         \A i \in 1 .. Len(s) : t[i] = s[i]
  PROVE  Fifo!IsExtension(t, s)
<1>1. PICK n \in Nat : n = Len(s)
  BY LenProperties
<1>2. PICK m \in Nat : m = Len(t)
  BY LenProperties
<1>3. n <= m
  BY <1>1, <1>2
<1>4. \A i \in 1 .. n : t[i] \in X
  <2>1. \A i \in 1 .. n : i \in 1 .. m
    BY <1>3
  <2> QED BY <2>1, <1>2, ElementOfSeq
<1>5. /\ SubSeq(t, 1, n) \in Seq(X)
      /\ Len(SubSeq(t, 1, n)) = IF 1 <= n THEN n - 1 + 1 ELSE 0
      /\ \A i \in 1 .. n - 1 + 1 : SubSeq(t, 1, n)[i] = t[1 + i - 1]
  BY <1>4, SubSeqProperties
<1>6. PICK z \in Seq(X) : z = SubSeq(t, 1, n)
  BY <1>5
<1>7. Len(z) = IF 1 <= n THEN n - 1 + 1 ELSE 0
  BY <1>5, <1>6
<1>8. Len(z) = n
  BY <1>7
<1>9. ASSUME NEW i \in 1 .. n
      PROVE  z[i] = s[i]
  <2>1. i \in 1 .. n - 1 + 1 /\ 1 + i - 1 = i
    OBVIOUS
  <2>2. SubSeq(t, 1, n)[i] = t[1 + i - 1]
    BY <2>1, <1>5
  <2> QED BY <2>1, <2>2, <1>1, <1>6
<1>10. z = s
  BY <1>1, <1>8, <1>9, SeqEqual
<1> QED BY <1>1, <1>6, <1>10 DEF Fifo!IsExtension

\* What the client of R has got.
Got(R) == [i \in 1 .. Len(R.handed) |-> R.handed[i].pdu]

\* It is a sequence of PDUs.
LEMMA GotType ==
  ASSUME NEW R, R \in Channel
  PROVE  /\ Got(R) \in Seq(Pdu) /\ Len(Got(R)) = Len(R.handed)
         /\ \A i \in 1 .. Len(R.handed) : Got(R)[i] = R.handed[i].pdu
<1>1. R.handed \in Seq(HandOver) /\ Len(R.handed) \in Nat
  BY Lengths DEF Channel
<1>2. PICK n \in Nat : n = Len(R.handed)
  BY <1>1
<1>3. \A i \in 1 .. n : R.handed[i].pdu \in Pdu
  <2>1. \A i \in 1 .. n : R.handed[i] \in HandOver
    BY <1>1, <1>2, ElementOfSeq
  <2> QED BY <2>1 DEF HandOver
<1>4. Got(R) \in [1 .. n -> Pdu]
  BY <1>2, <1>3 DEF Got
<1>5. \A i \in 1 .. n : Got(R)[i] = R.handed[i].pdu
  BY <1>2 DEF Got
<1>6. Got(R) \in Seq(Pdu) /\ Len(Got(R)) = n
  BY <1>4, FunctionIsSeq
<1> QED BY <1>2, <1>5, <1>6

\* The two queues of ReliableFifo in terms of the channels.
LEMMA FifoState ==
  /\ \A e \in Endpoint : [x \in Endpoint |-> ch[x].sent][e] = ch[e].sent
  /\ \A e \in Endpoint :
       [x \in Endpoint |-> [i \in 1 .. Len(ch[x].handed) |-> ch[x].handed[i].pdu]][e] = Got(ch[e])
  /\ \A e \in Endpoint : [x \in Endpoint |-> ch[x].sent]'[e] = ch'[e].sent
  /\ \A e \in Endpoint :
       [x \in Endpoint |-> [i \in 1 .. Len(ch[x].handed) |-> ch[x].handed[i].pdu]]'[e] = Got(ch'[e])
BY DEF Got

\* Two channels that were just created are two empty queues.
LEMMA FifoInit == Init => Fifo!Init
<1> SUFFICES ASSUME Init PROVE Fifo!Init
  OBVIOUS
<1>1. ASSUME NEW e \in Endpoint
      PROVE  /\ ch[e].sent = << >>
             /\ [i \in 1 .. Len(ch[e].handed) |-> ch[e].handed[i].pdu] = << >>
  <2>1. ch[e].sent = << >> /\ ch[e].handed = << >>
    BY DEF Init, InitChannel
  <2>2. 1 .. Len(ch[e].handed) = {}
    BY <2>1, EmptySeq
  <2>3. << >> = [i \in {} |-> ch[e].handed[i].pdu]
    OBVIOUS
  <2> QED BY <2>1, <2>2, <2>3
<1> QED BY <1>1 DEF Fifo!Init

\* A handler extends the history of what was sent.
LEMMA HandlerHistory ==
  ASSUME IInv, NEW e \in Endpoint, NEW s1, NEW s2, NEW s3, NEW s, NEW d,
         Handles(e, s1, s2, s3, s, d)
  PROVE  \A i \in 1 .. Len(ch[e].sent) : ch'[e].sent[i] = ch[e].sent[i]
<1>1. /\ ch'[e] = [s EXCEPT !.out = << >>] /\ ch'[e].sent = s.sent
  BY HandlerState
<1>2. SameTx(s2, s3)
  BY TakesSameTx DEF Handles
<1>3. /\ Len(ch[e].sent) <= Len(s1.sent) /\ s2.sent = s1.sent /\ s3.sent = s2.sent
      /\ \A i \in 1 .. Len(ch[e].sent) : s1.sent[i] = ch[e].sent[i]
      /\ \A i \in 1 .. Len(s3.sent) : s.sent[i] = s3.sent[i]
  BY <1>2 DEF Handles, Sends, Grows, Slides, SameTx
<1>4. PICK a \in Nat, b \in Nat : a = Len(ch[e].sent) /\ b = Len(s1.sent) /\ a <= b
  BY <1>3, Lengths DEF Handles, Good
<1>5. ASSUME NEW i \in 1 .. a
      PROVE  s.sent[i] = ch[e].sent[i]
  <2>1. i \in 1 .. b
    BY <1>4
  <2> QED BY <2>1, <1>3, <1>4
<1> QED BY <1>1, <1>4, <1>5

\* A handler of e is a step of e on the queues.
LEMMA HandlerIsFifoStep ==
  ASSUME MaxFull = 0, IInv, IInv', Flows, Flows', NEW e \in Endpoint,
         NEW s1, NEW s2, NEW s3, NEW s, NEW d, Handles(e, s1, s2, s3, s, d)
  PROVE  Fifo!Step(e)
<1> DEFINE p == Peer(e)
<1>1. p \in Endpoint /\ p # e /\ Peer(p) = e
  BY PeerType, BothEnds
<1>2. ch[e] \in Channel /\ ch[p] \in Channel /\ ch'[e] \in Channel
  BY <1>1 DEF IInv, TypeOK
<1>3. /\ Len(ch[e].sent) <= Len(ch'[e].sent) /\ ch'[p] = ch[p]
      /\ \A i \in 1 .. Len(ch[e].sent) : ch'[e].sent[i] = ch[e].sent[i]
  BY HandlerSent, HandlerHistory
<1>4. /\ Len(ch[e].handed) <= Len(s3.handed) /\ s.handed = s3.handed
      /\ \A i \in 1 .. Len(ch[e].handed) : s.handed[i] = ch[e].handed[i]
  BY HandlerReceives
<1>5. ch'[e] = [s EXCEPT !.out = << >>] /\ SameRx(s, ch'[e])
  BY HandlerState
<1>6. /\ Len(ch[e].handed) <= Len(ch'[e].handed)
      /\ \A i \in 1 .. Len(ch[e].handed) : ch'[e].handed[i] = ch[e].handed[i]
  BY <1>4, <1>5 DEF SameRx
<1>7. /\ Len(ch'[e].handed) <= Len(ch[p].sent)
      /\ \A i \in 1 .. Len(ch'[e].handed) : ch'[e].handed[i].pdu = ch[p].sent[i]
  <2>1. ASSUME NEW x \in Endpoint
        PROVE  /\ ch'[x] \in Channel
               /\ At(ch'[Peer(x)], ch'[x].expectedTxSeq) = Len(ch'[x].handed)
               /\ \A i \in 1 .. Len(ch'[x].handed) :
                    ch'[x].handed[i].pdu = ch'[Peer(x)].sent[i]
    <3>1. Peer(x) \in Endpoint /\ Peer(Peer(x)) = x
      BY PeerType, BothEnds
    <3>2. Flow(ch[Peer(x)], ch[x], net[x], alive[Peer(x)])'
      BY <3>1 DEF Flows
    <3> QED BY <3>2 DEF Flow, Received, IInv, TypeOK, At, Place, Behind
  <2>2. /\ At(ch[p], ch'[e].expectedTxSeq) = Len(ch'[e].handed)
        /\ \A i \in 1 .. Len(ch'[e].handed) : ch'[e].handed[i].pdu = ch[p].sent[i]
    BY <2>1, <1>3
  <2>3. Len(ch[p].sent) \in Nat /\ ch[p].nextTxSeq \in SeqNum /\ ch'[e].expectedTxSeq \in SeqNum
    BY <1>2, Lengths DEF Channel
  <2>4. Place(ch'[e].expectedTxSeq, ch[p].nextTxSeq, Len(ch[p].sent)) <= Len(ch[p].sent)
    BY <2>3, PlaceType
  <2> QED BY <2>2, <2>4 DEF At
<1>8. \A x \in Endpoint : x = e \/ x = p
  BY BothEnds
<1> HIDE DEF p
<1>9. Fifo!IsExtension(ch'[e].sent, ch[e].sent)
  BY <1>2, <1>3, Extension DEF Channel
<1>10. Fifo!IsExtension(Got(ch'[e]), Got(ch[e]))
  <2>1. /\ Got(ch[e]) \in Seq(Pdu) /\ Len(Got(ch[e])) = Len(ch[e].handed)
        /\ \A i \in 1 .. Len(ch[e].handed) : Got(ch[e])[i] = ch[e].handed[i].pdu
    BY <1>2, GotType
  <2>2. /\ Got(ch'[e]) \in Seq(Pdu) /\ Len(Got(ch'[e])) = Len(ch'[e].handed)
        /\ \A i \in 1 .. Len(ch'[e].handed) : Got(ch'[e])[i] = ch'[e].handed[i].pdu
    BY <1>2, GotType
  <2>3. PICK g \in Nat, h \in Nat : g = Len(ch[e].handed) /\ h = Len(ch'[e].handed) /\ g <= h
    BY <1>2, <1>6, Lengths
  <2>4. ASSUME NEW i \in 1 .. g
        PROVE  Got(ch'[e])[i] = Got(ch[e])[i]
    <3>1. i \in 1 .. h
      BY <2>3
    <3> QED BY <3>1, <2>1, <2>2, <2>3, <1>6
  <2> QED BY <2>1, <2>2, <2>3, <2>4, Extension
<1>11. Fifo!IsExtension(ch[p].sent, Got(ch'[e]))
  <2>1. /\ Got(ch'[e]) \in Seq(Pdu) /\ Len(Got(ch'[e])) = Len(ch'[e].handed)
        /\ \A i \in 1 .. Len(ch'[e].handed) : Got(ch'[e])[i] = ch'[e].handed[i].pdu
    BY <1>2, GotType
  <2>2. ch[p].sent \in Seq(Pdu)
    BY <1>2 DEF Channel
  <2>3. \A i \in 1 .. Len(Got(ch'[e])) : ch[p].sent[i] = Got(ch'[e])[i]
    BY <2>1, <1>7
  <2> QED BY <2>1, <2>2, <2>3, <1>7, Extension
<1>12. Got(ch'[p]) = Got(ch[p])
  BY <1>3
<1> QED BY <1>1, <1>3, <1>8, <1>9, <1>10, <1>11, <1>12, FifoState DEF Fifo!Step, Fifo!Others

\* A step that changes no history is no step of the queues.
LEMMA SameHistories ==
  ASSUME \A e \in Endpoint : ch'[e].sent = ch[e].sent /\ ch'[e].handed = ch[e].handed
  PROVE  /\ [x \in Endpoint |-> ch[x].sent]' = [x \in Endpoint |-> ch[x].sent]
         /\ [x \in Endpoint |-> [i \in 1 .. Len(ch[x].handed) |-> ch[x].handed[i].pdu]]'
              = [x \in Endpoint |-> [i \in 1 .. Len(ch[x].handed) |-> ch[x].handed[i].pdu]]
OBVIOUS

\* The variables of ReliableFifo.
FifoVars ==
    <<[e \in Endpoint |-> ch[e].sent],
      [e \in Endpoint |-> [i \in 1 .. Len(ch[e].handed) |-> ch[e].handed[i].pdu]]>>

\* Every step of the two endpoints and the link is a step of the queues, or none.
LEMMA StepIsFifoStep ==
  ASSUME MaxFull = 0, LocalInv, Flows, AcksSafe, [Next]_vars
  PROVE  [Fifo!Next]_FifoVars
<1>1. IInv /\ Flows'
  BY FlowsNext DEF LocalInv
<1>2. IInv'
  <2>1. LocalInv'
    BY LocalInvNext
  <2> QED BY <2>1 DEF LocalInv
<1>3. CASE \E e \in Endpoint : \E s1, s2, s3, s, d : Handles(e, s1, s2, s3, s, d)
  <2>1. \E e \in Endpoint : Fifo!Step(e)
    BY <1>1, <1>2, <1>3, HandlerIsFifoStep
  <2> QED BY <2>1 DEF Fifo!Next
<1>4. CASE \E e \in Endpoint : LoseFrame(e)
  <2>1. ch' = ch
    BY <1>4 DEF LoseFrame
  <2> QED BY <2>1, SameHistories DEF FifoVars
<1>5. CASE \E e \in Endpoint : ChannelDel(e)
  <2>1. PICK e \in Endpoint : ChannelDel(e)
    BY <1>5
  <2>2. /\ ch'[Peer(e)] = ch[Peer(e)]
        /\ ch'[e].sent = ch[e].sent /\ ch'[e].handed = ch[e].handed
    BY <2>1, <1>1, ChannelDelState
  <2>3. \A x \in Endpoint : x = e \/ x = Peer(e)
    BY BothEnds
  <2>4. \A x \in Endpoint : ch'[x].sent = ch[x].sent /\ ch'[x].handed = ch[x].handed
    BY <2>2, <2>3
  <2> QED BY <2>4, SameHistories DEF FifoVars
<1>6. CASE UNCHANGED vars
  <2>1. ch' = ch
    BY <1>6 DEF vars
  <2> QED BY <2>1, SameHistories DEF FifoVars
<1> QED BY <1>3, <1>4, <1>5, <1>6, Steps

\* For any traffic in both directions and any number of frames: as long as no stale
\* acknowledgement frees a frame the peer does not have, the two windows over the lossy
\* link are two first-in first-out queues (SendEnhanceFrameInner, RecvEnhanceFrameInner).
THEOREM RefinesFifoWhileAcksSafe == MaxFull = 0 => (Spec /\ []AcksSafe => RefinesFifo)
<1> SUFFICES ASSUME MaxFull = 0 PROVE Spec /\ []AcksSafe => RefinesFifo
  OBVIOUS
<1>1. Init => LocalInv /\ Flows /\ Fifo!Init
  BY LocalInvInit, FlowsInit, FifoInit
<1>2. LocalInv /\ Flows /\ AcksSafe /\ [Next]_vars => (LocalInv /\ Flows)'
  <2> SUFFICES ASSUME LocalInv, Flows, AcksSafe, [Next]_vars PROVE LocalInv' /\ Flows'
    OBVIOUS
  <2> QED BY LocalInvNext, FlowsNext
<1>3. LocalInv /\ Flows /\ AcksSafe /\ [Next]_vars =>
        [Fifo!Next]_FifoVars
  BY StepIsFifoStep
<1>4. Spec /\ []AcksSafe => Fifo!Init /\ [][Fifo!Next]_FifoVars
  BY <1>1, <1>2, <1>3, PTL DEF Spec
<1>5. Fifo!Init /\ [][Fifo!Next]_FifoVars => RefinesFifo
  BY PTL DEF RefinesFifo, Fifo!Spec, FifoVars
<1> QED BY <1>4, <1>5, PTL

\* Under the same condition delivery is in order and what is freed was handed over, for
\* both directions and any number of frames.
THEOREM DeliversWhileAcksSafe ==
  MaxFull = 0 => (Spec /\ []AcksSafe => [](InOrderDelivery /\ AckedWasReceived))
<1> SUFFICES ASSUME MaxFull = 0
             PROVE  Spec /\ []AcksSafe => [](InOrderDelivery /\ AckedWasReceived)
  OBVIOUS
<1>1. Init => LocalInv /\ Flows
  BY LocalInvInit, FlowsInit
<1>2. LocalInv /\ Flows /\ AcksSafe /\ [Next]_vars => (LocalInv /\ Flows)'
  <2> SUFFICES ASSUME LocalInv, Flows, AcksSafe, [Next]_vars PROVE LocalInv' /\ Flows'
    OBVIOUS
  <2> QED BY LocalInvNext, FlowsNext
<1>3. LocalInv /\ Flows => InOrderDelivery /\ AckedWasReceived
  BY FlowsInOrder, FlowsAcked DEF LocalInv
<1> QED BY <1>1, <1>2, <1>3, PTL DEF Spec

\* The reliable mode with one sender implements the queue, however many frames it sends.
THEOREM RefinesFifoOneWay ==
  MaxFull = 0 /\ (\E b \in Endpoint : MaxMsg[b] = 0) => (Spec => RefinesFifo)
<1> SUFFICES ASSUME MaxFull = 0, NEW b \in Endpoint, MaxMsg[b] = 0
             PROVE  Spec => RefinesFifo
  OBVIOUS
<1>1. Init => OneWayInv(b)
  BY LocalInvInit, FlowsInit, OneWayInit DEF OneWayInv
<1>2. OneWayInv(b) /\ [Next]_vars => OneWayInv(b)'
  BY OneWayInvNext
<1>3. OneWayInv(b) => AcksSafe
  BY OneWaySafe DEF OneWayInv, LocalInv
<1>4. Spec /\ []AcksSafe => RefinesFifo
  BY RefinesFifoWhileAcksSafe
<1> QED BY <1>1, <1>2, <1>3, <1>4, PTL DEF Spec

\* The reliable mode with two senders implements the queues until an endpoint has used up
\* its sequence numbers.
THEOREM RefinesFifoBeforeWrap ==
  MaxFull = 0 => (Spec /\ []FewFrames => RefinesFifo)
<1> SUFFICES ASSUME MaxFull = 0 PROVE Spec /\ []FewFrames => RefinesFifo
  OBVIOUS
<1>1. Init => EarlyInv
  BY LocalInvInit, FlowsInit, ShortInit DEF EarlyInv
<1>2. EarlyInv /\ [Next]_vars => EarlyInv'
  BY EarlyInvNext
<1>3. EarlyInv /\ FewFrames => AcksSafe
  BY ShortSafe DEF EarlyInv, LocalInv
<1>4. Spec /\ []AcksSafe => RefinesFifo
  BY RefinesFifoWhileAcksSafe
<1> QED BY <1>1, <1>2, <1>3, <1>4, PTL DEF Spec

=============================================================================
