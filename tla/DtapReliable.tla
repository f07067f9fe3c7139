---------------------------- MODULE DtapReliable ----------------------------
(***************************************************************************)
(* The reliable transmission mode of DTAP (dtap_trans_reliable.c, with the *)
(* cached-message path of dtap.c): two endpoints of one transmission       *)
(* channel, each with a send window, a receive window, three timers and a  *)
(* one-message cache, over a link that delivers frames in order but may    *)
(* lose them.                                                              *)
(*                                                                         *)
(* Every handler runs to its end on the one worker thread of the control   *)
(* plane (CP_PostTask, CP_TimerAdd), so a handler is one action.  A        *)
(* handler is written as an operator from a channel to a channel; the      *)
(* frames it sends are collected in "out" and put on the link when the     *)
(* action commits.                                                         *)
(***************************************************************************)
EXTENDS DtapSeq, Sequences

CONSTANTS
    A, B,             \* the two endpoints of the channel
    WinSize,          \* txWindow.size and rxWindow.size (uint8_t)
    MaxTxThreshold,   \* maxTxThreshold (uint8_t)
    FrameCnt,         \* FrameCnt[m][d]: the frames message m is cut into, d iff duplex headers
    MaxMsg,           \* bound: MaxMsg[e] is the number of messages the client of e sends
    NetCap,           \* bound: the frames the link holds in one direction
    SendOutcomes,     \* the outcomes of DTAP_SendFrame that are explored
    MaxFull           \* bound: how often recvCb may answer DTAP_TRANS_RELIABLE_TRANS_CHANNEL_FULL
                      \* to one frame; 0 if it never does

Endpoint == {A, B}
Msg == DOMAIN FrameCnt
NoMsg == 0

ASSUME ReliableAssumption ==
    /\ A # B
    /\ WinSize \in Nat \ {0} /\ 2 * WinSize < SeqMod
    /\ MaxTxThreshold \in Nat
    /\ Msg \subseteq Nat \ {NoMsg}
    /\ FrameCnt \in [Msg -> [BOOLEAN -> Nat \ {0}]]
    /\ MaxMsg \in [Endpoint -> Nat]
    /\ \A e \in Endpoint : 1 .. MaxMsg[e] \subseteq Msg
    /\ NetCap \in Nat
    /\ SendOutcomes \subseteq BOOLEAN
    /\ MaxFull \in Nat

VARIABLES
    ch,        \* ch[e]: the DTAP_ReliableChannel_S of endpoint e
    net,       \* net[e]: the frames on their way to e
    alive,     \* alive[e]: the channel exists at e
    offered    \* offered[e]: the number of messages the client of e has sent

vars == <<ch, net, alive, offered>>

Peer(e) == IF e = A THEN B ELSE A

(***************************************************************************)
(* Frames.  A PDU is one fragment of a message: idx of cnt fixes its SAR   *)
(* field.  A simplex frame has no ReqSeq field; a parser of one reads      *)
(* SEQ_INIT.                                                               *)
(***************************************************************************)
Pdu == [msg : Msg, idx : Nat \ {0}, cnt : Nat \ {0}]

AckFrame == [type : {"ack"}, reqSeq : SeqNum, sBit : BOOLEAN]

DataFrame == [type : {"simplex", "duplex"}, txSeq : SeqNum,
              reqSeq : SeqNum \cup {SEQ_INIT}, pdu : Pdu, pBit : BOOLEAN]

\* A frame of txList: a data frame and how often it was sent again.
TxFrame == [frame : DataFrame, reTxCnt : 0 .. MaxTxThreshold]

\* A frame of rxList: trims counts the calls of DTAP_RecvFragmentFrame that cut its buffer.
RxFrame == [txSeq : SeqNum, pdu : Pdu, trims : Nat]

\* What the upper layer has taken, and how often the buffer had been cut before.
HandOver == [pdu : Pdu, trims : Nat]

\* SEND_POLLING_CNT_THRESHOLD_FACTOR 4: the least counter with counter * 4 >= size.
PollingThreshold == (WinSize + 3) \div 4

Channel == [
    reTxSeq            : SeqNum,
    nextTxSeq          : SeqNum,
    expectedAckSeq     : SeqNum,
    txList             : Seq(TxFrame),
    bufferSeq          : SeqNum,
    expectedTxSeq      : SeqNum,
    maxExpectedTxSeq   : SeqNum,
    rxList             : Seq(RxFrame),
    nackCnt            : 0 .. MaxTxThreshold,
    isRecvFrame        : BOOLEAN,
    isRxWindowFull     : BOOLEAN,
    isTxWindowFull     : BOOLEAN,
    cacheBuff          : Msg \cup {NoMsg},
    sendPollingCounter : 0 .. PollingThreshold,
    retransTimer       : BOOLEAN,        \* running or INVALID_TIMER_HANDLE
    reorderTimer       : BOOLEAN,
    isDestroyMsgSent   : BOOLEAN,
    transBusy          : BOOLEAN,        \* TRANSFER_BUSY, as the data transfer service sees it
    out                : Seq(AckFrame \cup DataFrame),
    sent               : Seq(Pdu),       \* history: the PDUs that entered txList
    handed             : Seq(HandOver)]  \* history: the PDUs the upper layer has taken

\* DTAP_ReliableChannelCreate.  The response timer runs from here on and is never stopped.
InitChannel == [
    reTxSeq |-> 0, nextTxSeq |-> 0, expectedAckSeq |-> 0, txList |-> << >>,
    bufferSeq |-> 0, expectedTxSeq |-> 0, maxExpectedTxSeq |-> 0, rxList |-> << >>,
    nackCnt |-> 0, isRecvFrame |-> FALSE, isRxWindowFull |-> FALSE,
    isTxWindowFull |-> FALSE, cacheBuff |-> NoMsg, sendPollingCounter |-> 0,
    retransTimer |-> FALSE, reorderTimer |-> FALSE, isDestroyMsgSent |-> FALSE,
    transBusy |-> FALSE, out |-> << >>, sent |-> << >>, handed |-> << >>]

-----------------------------------------------------------------------------
(***************************************************************************)
(* Sending.                                                                *)
(***************************************************************************)
SendFrame(s, frame, ok) == IF ok THEN [s EXCEPT !.out = Append(@, frame)] ELSE s

SendAckFrame(s, sBit, ok) ==
    SendFrame(s, [type |-> "ack", sBit |-> sBit,
                  reqSeq |-> IF sBit THEN s.expectedTxSeq ELSE s.bufferSeq], ok)

HasTxSeq(list, seq) == \E i \in DOMAIN list : list[i].frame.txSeq = seq

TxIndex(list, seq) == CHOOSE i \in DOMAIN list : list[i].frame.txSeq = seq

RetransResult(s, ok) ==
    IF ~HasTxSeq(s.txList, s.reTxSeq) THEN "find_frame_err"
    ELSE IF s.txList[TxIndex(s.txList, s.reTxSeq)].reTxCnt >= MaxTxThreshold
         THEN "reach_max_re_tx_cnt"
    ELSE IF ok THEN "success" ELSE "send_err"

\* The P bit is set before the frame is sent, so it stays set when sending fails.
RetransEnhanceFrame(s, ok) ==
    LET i == TxIndex(s.txList, s.reTxSeq)
        result == RetransResult(s, ok)
        polled == [s.txList[i].frame EXCEPT !.pBit = TRUE]
    IN  CASE result = "find_frame_err" -> s
          [] result = "reach_max_re_tx_cnt" -> [s EXCEPT !.isDestroyMsgSent = TRUE]
          [] result = "send_err" -> [s EXCEPT !.txList[i].frame = polled]
          [] result = "success" ->
               [s EXCEPT !.txList[i] = [frame |-> polled, reTxCnt |-> @.reTxCnt + 1],
                         !.out = Append(@, polled),
                         !.retransTimer = TRUE]

\* DTAP_TriggerSendPolling over n frames: the counter runs 0 .. PollingThreshold and the
\* frame that finds it at the threshold carries the P bit.
PollingAt(counter, n) == (counter + n) % (PollingThreshold + 1)

\* Mutant of PackEnhanceFrames: the piggybacked acknowledgement is of the newest frame.
PackEnhanceFramesAckNewest(s, m) ==
    LET cnt == FrameCnt[m][s.isRecvFrame]
    IN  [i \in 1 .. cnt |->
          [type   |-> IF s.isRecvFrame THEN "duplex" ELSE "simplex",
           txSeq  |-> SeqAdd(s.nextTxSeq, i - 1),
           reqSeq |-> IF s.isRecvFrame THEN s.maxExpectedTxSeq ELSE SEQ_INIT,
           pdu    |-> [msg |-> m, idx |-> i, cnt |-> cnt],
           pBit   |-> PollingAt(s.sendPollingCounter, i - 1) = PollingThreshold]]

\* DTAP_PackEnhanceFrames: every frame of a message acknowledges what was expected when
\* the message was packed.
PackEnhanceFrames(s, m) ==
    LET cnt == FrameCnt[m][s.isRecvFrame]
    IN  [i \in 1 .. cnt |->
          [type   |-> IF s.isRecvFrame THEN "duplex" ELSE "simplex",
           txSeq  |-> SeqAdd(s.nextTxSeq, i - 1),
           reqSeq |-> IF s.isRecvFrame THEN s.expectedTxSeq ELSE SEQ_INIT,
           pdu    |-> [msg |-> m, idx |-> i, cnt |-> cnt],
           pBit   |-> PollingAt(s.sendPollingCounter, i - 1) = PollingThreshold]]

\* The old PDU that SendEnhanceFrameInner sends again before the new ones.
RetransBeforeSend(s, ok) ==
    IF IsFrameSeqSmaller(s.reTxSeq, s.nextTxSeq)
    THEN [RetransEnhanceFrame(s, ok) EXCEPT !.reTxSeq = s.nextTxSeq]
    ELSE s

\* Whether that retransmission has reached its maximum: nothing new is sent then.
SendGivesUp(s, ok) ==
    /\ IsFrameSeqSmaller(s.reTxSeq, s.nextTxSeq)
    /\ RetransResult(s, ok) = "reach_max_re_tx_cnt"

\* A new frame enters txList whether or not it could be sent, and nothing but its absence
\* from the link tells the two apart: a failed send is a frame the link loses.
SendEnhanceFrameInner(s, m, ok) ==
    LET frames == PackEnhanceFrames(s, m)
        cnt == FrameCnt[m][s.isRecvFrame]
        s1 == RetransBeforeSend(s, ok)
    IN  IF SendGivesUp(s, ok)
        THEN RetransEnhanceFrame(s, ok)
        ELSE [s1 EXCEPT
                !.sendPollingCounter = PollingAt(@, cnt),
                !.out = @ \o frames,
                !.reTxSeq = SeqAdd(@, cnt),
                !.nextTxSeq = SeqAdd(@, cnt),
                !.txList = @ \o [i \in 1 .. cnt |-> [frame |-> frames[i], reTxCnt |-> 0]],
                !.retransTimer = TRUE,
                !.sent = @ \o [i \in 1 .. cnt |-> frames[i].pdu]]

\* Mutant of SendEnhanceFrame: only a window that is full already refuses the message.
SendEnhanceFrameIfAnyRoom(s, m, ok) ==
    IF Len(s.txList) >= WinSize
    THEN [s EXCEPT !.cacheBuff = IF @ = NoMsg THEN m ELSE @,
                   !.isTxWindowFull = TRUE]
    ELSE SendEnhanceFrameInner(s, m, ok)

SendEnhanceFrame(s, m, ok) ==
    LET need == Len(s.txList) + FrameCnt[m][s.isRecvFrame]
    IN  IF need > WinSize
        THEN [s EXCEPT !.cacheBuff = IF @ = NoMsg THEN m ELSE @,
                       !.isTxWindowFull = TRUE]
        ELSE SendEnhanceFrameInner(
               [s EXCEPT !.isTxWindowFull = @ \/ need = WinSize], m, ok)

\* DTAP_TRANS_RELIABLE_TX_WINDOW_FULL is returned also for a message that was sent.
SendReportsFull(s, m, ok) ==
    LET need == Len(s.txList) + FrameCnt[m][s.isRecvFrame]
    IN  need > WinSize \/ (SendEnhanceFrame(s, m, ok).isTxWindowFull /\ ~SendGivesUp(s, ok))

\* DTAP_TransSendCacheBuff: the cached message waits until it leaves the window not full.
TransSendCacheBuff(s, ok) ==
    IF Len(s.txList) + FrameCnt[s.cacheBuff][s.isRecvFrame] >= WinSize
    THEN s
    ELSE [SendEnhanceFrame([s EXCEPT !.isTxWindowFull = FALSE], s.cacheBuff, ok)
            EXCEPT !.cacheBuff = NoMsg, !.transBusy = FALSE]

\* Mutant of TransChannelStatusChange: report "available" before the cached message is sent.
TransChannelStatusChangeIgnoresCache(s, ok) ==
    IF s.isTxWindowFull /\ Len(s.txList) < WinSize
    THEN [s EXCEPT !.isTxWindowFull = FALSE, !.transBusy = FALSE]
    ELSE s

\* Mutant of TransChannelStatusChange: nothing is reported when no message is cached.
TransChannelStatusChangeOnlyCache(s, ok) ==
    IF s.isTxWindowFull /\ s.cacheBuff # NoMsg THEN TransSendCacheBuff(s, ok) ELSE s

TransChannelStatusChange(s, ok) ==
    IF ~s.isTxWindowFull THEN s
    ELSE IF s.cacheBuff # NoMsg THEN TransSendCacheBuff(s, ok)
    ELSE IF Len(s.txList) < WinSize
         THEN [s EXCEPT !.isTxWindowFull = FALSE, !.transBusy = FALSE]
    ELSE s

-----------------------------------------------------------------------------
(***************************************************************************)
(* Receiving.                                                              *)
(***************************************************************************)
\* The list without its longest prefix of frames that are smaller than reqSeq.
DropAcked(list, reqSeq) ==
    LET n == CHOOSE n \in 0 .. Len(list) :
               /\ \A j \in 1 .. n : IsFrameSeqSmaller(list[j].frame.txSeq, reqSeq)
               /\ n < Len(list) => ~IsFrameSeqSmaller(list[n + 1].frame.txSeq, reqSeq)
    IN  SubSeq(list, n + 1, Len(list))

AckInWindow(s, reqSeq) ==
    \/ /\ IsFrameSeqSmaller(s.expectedAckSeq, reqSeq)
       /\ IsFrameSeqSmaller(reqSeq, s.nextTxSeq)
    \/ reqSeq = s.nextTxSeq

\* Mutant of RetransTimerAfterAck: every acknowledgement stops the timer.
RetransTimerAfterAckStopped(s, reqSeq) == FALSE

\* The timer is stopped when everything is acknowledged and restarted otherwise.
RetransTimerAfterAck(s, reqSeq) == reqSeq # s.nextTxSeq

SlideTxWindow(s, reqSeq) ==
    LET moved == [s EXCEPT !.sendPollingCounter = 0,
                           !.reTxSeq = IF IsFrameSeqSmaller(@, reqSeq) THEN reqSeq ELSE @]
    IN  IF reqSeq = SEQ_INIT THEN s
        ELSE IF s.txList = << >> THEN [s EXCEPT !.sendPollingCounter = 0]
        ELSE IF ~AckInWindow(s, reqSeq) THEN moved
        ELSE [moved EXCEPT !.expectedAckSeq = reqSeq,
                           !.txList = DropAcked(@, reqSeq),
                           !.retransTimer = RetransTimerAfterAck(s, reqSeq)]

HasRxSeq(list, seq) == \E i \in DOMAIN list : list[i].txSeq = seq

CheckEnhanceFrameTxSeq(s, txSeq) ==
    /\ ~IsFrameSeqSmaller(txSeq, s.expectedTxSeq)
    /\ \/ txSeq = s.expectedTxSeq
       \/ /\ IsFrameSeqSmaller(txSeq, SeqAdd(s.bufferSeq, WinSize))
          /\ ~HasRxSeq(s.rxList, txSeq)

\* Insert before the first frame that is greater, or at the end.
InsertRx(list, f) ==
    LET n == CHOOSE n \in 0 .. Len(list) :
               /\ \A j \in 1 .. n : ~IsFrameSeqSmaller(f.txSeq, list[j].txSeq)
               /\ n < Len(list) => IsFrameSeqSmaller(f.txSeq, list[n + 1].txSeq)
    IN  SubSeq(list, 1, n) \o <<f>> \o SubSeq(list, n + 1, Len(list))

\* The first of the WinSize numbers after seq that is not in the list; seq if all are.
NextMissing(list, seq) ==
    LET missing == {k \in 1 .. WinSize : ~HasRxSeq(list, SeqAdd(seq, k))}
    IN  IF missing = {} THEN seq
        ELSE SeqAdd(seq, CHOOSE k \in missing : \A j \in missing : k <= j)

SlideRxWindow(s, txSeq, pdu) ==
    LET list == InsertRx(s.rxList, [txSeq |-> txSeq, pdu |-> pdu, trims |-> 0])
        next == NextMissing(list, txSeq)
        advances == txSeq = s.expectedTxSeq /\ next # txSeq
    IN  [s EXCEPT
           !.isRecvFrame = TRUE,
           !.rxList = list,
           !.expectedTxSeq = IF advances THEN next ELSE @,
           !.nackCnt = IF advances THEN 0 ELSE @,
           !.maxExpectedTxSeq = IF IsFrameSeqSmaller(@, txSeq) \/ @ = txSeq
                                THEN GetNextFrameSeq(txSeq) ELSE @]

\* Mutant of OperateReorderTimer: the operands of the comparison are swapped.
OperateReorderTimerSwapped(s) ==
    [s EXCEPT !.reorderTimer =
        IF @ THEN s.expectedTxSeq # s.maxExpectedTxSeq
             ELSE IsFrameSeqSmaller(s.maxExpectedTxSeq, s.expectedTxSeq)]

OperateReorderTimer(s) ==
    [s EXCEPT !.reorderTimer =
        IF @ THEN s.expectedTxSeq # s.maxExpectedTxSeq
             ELSE IsFrameSeqSmaller(s.expectedTxSeq, s.maxExpectedTxSeq)]

\* Mutant of Deliverable: hand over what is in the list, gaps or not.
DeliverableWithGaps(s) == Len(s.rxList)

\* The frames at the head of rxList that follow bufferSeq without a gap.
Deliverable(s) ==
    CHOOSE n \in 0 .. Len(s.rxList) :
        /\ \A j \in 1 .. n : s.rxList[j].txSeq = SeqAdd(s.bufferSeq, j - 1)
        /\ n < Len(s.rxList) => s.rxList[n + 1].txSeq # SeqAdd(s.bufferSeq, n)

\* recvCb is called, and so may answer "full", for the last fragment of a message.  A
\* last fragment handed over again finds no fragments to complete: recvCb is not called.
MayAnswerFull(f) ==
    /\ f.trims < MaxFull
    /\ f.pdu.idx = f.pdu.cnt
    /\ f.pdu.cnt > 1 => f.trims = 0

\* The numbers of frames the upper layer may take before it answers "full", if ever.
HandOvers(s) ==
    IF s.isRxWindowFull THEN {0}
    ELSE {k \in 0 .. Deliverable(s) : k < Deliverable(s) => MayAnswerFull(s.rxList[k + 1])}

\* DTAP_RecvEnhanceFrameInner, when the upper layer takes k frames.  The frame that is
\* answered with "full" stays in rxList, but DTAP_RecvFragmentFrame has cut its buffer.
RecvEnhanceFrameInner(s, k) ==
    LET n == Deliverable(s)
        taken == [i \in 1 .. k |-> [pdu |-> s.rxList[i].pdu, trims |-> s.rxList[i].trims]]
        rest == SubSeq(s.rxList, k + 1, Len(s.rxList))
        moved == [s EXCEPT !.bufferSeq = SeqAdd(@, k),
                           !.rxList = rest,
                           !.handed = @ \o taken]
    IN  IF s.isRxWindowFull THEN s
        ELSE IF k = n THEN moved
        ELSE [moved EXCEPT !.rxList[1].trims = @ + 1,
                           !.isRxWindowFull = TRUE]

\* DTAP_RecvNackFrame and what follows it for an acknowledgement frame.
RecvAckFrame(s, f, ok) ==
    LET asked == [s EXCEPT !.reTxSeq = f.reqSeq]
        s1 == IF f.sBit THEN RetransEnhanceFrame(asked, ok) ELSE s
    IN  IF f.sBit /\ RetransResult(asked, ok) = "reach_max_re_tx_cnt"
        THEN s1
        ELSE TransChannelStatusChange(SlideTxWindow(s1, f.reqSeq), ok)

\* DTAP_RecvEnhanceFrame for a data frame, up to the call of RecvEnhanceFrameInner.
RecvIntoWindow(s, f) ==
    OperateReorderTimer(SlideRxWindow(SlideTxWindow(s, f.reqSeq), f.txSeq, f.pdu))

\* The whole handler: k is the number of frames the upper layer takes.
RecvDataFrame(s, f, k, ok) ==
    LET s1 == RecvEnhanceFrameInner(RecvIntoWindow(s, f), k)
        s2 == IF f.pBit THEN SendAckFrame(s1, FALSE, ok) ELSE s1
    IN  TransChannelStatusChange(s2, ok)

-----------------------------------------------------------------------------
(***************************************************************************)
(* Actions.                                                                *)
(***************************************************************************)
\* The link takes frames up to its capacity and loses the rest.
Transmit(queue, frames) ==
    LET all == queue \o frames
    IN  SubSeq(all, 1, IF Len(all) <= NetCap THEN Len(all) ELSE NetCap)

Commit(e, s) ==
    /\ ch' = [ch EXCEPT ![e] = [s EXCEPT !.out = << >>]]
    /\ net' = [net EXCEPT ![Peer(e)] = Transmit(@, s.out)]

\* TRANS_SendData down to DTAP_SendEnhanceFrame.  The data transfer service stops
\* sending when a send reports a full window, until the channel status changes.
Send(e) ==
    /\ alive[e] /\ ~ch[e].transBusy /\ offered[e] < MaxMsg[e]
    /\ offered' = [offered EXCEPT ![e] = @ + 1]
    /\ \E ok \in SendOutcomes :
         Commit(e, [SendEnhanceFrame(ch[e], offered[e] + 1, ok)
                      EXCEPT !.transBusy = SendReportsFull(ch[e], offered[e] + 1, ok)])
    /\ UNCHANGED alive

\* Take the first frame off the link to e and let s be the channel after it.
Receive(e, s) ==
    /\ ch' = [ch EXCEPT ![e] = [s EXCEPT !.out = << >>]]
    /\ net' = [net EXCEPT ![e] = Tail(@), ![Peer(e)] = Transmit(@, s.out)]
    /\ UNCHANGED <<alive, offered>>

RecvAck(e) ==
    /\ alive[e] /\ net[e] # << >> /\ Head(net[e]).type = "ack"
    /\ \E ok \in SendOutcomes : Receive(e, RecvAckFrame(ch[e], Head(net[e]), ok))

RecvData(e) ==
    /\ alive[e] /\ net[e] # << >> /\ Head(net[e]).type # "ack"
    /\ CheckEnhanceFrameTxSeq(ch[e], Head(net[e]).txSeq)
    /\ \E ok \in SendOutcomes : \E k \in HandOvers(RecvIntoWindow(ch[e], Head(net[e]))) :
         Receive(e, RecvDataFrame(ch[e], Head(net[e]), k, ok))

\* A frame that DTAP_CheckEnhanceFrame refuses is dropped, its ReqSeq and P bit with it.
RefuseData(e) ==
    /\ alive[e] /\ net[e] # << >> /\ Head(net[e]).type # "ack"
    /\ ~CheckEnhanceFrameTxSeq(ch[e], Head(net[e]).txSeq)
    /\ Receive(e, ch[e])

\* The link loses a frame, or a check of its CRC fails, or the channel is gone.
LoseFrame(e) ==
    /\ net[e] # << >>
    /\ net' = [net EXCEPT ![e] = Tail(@)]
    /\ UNCHANGED <<ch, alive, offered>>

RspTimerExpireProc(e) ==
    /\ alive[e]
    /\ \E ok \in SendOutcomes : Commit(e, SendAckFrame(ch[e], FALSE, ok))
    /\ UNCHANGED <<alive, offered>>

ReorderTimerExpireProc(e) ==
    /\ alive[e] /\ ch[e].reorderTimer
    /\ \E ok \in SendOutcomes :
         Commit(e, IF ch[e].nackCnt >= MaxTxThreshold
                   THEN [ch[e] EXCEPT !.isDestroyMsgSent = TRUE]
                   ELSE [SendAckFrame(ch[e], TRUE, ok)
                           EXCEPT !.nackCnt = IF ok THEN @ + 1 ELSE @])
    /\ UNCHANGED <<alive, offered>>

RetransTimerExpireProc(e) ==
    /\ alive[e] /\ ch[e].retransTimer /\ ch[e].txList # << >>
    /\ \E ok \in SendOutcomes :
         Commit(e, RetransEnhanceFrame([ch[e] EXCEPT !.reTxSeq = ch[e].expectedAckSeq], ok))
    /\ UNCHANGED <<alive, offered>>

\* The upper layer has room again: DTAP_ChannelSetStatus with DTAP_SUCCESS.
SetTransChannelStatus(e) ==
    LET room == [ch[e] EXCEPT !.isRxWindowFull = FALSE]
    IN  /\ alive[e] /\ ch[e].isRxWindowFull
        /\ \E k \in HandOvers(room) : Commit(e, RecvEnhanceFrameInner(room, k))
        /\ UNCHANGED <<alive, offered>>

\* The release that DTAP_DynTransChannReleaseReq asked CM for: DTAP_ChannelDel at e.
ChannelDel(e) ==
    /\ alive[e] /\ \E x \in Endpoint : ch[x].isDestroyMsgSent
    /\ alive' = [alive EXCEPT ![e] = FALSE]
    /\ ch' = [ch EXCEPT ![e].txList = << >>, ![e].rxList = << >>, ![e].cacheBuff = NoMsg,
                        ![e].retransTimer = FALSE, ![e].reorderTimer = FALSE]
    /\ UNCHANGED <<net, offered>>

Init ==
    /\ ch = [e \in Endpoint |-> InitChannel]
    /\ net = [e \in Endpoint |-> << >>]
    /\ alive = [e \in Endpoint |-> TRUE]
    /\ offered = [e \in Endpoint |-> 0]

Next == \E e \in Endpoint :
    \/ Send(e)
    \/ RecvAck(e)
    \/ RecvData(e)
    \/ RefuseData(e)
    \/ LoseFrame(e)
    \/ RspTimerExpireProc(e)
    \/ ReorderTimerExpireProc(e)
    \/ RetransTimerExpireProc(e)
    \/ SetTransChannelStatus(e)
    \/ ChannelDel(e)

Spec == Init /\ [][Next]_vars

\* A running timer fires and CM carries out a release that was asked for.  Nothing is
\* assumed of the link, which may lose every frame, nor of the client.
Fairness == \A e \in Endpoint :
    /\ WF_vars(RspTimerExpireProc(e))
    /\ WF_vars(ReorderTimerExpireProc(e))
    /\ WF_vars(RetransTimerExpireProc(e))
    /\ WF_vars(ChannelDel(e))

FairSpec == Spec /\ Fairness

-----------------------------------------------------------------------------
(***************************************************************************)
(* Properties.                                                             *)
(***************************************************************************)
TypeOK ==
    /\ ch \in [Endpoint -> Channel]
    /\ net \in [Endpoint -> Seq(AckFrame \cup DataFrame)]
    /\ alive \in [Endpoint -> BOOLEAN]
    /\ offered \in [Endpoint -> Nat]

\* Reliable mode delivers in order and without gaps or duplicates: what an endpoint has
\* handed to its upper layer is a prefix of what the peer put in its send window
\* (CheckEnhanceFrameTxSeq, SlideRxWindow and RecvEnhanceFrameInner together).
InOrderDelivery ==
    \A e \in Endpoint :
        LET got == ch[e].handed
            put == ch[Peer(e)].sent
        IN  Len(got) <= Len(put) /\ \A i \in 1 .. Len(got) : got[i].pdu = put[i]

\* A frame leaves the send window only when the peer has it and every frame before it
\* (SlideTxWindow frees the frames before reqSeq for good).
AckedWasReceived ==
    \A e \in Endpoint :
        alive[e] /\ alive[Peer(e)] =>
            Len(ch[e].sent) - Len(ch[e].txList) <=
                Len(ch[Peer(e)].handed) + Deliverable(ch[Peer(e)])

TxLossIsWatched(s) == s.txList # << >> => s.retransTimer

\* Every lost frame or acknowledgement will be noticed by the sender: as long as a frame
\* is unacknowledged the retransmission timer runs (SlideTxWindow stops and restarts it,
\* SendEnhanceFrameInner and RetransEnhanceFrame start it).
UnackedIsWatched == \A e \in Endpoint : alive[e] => TxLossIsWatched(ch[e])

\* A gap in the receive window will be noticed by the receiver: the reorder timer runs as
\* long as a frame after expectedTxSeq has arrived (SlideRxWindow, OperateReorderTimer).
GapIsWatched ==
    \A e \in Endpoint :
        alive[e] /\ ch[e].expectedTxSeq # ch[e].maxExpectedTxSeq => ch[e].reorderTimer

\* The frames of txList are consecutive from expectedAckSeq up to nextTxSeq.
TxWindow(s) ==
    /\ Len(s.txList) <= WinSize
    /\ s.nextTxSeq = SeqAdd(s.expectedAckSeq, Len(s.txList))
    /\ \A i \in 1 .. Len(s.txList) : s.txList[i].frame.txSeq = SeqAdd(s.expectedAckSeq, i - 1)

\* The send window holds consecutive frames from expectedAckSeq up to nextTxSeq, never
\* more than its size, whatever acknowledgements arrive (SendEnhanceFrame, SlideTxWindow).
TxWindowConsistent == \A e \in Endpoint : alive[e] => TxWindow(ch[e])

\* PDU q comes next after p: the next fragment of the message, or the first of the next.
Follows(p, q) ==
    IF p.idx = p.cnt THEN q.msg = p.msg + 1 /\ q.idx = 1
    ELSE q = [p EXCEPT !.idx = @ + 1]

\* The PDUs are the messages 1 .. k, each with all its fragments, in order.
WholeMessages(pdus, k) ==
    IF k = 0 THEN pdus = << >>
    ELSE /\ pdus # << >>
         /\ pdus[1].msg = 1 /\ pdus[1].idx = 1
         /\ pdus[Len(pdus)].msg = k /\ pdus[Len(pdus)].idx = pdus[Len(pdus)].cnt
         /\ \A i \in 1 .. Len(pdus) - 1 : Follows(pdus[i], pdus[i + 1])

\* The messages 1 .. k are in the window history, but for the last if it is cached.
KeptMessages(s, k) ==
    IF s.cacheBuff = NoMsg THEN WholeMessages(s.sent, k)
    ELSE s.cacheBuff = k /\ WholeMessages(s.sent, k - 1)

\* The one-message cache is enough for a client that waits while the channel reports
\* busy: until the channel is given up, the PDUs of the window history are the messages
\* the client sent, whole and in the order it sent them, and the only message not among
\* them is the last one while it is cached (SendEnhanceFrame, TransSendCacheBuff).
NoMessageDropped ==
    \A e \in Endpoint :
        alive[e] /\ ~ch[e].isDestroyMsgSent => KeptMessages(ch[e], offered[e])

\* A client is never left waiting: again and again the window is drained, the cached
\* message has gone and the channel reports available, unless the channel is released.
\* "the cached message is sent when the window slides" (SendEnhanceFrame).
WindowDrains ==
    \A e \in Endpoint :
        []<>(\/ ~alive[e]
             \/ ch[e].txList = << >> /\ ch[e].cacheBuff = NoMsg /\ ~ch[e].transBusy)

\* The channel is a first-in first-out queue in each direction: what leaves the windows of
\* SendEnhanceFrameInner and RecvEnhanceFrameInner are the steps of ReliableFifo.
Fifo == INSTANCE ReliableFifo WITH
    sent <- [e \in Endpoint |-> ch[e].sent],
    got <- [e \in Endpoint |-> [i \in 1 .. Len(ch[e].handed) |-> ch[e].handed[i].pdu]]

\* Every behaviour of the two windows over the lossy link is one of the queue.
RefinesFifo == Fifo!Spec
=============================================================================
