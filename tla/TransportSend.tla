---------------------------- MODULE TransportSend ----------------------------
(***************************************************************************)
(* How data of an application reaches DTAP, over three threads:            *)
(*                                                                         *)
(*   - the socket thread reads a message and waits while the data-transfer *)
(*     thread writes it (SleDataTransferService::ReceivedData);            *)
(*   - the data-transfer thread hands the message to the schedule thread   *)
(*     and waits for it on a semaphore, for 500 ms at most                 *)
(*     (WriteData, TRANS_SendData, SchedulePostTaskBlocked);               *)
(*   - the schedule thread runs the task (TRANS_SendDataProc), posts the   *)
(*     semaphore, and handles the acknowledgements of the peer, which end  *)
(*     a busy phase (DTAP_TransChannelStatusChange).                       *)
(*                                                                         *)
(* The request, its buffer and its semaphore are shared by two threads and *)
(* freed by whichever is last.  The reliable channel below is cut down to  *)
(* what the sender sees of it: messages of one frame, a window, and the    *)
(* one-message cache.                                                      *)
(***************************************************************************)
EXTENDS Integers, Sequences

CONSTANTS
    Window,        \* txWindow.size, at least 2
    MaxMsg,        \* bound: the messages of the application
    MaxTimeouts,   \* bound: the requests that are not answered within 500 ms
    MaxFaults      \* bound: the failed posts and the messages the stack refuses

ASSUME TransportAssumption ==
    Window \in Nat /\ Window >= 2 /\ MaxMsg \in Nat /\ MaxTimeouts \in Nat /\ MaxFaults \in Nat

VARIABLES
    reader,     \* the socket thread: "poll", "loop" after an answer, "wait" for one
    jobs,       \* the queue of the data-transfer thread
    writing,    \* the message TRANS_SendData waits for, or NoMsg
    transState, \* AppConnectParamMapping.transState
    queue,      \* the work list of the schedule thread
    posting,    \* the message whose task has run but whose semaphore is not posted
    req,        \* req[m]: the TRANS_Data_S of message m with its buffer and semaphore
    dtap,       \* the DTAP_ReliableChannel_S
    answer,     \* answer[m]: what WriteData returned for message m
    next,       \* the next message of the application
    timeouts,   \* the requests that timed out so far
    faults      \* the faults so far

vars == <<reader, jobs, writing, transState, queue, posting, req, dtap, answer, next,
          timeouts, faults>>

Msg == 1 .. MaxMsg
NoMsg == 0

Answers == {"none", "TRANS_SUCCESS", "TRANS_BUSY", "TRANS_FAIL"}
Results == {"unset", "SUCCESS", "TX_CACHE_FULL", "REFUSED"}

\* buff: "held" by the request, "given" away or freed, freed "twice". sem: its value,
\* or "freed".
Request == [refCount : 0 .. 2, buff : {"none", "held", "given", "twice"},
            sem : {"none", "0", "1", "freed"}, result : Results]

Work == [what : {"send", "freesem"}, msg : Msg]
Job == [what : {"write"}, msg : Msg] \cup [what : {"available"}]

NoRequest == [refCount |-> 0, buff |-> "none", sem |-> "none", result |-> "unset"]

\* TRANS_InitTransportData and TRANS_Data_Retain, with the buffer and the semaphore.
\* The result is not initialized.
NewRequest == [refCount |-> 2, buff |-> "held", sem |-> "0", result |-> "unset"]

TransportDataFree(r) == [r EXCEPT !.refCount = @ - 1]
BuffFree(r) == [r EXCEPT !.buff = IF @ = "held" THEN "given" ELSE "twice"]

(***************************************************************************)
(* The reliable channel.  n is the length of txList; out is what was put   *)
(* into the window, ever.                                                  *)
(***************************************************************************)
DtapInit == [n |-> 0, full |-> FALSE, cache |-> NoMsg, out |-> <<>>]

\* Mutant of SendEnhanceFrame: one frame too many fits.
SendEnhanceFrameOneMore(d, m) ==
    IF d.n > Window THEN [d EXCEPT !.full = TRUE, !.cache = IF @ = NoMsg THEN m ELSE @]
    ELSE [d EXCEPT !.n = @ + 1, !.full = @ \/ d.n + 1 >= Window, !.out = Append(@, m)]

\* A message that does not fit is copied into the cache if that is empty; the answer is
\* TX_WINDOW_FULL whether it was or not, and also for the message that fills the window.
SendEnhanceFrame(d, m) ==
    IF d.n + 1 > Window
    THEN [d EXCEPT !.full = TRUE, !.cache = IF @ = NoMsg THEN m ELSE @]
    ELSE [d EXCEPT !.n = @ + 1, !.full = @ \/ d.n + 1 = Window, !.out = Append(@, m)]

\* DTAP_TransChannelStatusChange: the window has slid; the cached message goes once it
\* does not fill the window again, and the client is told.
CacheGoes(d) == d.cache # NoMsg /\ d.n + 1 < Window

\* Mutant of TellsClient: the client is not told when the cached message goes.
TellsClientNotForCache(d) == d.full /\ d.cache = NoMsg /\ d.n < Window

TellsClient(d) == d.full /\ (CacheGoes(d) \/ (d.cache = NoMsg /\ d.n < Window))

StatusChange(d) ==
    IF ~d.full THEN d
    ELSE IF CacheGoes(d) THEN
        [SendEnhanceFrame([d EXCEPT !.full = FALSE], d.cache) EXCEPT !.cache = NoMsg]
    ELSE [d EXCEPT !.full = ~TellsClient(d)]

-----------------------------------------------------------------------------
Init ==
    /\ reader = "poll" /\ jobs = <<>> /\ writing = NoMsg /\ transState = "AVAILABLE"
    /\ queue = <<>> /\ posting = NoMsg /\ req = [m \in Msg |-> NoRequest]
    /\ dtap = DtapInit /\ answer = [m \in Msg |-> "none"] /\ next = 1
    /\ timeouts = 0 /\ faults = 0

\* ReceivedData: the transfer state is looked at before the first message, and not
\* again until a write is answered with TRANS_BUSY.
ReceivedData ==
    /\ \/ reader = "poll" /\ transState = "AVAILABLE"
       \/ reader = "loop"
    /\ next <= MaxMsg
    /\ reader' = "wait"
    /\ jobs' = Append(jobs, [what |-> "write", msg |-> next])
    /\ next' = next + 1
    /\ UNCHANGED <<writing, transState, queue, posting, req, dtap, answer, timeouts, faults>>

\* The reader takes the answer and polls again after TRANS_BUSY.
Answered(m, a) ==
    /\ answer' = [answer EXCEPT ![m] = a]
    /\ reader' = IF a = "TRANS_BUSY" THEN "poll" ELSE "loop"
    /\ jobs' = Tail(jobs)
    /\ writing' = NoMsg

\* WriteData, TRANS_SendData and SchedulePostTaskBlocked up to the wait.
WriteData ==
    /\ jobs # <<>> /\ Head(jobs).what = "write" /\ writing = NoMsg
    /\ LET m == Head(jobs).msg
       IN  \/ /\ writing' = m
              /\ req' = [req EXCEPT ![m] = NewRequest]
              /\ queue' = Append(queue, [what |-> "send", msg |-> m])
              /\ UNCHANGED <<reader, jobs, answer, faults>>
           \/ /\ faults < MaxFaults /\ faults' = faults + 1
              /\ req' = [req EXCEPT ![m] = BuffFree(
                           [TransportDataFree(TransportDataFree(NewRequest)) EXCEPT
                              !.sem = "freed"])]
              /\ Answered(m, "TRANS_FAIL")
              /\ UNCHANGED queue
    /\ UNCHANGED <<transState, posting, dtap, next, timeouts>>

AnswerOf(result) ==
    CASE result = "SUCCESS" -> "TRANS_SUCCESS"
      [] result = "TX_CACHE_FULL" -> "TRANS_BUSY"
      [] OTHER -> "TRANS_FAIL"

\* Mutant of StateAfter: a full cache is answered but not recorded.
StateAfterUnchanged(result) == transState

\* WriteData records a full cache.
StateAfter(result) == IF result = "TX_CACHE_FULL" THEN "BUSY" ELSE transState

\* The semaphore was posted: the result is read, semaphore and request are freed.
WaitDone ==
    /\ writing # NoMsg /\ req[writing].sem = "1"
    /\ LET r == req[writing]
       IN  /\ req' = [req EXCEPT ![writing] = [TransportDataFree(r) EXCEPT !.sem = "freed"]]
           /\ transState' = StateAfter(r.result)
           /\ Answered(writing, AnswerOf(r.result))
    /\ UNCHANGED <<queue, posting, dtap, next, timeouts, faults>>

\* Mutant of TimedOutRequest: the writer keeps its reference.
TimedOutRequestKept(r) == r

\* Mutant of TimedOutRequest: the semaphore is freed at once, not behind the task.
TimedOutRequestFreesSem(r) == [TransportDataFree(r) EXCEPT !.sem = "freed"]

\* TRANS_PostTaskToSendDataFailed after NLSTK_ERRCODE_TASK_TIMEOUT.
TimedOutRequest(r) == TransportDataFree(r)

\* SDF_SemTimeWait gives up: the semaphore is freed by a work item behind the task, and
\* the message is answered as failed.
WaitTimeout ==
    /\ writing # NoMsg /\ req[writing].sem = "0"
    /\ timeouts < MaxTimeouts /\ timeouts' = timeouts + 1
    /\ queue' = Append(queue, [what |-> "freesem", msg |-> writing])
    /\ req' = [req EXCEPT ![writing] = TimedOutRequest(@)]
    /\ Answered(writing, "TRANS_FAIL")
    /\ UNCHANGED <<transState, posting, dtap, next, faults>>

\* SendDataStateCallback's job: UpdateTransferState.
UpdateTransferState ==
    /\ jobs # <<>> /\ Head(jobs).what = "available"
    /\ transState' = "AVAILABLE"
    /\ jobs' = Tail(jobs)
    /\ UNCHANGED <<reader, writing, queue, posting, req, dtap, answer, next, timeouts, faults>>

\* SDF_WorkerRunOnce takes the oldest item; TRANS_SendDataProc hands the buffer to DTAP
\* or frees it, stores the result and drops its reference.
SendDataProc ==
    /\ queue # <<>> /\ Head(queue).what = "send" /\ posting = NoMsg
    /\ LET m == Head(queue).msg
           r == TransportDataFree(BuffFree(req[m]))
       IN  /\ \/ /\ dtap' = SendEnhanceFrame(dtap, m)
                 /\ req' = [req EXCEPT ![m] = [r EXCEPT !.result =
                              IF dtap'.full THEN "TX_CACHE_FULL" ELSE "SUCCESS"]]
                 /\ UNCHANGED faults
              \/ /\ faults < MaxFaults /\ faults' = faults + 1
                 /\ req' = [req EXCEPT ![m] = [r EXCEPT !.result = "REFUSED"]]
                 /\ UNCHANGED dtap
           /\ posting' = m
    /\ queue' = Tail(queue)
    /\ UNCHANGED <<reader, jobs, writing, transState, answer, next, timeouts>>

\* The end of RunTaskBlocked.
SemPost ==
    /\ posting # NoMsg
    /\ req' = [req EXCEPT ![posting].sem = "1"]
    /\ posting' = NoMsg
    /\ UNCHANGED <<reader, jobs, writing, transState, queue, dtap, answer, next, timeouts,
                   faults>>

\* The work item without a callback, whose argument is freed.
FreeSem ==
    /\ queue # <<>> /\ Head(queue).what = "freesem" /\ posting = NoMsg
    /\ req' = [req EXCEPT ![Head(queue).msg].sem = "freed"]
    /\ queue' = Tail(queue)
    /\ UNCHANGED <<reader, jobs, writing, transState, posting, dtap, answer, next, timeouts,
                   faults>>

\* The peer acknowledges the oldest frame of the window, which slides.
Acknowledged ==
    /\ dtap.n > 0 /\ posting = NoMsg
    /\ LET d == [dtap EXCEPT !.n = @ - 1]
       IN  /\ dtap' = StatusChange(d)
           /\ jobs' = IF TellsClient(d) THEN Append(jobs, [what |-> "available"]) ELSE jobs
    /\ UNCHANGED <<reader, writing, transState, queue, posting, req, answer, next, timeouts,
                   faults>>

Next ==
    \/ ReceivedData
    \/ WriteData \/ WaitDone \/ WaitTimeout \/ UpdateTransferState
    \/ SendDataProc \/ SemPost \/ FreeSem \/ Acknowledged

Spec == Init /\ [][Next]_vars

\* The two threads keep running what is queued on them, and the peer keeps answering.
\* The socket thread need not have anything to read.
FairSpec ==
    /\ Spec
    /\ WF_vars(WriteData) /\ WF_vars(WaitDone) /\ WF_vars(UpdateTransferState)
    /\ WF_vars(SendDataProc) /\ WF_vars(SemPost) /\ WF_vars(FreeSem)
    /\ WF_vars(Acknowledged)

-----------------------------------------------------------------------------
\* Every variable keeps the shape the code gives it; the window is never overfilled.
TypeOK ==
    /\ reader \in {"poll", "loop", "wait"}
    /\ jobs \in Seq(Job) /\ queue \in Seq(Work)
    /\ writing \in Msg \cup {NoMsg} /\ posting \in Msg \cup {NoMsg}
    /\ transState \in {"AVAILABLE", "BUSY"}
    /\ req \in [Msg -> Request]
    /\ dtap \in [n : 0 .. Window, full : BOOLEAN, cache : Msg \cup {NoMsg}, out : Seq(Msg)]
    /\ answer \in [Msg -> Answers]

Queued(what, m) == \E i \in DOMAIN queue : queue[i] = [what |-> what, msg |-> m]

\* No thread touches what the other has freed: the request and its buffer live until
\* the task has run, the semaphore until it is posted, and both while the writer waits
\* (TRANS_Data_Retain, SchedulePostTaskBlocked) - also when the wait ends early and the
\* task runs later, between two later requests.
NoUseAfterFree ==
    \A m \in Msg :
        /\ Queued("send", m) => req[m].refCount > 0 /\ req[m].buff = "held"
        /\ Queued("send", m) \/ posting = m => req[m].sem = "0"
        /\ writing = m => req[m].refCount > 0 /\ req[m].sem \in {"0", "1"}

\* Everything is freed exactly once: no buffer twice, and once a message is answered
\* and nothing of it is queued, its request, buffer and semaphore are gone.
FreedExactlyOnce ==
    \A m \in Msg :
        /\ req[m].buff # "twice"
        /\ (/\ answer[m] # "none" /\ posting # m
            /\ ~Queued("send", m) /\ ~Queued("freesem", m)) =>
               /\ req[m].refCount = 0
               /\ req[m].buff = "given" /\ req[m].sem = "freed"

Accepted(m) == answer[m] \in {"TRANS_SUCCESS", "TRANS_BUSY"}
Kept == dtap.out \o (IF dtap.cache = NoMsg THEN <<>> ELSE <<dtap.cache>>)
Holds(m) == \E i \in DOMAIN Kept : Kept[i] = m

\* While no request has timed out, the answers are true and the one-message cache is
\* enough: DTAP holds a message that was accepted, holds none that was refused, and
\* holds them in the order of the application (the BUSY state of WriteData against the
\* "available" that the schedule thread sends meanwhile).
AnswersAreTrue ==
    timeouts = 0 =>
        /\ \A m \in Msg : /\ Accepted(m) => Holds(m)
                          /\ answer[m] = "TRANS_FAIL" => ~Holds(m)
        /\ \A i, j \in DOMAIN Kept : i < j => Kept[i] < Kept[j]

\* A writer that was told to wait is told to go on, whatever the order in which the
\* two threads record "busy" and "available", and also after lost answers.
BusyEnds == transState = "BUSY" ~> transState = "AVAILABLE"
=============================================================================
