------------------------ MODULE TransportSendProofs ------------------------
(***************************************************************************)
(* The request that two threads share, for any number of messages, any     *)
(* window and any number of timeouts and faults.                           *)
(*                                                                         *)
(* The invariant says for every message who still holds its request: the   *)
(* writer that waits, the queued task, the task that is about to post the  *)
(* semaphore, the work item that frees the semaphore, or nobody.  Buffer,  *)
(* semaphore and reference count follow from that.  It needs the order of  *)
(* the work list (the semaphore is freed behind the task) and that there   *)
(* is one write at a time (the reader waits for its answer).               *)
(***************************************************************************)
EXTENDS TransportSend, SequenceTheorems, TLAPS

IsWrite(j) == j.what = "write"

\* Nothing has been done for message m.
Unstarted(m) ==
    /\ req[m] = NoRequest /\ answer[m] = "none"
    /\ writing # m /\ posting # m
    /\ ~Queued("send", m) /\ ~Queued("freesem", m)

\* The reader has one write under way, of the newest message.
OneWrite ==
    /\ next \in 1 .. MaxMsg + 1 /\ timeouts \in Nat /\ faults \in Nat
    /\ reader = "wait" => next > 1
    /\ \A i \in DOMAIN jobs : IsWrite(jobs[i]) => reader = "wait" /\ jobs[i].msg = next - 1
    /\ \A i, j \in DOMAIN jobs : IsWrite(jobs[i]) /\ IsWrite(jobs[j]) => i = j
    /\ writing # NoMsg => jobs # << >> /\ Head(jobs) = [what |-> "write", msg |-> writing]
    /\ \A m \in Msg : m >= next => Unstarted(m)
    /\ \A m \in Msg : reader = "wait" /\ writing = NoMsg /\ m = next - 1 => Unstarted(m)

\* Of one message the work list holds at most the task and, behind it, the item that
\* frees the semaphore.
TaskBeforeFree ==
    \A i, j \in DOMAIN queue :
        i < j /\ queue[i].msg = queue[j].msg =>
            queue[i].what = "send" /\ queue[j].what = "freesem"

\* Who holds the request of message m, and what is left of it.
Life(m) ==
    /\ Queued("send", m) =>
          /\ req[m].buff = "held" /\ req[m].sem = "0" /\ req[m].result = "unset"
          /\ req[m].refCount = (IF writing = m THEN 2 ELSE 1) /\ posting # m
    /\ posting = m =>
          /\ req[m].buff = "given" /\ req[m].sem = "0"
          /\ req[m].refCount = (IF writing = m THEN 1 ELSE 0)
    /\ writing = m /\ ~Queued("send", m) /\ posting # m =>
          req[m].buff = "given" /\ req[m].sem = "1" /\ req[m].refCount = 1
    /\ writing # m /\ ~Queued("send", m) /\ posting # m /\ req[m].sem # "none" =>
          /\ req[m].buff = "given" /\ req[m].refCount = 0
          /\ req[m].sem = IF Queued("freesem", m) THEN "1" ELSE "freed"
    /\ (Queued("send", m) \/ posting = m) /\ writing # m => Queued("freesem", m)
    /\ Queued("freesem", m) \/ answer[m] # "none" => writing # m /\ req[m].sem # "none"
    /\ req[m].sem = "none" => Unstarted(m)

Lives == \A m \in Msg : Life(m)

IInv == TypeOK /\ OneWrite /\ TaskBeforeFree /\ Lives

-----------------------------------------------------------------------------
(* The work list and the job list.                                         *)

\* Appending to the work list queues that item and nothing else.
LEMMA AppendQueues ==
  ASSUME queue \in Seq(Work), NEW x \in Work, queue' = Append(queue, x)
  PROVE  /\ queue' \in Seq(Work) /\ Len(queue') = Len(queue) + 1
         /\ \A i \in 1 .. Len(queue) : queue'[i] = queue[i]
         /\ queue'[Len(queue) + 1] = x
         /\ \A what, m : Queued(what, m)' <=>
               Queued(what, m) \/ (what = x.what /\ m = x.msg)
<1>1. /\ queue' \in Seq(Work) /\ Len(queue') = Len(queue) + 1
      /\ \A i \in 1 .. Len(queue) : queue'[i] = queue[i]
      /\ queue'[Len(queue) + 1] = x
  BY AppendProperties
<1>2. /\ Len(queue) \in Nat /\ DOMAIN queue = 1 .. Len(queue)
      /\ DOMAIN queue' = 1 .. Len(queue) + 1
  BY <1>1, LenProperties
<1>3. \A what, m : x = [what |-> what, msg |-> m] <=> what = x.what /\ m = x.msg
  BY DEF Work
<1>4. ASSUME NEW what, NEW m
      PROVE  Queued(what, m)' <=> Queued(what, m) \/ x = [what |-> what, msg |-> m]
  BY <1>1, <1>2 DEF Queued
<1> QED BY <1>1, <1>3, <1>4

\* Taking the head off the work list shifts the rest.
LEMMA TailQueues ==
  ASSUME queue \in Seq(Work), queue # << >>, queue' = Tail(queue)
  PROVE  /\ queue' \in Seq(Work) /\ Head(queue) \in Work
         /\ Len(queue) \in Nat \ {0} /\ DOMAIN queue = 1 .. Len(queue)
         /\ DOMAIN queue' = 1 .. Len(queue) - 1 /\ queue[1] = Head(queue)
         /\ \A i \in 1 .. Len(queue) - 1 : queue'[i] = queue[i + 1]
         /\ \A what, m : Queued(what, m)' => Queued(what, m)
         /\ \A what, m : Queued(what, m) =>
               Queued(what, m)' \/ (what = Head(queue).what /\ m = Head(queue).msg)
<1>1. /\ queue' \in Seq(Work) /\ Head(queue) \in Work /\ queue[1] = Head(queue)
      /\ Len(queue) \in Nat \ {0} /\ DOMAIN queue = 1 .. Len(queue)
      /\ DOMAIN queue' = 1 .. Len(queue) - 1
      /\ \A i \in 1 .. Len(queue) - 1 : queue'[i] = queue[i + 1]
  BY HeadTailProperties, LenProperties, EmptySeq
<1>2. ASSUME NEW what, NEW m, Queued(what, m)'
      PROVE  Queued(what, m)
  <2>1. PICK i \in DOMAIN queue' : queue'[i] = [what |-> what, msg |-> m]
    BY <1>2 DEF Queued
  <2>2. i + 1 \in DOMAIN queue /\ queue[i + 1] = [what |-> what, msg |-> m]
    BY <1>1, <2>1
  <2> QED BY <2>2 DEF Queued
<1>3. ASSUME NEW what, NEW m, Queued(what, m), ~(what = Head(queue).what /\ m = Head(queue).msg)
      PROVE  Queued(what, m)'
  <2>1. PICK i \in DOMAIN queue : queue[i] = [what |-> what, msg |-> m]
    BY <1>3 DEF Queued
  <2>2. i - 1 \in DOMAIN queue' /\ queue'[i - 1] = [what |-> what, msg |-> m]
    BY <1>1, <1>3, <2>1
  <2> QED BY <2>2 DEF Queued
<1> QED BY <1>1, <1>2, <1>3

\* With TaskBeforeFree, the item at the head of the work list is the task, or the task
\* is not queued; and it is not queued a second time.
LEMMA HeadIsOnce ==
  ASSUME queue \in Seq(Work), queue # << >>, queue' = Tail(queue), TaskBeforeFree,
         NEW x, x = Head(queue)
  PROVE  /\ ~Queued(x.what, x.msg)'
         /\ x.what = "freesem" => ~Queued("send", x.msg)
         /\ TaskBeforeFree'
<1>1. /\ queue' \in Seq(Work) /\ Head(queue) \in Work /\ queue[1] = Head(queue)
      /\ Len(queue) \in Nat \ {0} /\ DOMAIN queue = 1 .. Len(queue)
      /\ DOMAIN queue' = 1 .. Len(queue) - 1
      /\ \A i \in 1 .. Len(queue) - 1 : queue'[i] = queue[i + 1]
  BY TailQueues
<1>2. \A i \in DOMAIN queue : i > 1 /\ queue[i].msg = queue[1].msg =>
        queue[1].what = "send" /\ queue[i].what = "freesem"
  BY <1>1 DEF TaskBeforeFree
<1>3. ASSUME Queued(x.what, x.msg)'
      PROVE  FALSE
  <2>1. PICK i \in DOMAIN queue' :
          queue'[i] = [what |-> x.what, msg |-> x.msg]
    BY <1>3 DEF Queued
  <2>2. /\ i + 1 \in DOMAIN queue /\ i + 1 > 1
        /\ queue[i + 1].msg = queue[1].msg /\ queue[i + 1].what = queue[1].what
    BY <1>1, <2>1
  <2> QED BY <1>2, <2>2
<1>4. ASSUME x.what = "freesem", Queued("send", x.msg)
      PROVE  FALSE
  <2>1. PICK i \in DOMAIN queue : queue[i] = [what |-> "send", msg |-> x.msg]
    BY <1>4 DEF Queued
  <2>2. i > 1 /\ queue[i].msg = queue[1].msg
    BY <1>1, <1>4, <2>1
  <2> QED BY <1>1, <1>2, <1>4, <2>2
<1>5. TaskBeforeFree'
  <2> SUFFICES ASSUME NEW i \in DOMAIN queue', NEW j \in DOMAIN queue', i < j,
                      queue'[i].msg = queue'[j].msg
               PROVE  queue'[i].what = "send" /\ queue'[j].what = "freesem"
    BY DEF TaskBeforeFree
  <2>1. /\ i + 1 \in DOMAIN queue /\ j + 1 \in DOMAIN queue /\ i + 1 < j + 1
        /\ queue'[i] = queue[i + 1] /\ queue'[j] = queue[j + 1]
    BY <1>1
  <2> QED BY <2>1 DEF TaskBeforeFree
<1> QED BY <1>3, <1>4, <1>5

\* Taking the head off the job list shifts the rest; a job is a write or it is not.
LEMMA TailJobs ==
  ASSUME jobs \in Seq(Job), jobs # << >>, jobs' = Tail(jobs)
  PROVE  /\ jobs' \in Seq(Job) /\ Head(jobs) \in Job /\ jobs[1] = Head(jobs)
         /\ Len(jobs) \in Nat \ {0} /\ DOMAIN jobs = 1 .. Len(jobs)
         /\ DOMAIN jobs' = 1 .. Len(jobs) - 1
         /\ \A i \in DOMAIN jobs' : i + 1 \in DOMAIN jobs /\ jobs'[i] = jobs[i + 1]
BY HeadTailProperties, LenProperties, EmptySeq

\* Appending a job.
LEMMA AppendJobs ==
  ASSUME jobs \in Seq(Job), NEW x \in Job, jobs' = Append(jobs, x)
  PROVE  /\ jobs' \in Seq(Job) /\ Len(jobs) \in Nat /\ DOMAIN jobs = 1 .. Len(jobs)
         /\ DOMAIN jobs' = 1 .. Len(jobs) + 1
         /\ \A i \in DOMAIN jobs : jobs'[i] = jobs[i]
         /\ jobs'[Len(jobs) + 1] = x
         /\ jobs # << >> => jobs' # << >> /\ Head(jobs') = Head(jobs)
<1>1. /\ jobs' \in Seq(Job) /\ Len(jobs) \in Nat /\ DOMAIN jobs = 1 .. Len(jobs)
      /\ DOMAIN jobs' = 1 .. Len(jobs) + 1
      /\ \A i \in DOMAIN jobs : jobs'[i] = jobs[i]
      /\ jobs'[Len(jobs) + 1] = x
  BY AppendProperties, LenProperties
<1>2. ASSUME jobs # << >>
      PROVE  jobs' # << >> /\ Head(jobs') = Head(jobs)
  <2>1. Len(jobs) > 0
    BY <1>1, <1>2, EmptySeq
  <2>2. Head(jobs) = jobs[1] /\ Head(jobs') = jobs'[1] /\ jobs' # << >>
    BY <1>1, <2>1, HeadTailProperties, EmptySeq
  <2> QED BY <1>1, <2>1, <2>2
<1> QED BY <1>1, <1>2

\* Once the write at the head of the jobs is answered, no write is left.
LEMMA NoWriteLeft ==
  ASSUME jobs \in Seq(Job), OneWrite, jobs # << >>, IsWrite(Head(jobs)), jobs' = Tail(jobs)
  PROVE  \A i \in DOMAIN jobs' : ~IsWrite(jobs'[i])
<1>1. /\ Len(jobs) \in Nat \ {0} /\ DOMAIN jobs = 1 .. Len(jobs) /\ jobs[1] = Head(jobs)
      /\ DOMAIN jobs' = 1 .. Len(jobs) - 1
      /\ \A i \in DOMAIN jobs' : i + 1 \in DOMAIN jobs /\ jobs'[i] = jobs[i + 1]
  BY TailJobs
<1> SUFFICES ASSUME NEW i \in DOMAIN jobs', IsWrite(jobs'[i])
             PROVE  FALSE
  OBVIOUS
<1>2. IsWrite(jobs[1]) /\ IsWrite(jobs[i + 1]) /\ 1 \in DOMAIN jobs /\ i + 1 \in DOMAIN jobs
  BY <1>1
<1>3. 1 = i + 1
  BY <1>2 DEF OneWrite
<1> QED BY <1>1, <1>3

-----------------------------------------------------------------------------
(* One lemma per action.                                                   *)

\* A request whose task could not be posted is dropped by both holders at once.
LEMMA FailedRequest ==
  BuffFree([TransportDataFree(TransportDataFree(NewRequest)) EXCEPT !.sem = "freed"])
    = [refCount |-> 0, buff |-> "given", sem |-> "freed", result |-> "unset"]
<1>1. TransportDataFree(NewRequest)
        = [refCount |-> 1, buff |-> "held", sem |-> "0", result |-> "unset"]
  BY DEF NewRequest, TransportDataFree
<1>2. TransportDataFree([refCount |-> 1, buff |-> "held", sem |-> "0", result |-> "unset"])
        = [refCount |-> 0, buff |-> "held", sem |-> "0", result |-> "unset"]
  BY DEF TransportDataFree
<1>3. BuffFree([refCount |-> 0, buff |-> "held", sem |-> "freed", result |-> "unset"])
        = [refCount |-> 0, buff |-> "given", sem |-> "freed", result |-> "unset"]
  BY DEF BuffFree
<1> QED BY <1>1, <1>2, <1>3

\* Initially nothing has been started.
LEMMA InitInv == Init => IInv
<1> SUFFICES ASSUME Init
             PROVE  IInv
  OBVIOUS
<1> USE DEF Init
<1>1. << >> \in Seq(Job) /\ << >> \in Seq(Work) /\ << >> \in Seq(Msg)
      /\ DOMAIN << >> = {}
  BY EmptySeq
<1>2. TypeOK
  BY <1>1, TransportAssumption DEF TypeOK, DtapInit, NoRequest, Request, Results, Answers, NoMsg
<1>3. \A m \in Msg : Unstarted(m)
  BY <1>1, TransportAssumption DEF Unstarted, Queued, NoMsg, Msg
<1>4. OneWrite
  BY <1>1, <1>3, TransportAssumption DEF OneWrite, NoMsg, Msg
<1>5. TaskBeforeFree
  BY <1>1 DEF TaskBeforeFree
<1>6. Lives
  BY <1>3, TransportAssumption DEF Lives, Life, Unstarted, NoRequest, NoMsg, Msg
<1> QED BY <1>2, <1>4, <1>5, <1>6 DEF IInv

\* The reader hands over the next message, of which nothing has been done.
LEMMA ReceivedDataInv == IInv /\ ReceivedData => IInv'
<1> SUFFICES ASSUME IInv, ReceivedData
             PROVE  IInv'
  OBVIOUS
<1> DEFINE x == [what |-> "write", msg |-> next]
<1>1. /\ jobs \in Seq(Job) /\ next \in Msg /\ x \in Job /\ jobs' = Append(jobs, x)
      /\ reader' = "wait" /\ next' = next + 1 /\ reader # "wait"
      /\ UNCHANGED <<writing, transState, queue, posting, req, dtap, answer, timeouts, faults>>
  BY DEF IInv, TypeOK, OneWrite, ReceivedData, Msg, Job
<1>2. /\ jobs' \in Seq(Job) /\ Len(jobs) \in Nat /\ DOMAIN jobs = 1 .. Len(jobs)
      /\ DOMAIN jobs' = 1 .. Len(jobs) + 1
      /\ \A i \in DOMAIN jobs : jobs'[i] = jobs[i]
      /\ jobs'[Len(jobs) + 1] = x
      /\ jobs # << >> => jobs' # << >> /\ Head(jobs') = Head(jobs)
  BY <1>1, AppendJobs
<1>3. \A i \in DOMAIN jobs : ~IsWrite(jobs[i])
  BY <1>1 DEF IInv, OneWrite
<1>4. writing = NoMsg
  <2> SUFFICES ASSUME writing # NoMsg
               PROVE  FALSE
    OBVIOUS
  <2>1. jobs # << >> /\ IsWrite(Head(jobs))
    BY DEF IInv, OneWrite, IsWrite
  <2>2. Head(jobs) = jobs[1] /\ 1 \in DOMAIN jobs
    BY <1>1, <2>1, HeadTailProperties, EmptySeq, LenProperties
  <2> QED BY <1>3, <2>1, <2>2
<1>5. \A m \in Msg : (Unstarted(m)' <=> Unstarted(m)) /\ (Life(m)' <=> Life(m))
  BY <1>1 DEF Unstarted, Life, Queued
<1>6. OneWrite'
  <2>1. \A i, j \in DOMAIN jobs' : IsWrite(jobs'[i]) /\ IsWrite(jobs'[j]) => i = j
    BY <1>2, <1>3
  <2>2. \A i \in DOMAIN jobs' : IsWrite(jobs'[i]) => jobs'[i].msg = next
    BY <1>2, <1>3
  <2>3. next' \in 1 .. MaxMsg + 1 /\ next' > 1 /\ timeouts' \in Nat /\ faults' \in Nat
    BY <1>1, TransportAssumption DEF IInv, OneWrite, Msg
  <2>4. \A m \in Msg : m >= next => Unstarted(m)'
    BY <1>5 DEF IInv, OneWrite
  <2>5. next' - 1 = next /\ \A m \in Msg : m >= next' => m >= next
    BY <1>1 DEF IInv, OneWrite, Msg
  <2>6. \A m \in Msg : m >= next' => Unstarted(m)'
    BY <2>4, <2>5
  <2>7. \A m \in Msg : m = next' - 1 => Unstarted(m)'
    BY <2>4, <2>5, <1>1 DEF Msg
  <2> QED BY <1>1, <1>4, <2>1, <2>2, <2>3, <2>5, <2>6, <2>7 DEF OneWrite
<1>7. TypeOK' /\ TaskBeforeFree'
  BY <1>1, <1>2 DEF IInv, TypeOK, TaskBeforeFree
<1> QED BY <1>5, <1>6, <1>7 DEF IInv, Lives

\* A step that leaves everything about message m alone keeps what is known about it.
LEMMA LifeFrame ==
  ASSUME NEW m \in Msg, req'[m] = req[m], answer'[m] = answer[m],
         (writing' = m) <=> (writing = m), (posting' = m) <=> (posting = m),
         Queued("send", m)' <=> Queued("send", m),
         Queued("freesem", m)' <=> Queued("freesem", m)
  PROVE  /\ Life(m) => Life(m)'
         /\ Unstarted(m) => Unstarted(m)'
BY DEF Life, Unstarted

\* The writer starts on a message: posts its task, or fails to and frees everything.
LEMMA WriteDataInv == IInv /\ WriteData => IInv'
<1> SUFFICES ASSUME IInv, WriteData
             PROVE  IInv'
  OBVIOUS
<1>t. /\ jobs \in Seq(Job) /\ queue \in Seq(Work) /\ req \in [Msg -> Request]
      /\ answer \in [Msg -> Answers] /\ posting \in Msg \cup {NoMsg}
      /\ next \in 1 .. MaxMsg + 1 /\ timeouts \in Nat /\ faults \in Nat
  BY DEF IInv, TypeOK, OneWrite
<1>0. /\ jobs # << >> /\ Head(jobs).what = "write" /\ writing = NoMsg
      /\ UNCHANGED <<transState, posting, dtap, next, timeouts>>
  BY DEF WriteData
<1>1. /\ Head(jobs) \in Job /\ Head(jobs) = jobs[1] /\ 1 \in DOMAIN jobs
  BY <1>t, <1>0, HeadTailProperties, EmptySeq, LenProperties
<1>2. PICK m \in Msg : Head(jobs) = [what |-> "write", msg |-> m]
  BY <1>0, <1>1 DEF Job
<1>3. /\ reader = "wait" /\ m = next - 1 /\ IsWrite(Head(jobs))
      /\ Unstarted(m) /\ m # NoMsg
  BY <1>0, <1>1, <1>2, TransportAssumption DEF IInv, OneWrite, IsWrite, Msg, NoMsg
<1>4. CASE /\ writing' = m
           /\ req' = [req EXCEPT ![m] = NewRequest]
           /\ queue' = Append(queue, [what |-> "send", msg |-> m])
           /\ UNCHANGED <<reader, jobs, answer, faults>>
  <2>1. [what |-> "send", msg |-> m] \in Work
    BY DEF Work
  <2>2. /\ queue' \in Seq(Work) /\ Len(queue') = Len(queue) + 1
        /\ \A i \in 1 .. Len(queue) : queue'[i] = queue[i]
        /\ queue'[Len(queue) + 1] = [what |-> "send", msg |-> m]
        /\ \A what, n : Queued(what, n)' <=>
             Queued(what, n) \/ (what = "send" /\ n = m)
    BY <1>t, <1>4, <2>1, AppendQueues
  <2>3. /\ Queued("send", m)' /\ ~Queued("freesem", m)'
        /\ \A n \in Msg \ {m} : /\ Queued("send", n)' <=> Queued("send", n)
                                /\ Queued("freesem", n)' <=> Queued("freesem", n)
    BY <1>3, <2>2 DEF Unstarted
  <2>4. req' \in [Msg -> Request] /\ req'[m] = NewRequest /\ \A n \in Msg \ {m} : req'[n] = req[n]
    BY <1>t, <1>4 DEF NewRequest, Request, Results
  <2>5. Life(m)'
    BY <1>0, <1>3, <1>4, <2>3, <2>4 DEF Life, NewRequest, Unstarted
  <2>6. ASSUME NEW n \in Msg \ {m}
        PROVE  Life(n)' /\ (Unstarted(n) => Unstarted(n)')
    <3>1. /\ (writing' = n) <=> (writing = n)
          /\ (posting' = n) <=> (posting = n)
      BY <1>0, <1>4, <1>3, <2>6, TransportAssumption DEF Msg, NoMsg
    <3> QED BY <1>4, <2>3, <2>4, <2>6, <3>1, LifeFrame DEF IInv, Lives
  <2>7. TypeOK'
    BY <1>0, <1>4, <2>2, <2>4 DEF IInv, TypeOK
  <2>8. \A n \in Msg : n >= next => n # m /\ Unstarted(n)
    BY <1>t, <1>3 DEF IInv, OneWrite, Msg
  <2>9. OneWrite'
    BY <1>0, <1>2, <1>3, <1>4, <2>6, <2>8 DEF IInv, OneWrite
  <2>10. TaskBeforeFree'
    <3> SUFFICES ASSUME NEW i \in DOMAIN queue', NEW j \in DOMAIN queue', i < j,
                        queue'[i].msg = queue'[j].msg
                 PROVE  queue'[i].what = "send" /\ queue'[j].what = "freesem"
      BY DEF TaskBeforeFree
    <3>1. /\ DOMAIN queue = 1 .. Len(queue) /\ DOMAIN queue' = 1 .. Len(queue) + 1
          /\ Len(queue) \in Nat
      BY <1>t, <2>2, LenProperties
    <3>2. i \in DOMAIN queue /\ queue'[i] = queue[i] /\ queue[i] \in Work
      BY <1>t, <2>2, <3>1, ElementOfSeq
    <3>3. queue[i].msg # m
      <4>1. queue[i] = [what |-> queue[i].what, msg |-> queue[i].msg]
             /\ queue[i].what \in {"send", "freesem"}
        BY <3>2 DEF Work
      <4> QED BY <1>3, <3>2, <4>1 DEF Unstarted, Queued
    <3>4. j \in DOMAIN queue /\ queue'[j] = queue[j]
      BY <2>2, <3>1, <3>2, <3>3
    <3> QED BY <3>2, <3>4 DEF IInv, TaskBeforeFree
  <2> QED BY <2>5, <2>6, <2>7, <2>9, <2>10 DEF IInv, Lives
<1>5. CASE /\ faults' = faults + 1
           /\ req' = [req EXCEPT ![m] = BuffFree(
                        [TransportDataFree(TransportDataFree(NewRequest)) EXCEPT !.sem = "freed"])]
           /\ Answered(m, "TRANS_FAIL")
           /\ UNCHANGED queue
  <2>1. /\ jobs' = Tail(jobs) /\ reader' = "loop" /\ writing' = NoMsg
        /\ answer' = [answer EXCEPT ![m] = "TRANS_FAIL"]
    BY <1>5 DEF Answered
  <2>2. jobs' \in Seq(Job) /\ \A i \in DOMAIN jobs' : ~IsWrite(jobs'[i])
    BY <1>t, <1>0, <1>3, <2>1, TailJobs, NoWriteLeft DEF IInv
  <2>3. /\ req' \in [Msg -> Request]
        /\ req'[m] = [refCount |-> 0, buff |-> "given", sem |-> "freed", result |-> "unset"]
        /\ \A n \in Msg \ {m} : req'[n] = req[n]
    <3> DEFINE r == [refCount |-> 0, buff |-> "given", sem |-> "freed", result |-> "unset"]
    <3>1. BuffFree([TransportDataFree(TransportDataFree(NewRequest)) EXCEPT !.sem = "freed"]) = r
      BY FailedRequest
    <3>2. r \in Request
      BY DEF Request, Results
    <3> QED BY <1>t, <1>5, <3>1, <3>2
  <2>4. /\ answer' \in [Msg -> Answers] /\ \A n \in Msg \ {m} : answer'[n] = answer[n]
    BY <1>t, <2>1 DEF Answers
  <2>q. \A what, n : Queued(what, n)' <=> Queued(what, n)
    BY <1>5 DEF Queued
  <2>5. Life(m)'
    BY <1>0, <1>3, <2>1, <2>3, <2>q DEF Life, Unstarted
  <2>6. ASSUME NEW n \in Msg \ {m}
        PROVE  Life(n)' /\ (Unstarted(n) => Unstarted(n)')
    BY <1>0, <2>1, <2>3, <2>4, <2>6, <2>q, LifeFrame DEF IInv, Lives
  <2>7. TypeOK'
    BY <1>0, <1>5, <2>1, <2>2, <2>3, <2>4 DEF IInv, TypeOK
  <2>8. \A n \in Msg : n >= next => n # m /\ Unstarted(n)
    BY <1>t, <1>3 DEF IInv, OneWrite, Msg
  <2>9. OneWrite'
    BY <1>t, <1>0, <1>5, <2>1, <2>2, <2>6, <2>8 DEF OneWrite
  <2>10. TaskBeforeFree'
    BY <1>5 DEF IInv, TaskBeforeFree
  <2> QED BY <2>5, <2>6, <2>7, <2>9, <2>10 DEF IInv, Lives
<1> QED BY <1>2, <1>4, <1>5 DEF WriteData

\* The type of the variables, as the lemmas below use it.
LEMMA Types ==
  ASSUME IInv
  PROVE  /\ jobs \in Seq(Job) /\ queue \in Seq(Work) /\ req \in [Msg -> Request]
         /\ answer \in [Msg -> Answers] /\ posting \in Msg \cup {NoMsg}
         /\ writing \in Msg \cup {NoMsg} /\ NoMsg \notin Msg
         /\ next \in 1 .. MaxMsg + 1 /\ timeouts \in Nat /\ faults \in Nat
         /\ \A m \in Msg : Life(m)
BY TransportAssumption DEF IInv, TypeOK, OneWrite, Msg, NoMsg, Lives

\* What the changes to a request leave of it.
LEMMA FreeFacts ==
  ASSUME NEW r \in Request, r.refCount > 0, NEW q, q = TransportDataFree(r)
  PROVE  /\ q \in Request /\ q.refCount = r.refCount - 1
         /\ q.buff = r.buff /\ q.sem = r.sem /\ q.result = r.result
BY DEF TransportDataFree, Request

LEMMA BuffFreeFacts ==
  ASSUME NEW r \in Request, r.buff = "held", NEW q, q = BuffFree(r)
  PROVE  /\ q \in Request /\ q.refCount = r.refCount
         /\ q.buff = "given" /\ q.sem = r.sem /\ q.result = r.result
BY DEF BuffFree, Request

LEMMA SetSemFacts ==
  ASSUME NEW r \in Request, NEW v \in {"none", "0", "1", "freed"}, NEW q, q = [r EXCEPT !.sem = v]
  PROVE  /\ q \in Request /\ q.refCount = r.refCount
         /\ q.buff = r.buff /\ q.sem = v /\ q.result = r.result
BY DEF Request

LEMMA SetResultFacts ==
  ASSUME NEW r \in Request, NEW v \in Results, NEW q, q = [r EXCEPT !.result = v]
  PROVE  /\ q \in Request /\ q.refCount = r.refCount
         /\ q.buff = r.buff /\ q.sem = r.sem /\ q.result = v
BY DEF Request

\* The writer takes the answer for its message and drops its reference; the rest of the
\* write is the same whether the wait was answered or timed out.
LEMMA AnsweredKeeps ==
  ASSUME IInv, NEW m \in Msg, writing = m, NEW a \in Answers \ {"none"}, Answered(m, a),
         UNCHANGED <<posting, next, faults>>, timeouts' \in Nat,
         \A n \in Msg \ {m} : req'[n] = req[n],
         \A n \in Msg \ {m} : /\ Queued("send", n)' <=> Queued("send", n)
                              /\ Queued("freesem", n)' <=> Queued("freesem", n)
  PROVE  /\ OneWrite' /\ jobs' \in Seq(Job) /\ answer' \in [Msg -> Answers]
         /\ reader' \in {"poll", "loop"} /\ writing' = NoMsg /\ answer'[m] # "none"
         /\ \A n \in Msg \ {m} : Life(n)'
<1>1. /\ jobs # << >> /\ IsWrite(Head(jobs)) /\ jobs' = Tail(jobs) /\ writing' = NoMsg
      /\ answer' = [answer EXCEPT ![m] = a] /\ reader' \in {"poll", "loop"}
  BY Types DEF IInv, OneWrite, IsWrite, Answered
<1>2. jobs' \in Seq(Job) /\ \A i \in DOMAIN jobs' : ~IsWrite(jobs'[i])
  BY <1>1, Types, TailJobs, NoWriteLeft DEF IInv
<1>3. /\ answer' \in [Msg -> Answers] /\ answer'[m] # "none"
      /\ \A n \in Msg \ {m} : answer'[n] = answer[n]
  BY <1>1, Types
<1>4. ASSUME NEW n \in Msg \ {m}
      PROVE  Life(n)' /\ (Unstarted(n) => Unstarted(n)')
  <2>1. /\ (writing' = n) <=> (writing = n)
        /\ (posting' = n) <=> (posting = n)
    BY <1>1, <1>4, Types
  <2> QED BY <1>3, <1>4, <2>1, LifeFrame, Types
<1>5. \A n \in Msg : n >= next => n # m /\ Unstarted(n)
  BY DEF IInv, OneWrite, Unstarted
<1>6. OneWrite'
  BY <1>1, <1>2, <1>4, <1>5, Types DEF OneWrite
<1> QED BY <1>1, <1>2, <1>3, <1>4, <1>6

\* The wait is answered.
LEMMA WaitDoneInv == IInv /\ WaitDone => IInv'
<1> SUFFICES ASSUME IInv, WaitDone
             PROVE  IInv'
  OBVIOUS
<1>1. PICK m \in Msg : m = writing
  BY Types DEF WaitDone
<1> DEFINE r == req[m]
<1>2. /\ r.sem = "1" /\ req' = [req EXCEPT ![m] = [TransportDataFree(r) EXCEPT !.sem = "freed"]]
      /\ transState' = StateAfter(r.result) /\ Answered(m, AnswerOf(r.result))
      /\ UNCHANGED <<queue, posting, dtap, next, timeouts, faults>>
  BY <1>1 DEF WaitDone
<1>3. /\ ~Queued("send", m) /\ posting # m /\ r \in Request /\ ~Queued("freesem", m)
      /\ r.buff = "given" /\ r.refCount = 1
  BY <1>1, <1>2, Types DEF Life
<1>4. AnswerOf(r.result) \in Answers \ {"none"}
  BY DEF AnswerOf, Answers
<1>5. /\ req' \in [Msg -> Request] /\ \A n \in Msg \ {m} : req'[n] = req[n]
      /\ req'[m].sem = "freed" /\ req'[m].buff = "given" /\ req'[m].refCount = 0
  <2> DEFINE t == TransportDataFree(r)
             q == [t EXCEPT !.sem = "freed"]
  <2>1. t \in Request /\ t.refCount = 0 /\ t.buff = "given"
    BY <1>3, FreeFacts
  <2> HIDE DEF t
  <2>2. q \in Request /\ q.refCount = 0 /\ q.buff = "given" /\ q.sem = "freed"
    BY <2>1, SetSemFacts
  <2>3. req' = [req EXCEPT ![m] = q]
    BY <1>2 DEF t
  <2> HIDE DEF q
  <2> QED BY <2>2, <2>3, Types
<1>q. \A what, n : Queued(what, n)' <=> Queued(what, n)
  BY <1>2 DEF Queued
<1>6. /\ OneWrite' /\ jobs' \in Seq(Job) /\ answer' \in [Msg -> Answers]
      /\ reader' \in {"poll", "loop"} /\ writing' = NoMsg /\ answer'[m] # "none"
      /\ \A n \in Msg \ {m} : Life(n)'
  BY <1>1, <1>2, <1>4, <1>5, <1>q, Types, AnsweredKeeps
<1>7. Life(m)'
  <2>1. ~Queued("send", m)' /\ ~Queued("freesem", m)' /\ posting' # m /\ writing' # m
    BY <1>2, <1>3, <1>6, <1>q, Types
  <2> QED BY <1>5, <1>6, <2>1 DEF Life
<1>8. TypeOK'
  BY <1>2, <1>5, <1>6 DEF IInv, TypeOK, StateAfter
<1>9. TaskBeforeFree'
  BY <1>2 DEF IInv, TaskBeforeFree
<1> QED BY <1>6, <1>7, <1>8, <1>9 DEF IInv, Lives

\* The wait is given up: the semaphore is left to an item behind the task.
LEMMA WaitTimeoutInv == IInv /\ WaitTimeout => IInv'
<1> SUFFICES ASSUME IInv, WaitTimeout
             PROVE  IInv'
  OBVIOUS
<1>1. PICK m \in Msg : m = writing
  BY Types DEF WaitTimeout
<1> DEFINE r == req[m]
<1>2. /\ r.sem = "0" /\ req' = [req EXCEPT ![m] = TransportDataFree(r)]
      /\ queue' = Append(queue, [what |-> "freesem", msg |-> m])
      /\ Answered(m, "TRANS_FAIL") /\ timeouts' = timeouts + 1
      /\ UNCHANGED <<transState, posting, dtap, next, faults>>
  BY <1>1 DEF WaitTimeout, TimedOutRequest
<1>3. /\ Queued("send", m) \/ posting = m
      /\ ~Queued("freesem", m) /\ r \in Request /\ r.refCount \in {1, 2}
  BY <1>1, <1>2, Types DEF Life
<1>4. [what |-> "freesem", msg |-> m] \in Work
  BY DEF Work
<1>5. /\ queue' \in Seq(Work) /\ Len(queue') = Len(queue) + 1
      /\ \A i \in 1 .. Len(queue) : queue'[i] = queue[i]
      /\ queue'[Len(queue) + 1] = [what |-> "freesem", msg |-> m]
      /\ \A what, n : Queued(what, n)' <=>
           Queued(what, n) \/ (what = "freesem" /\ n = m)
  BY <1>2, <1>4, Types, AppendQueues
<1>6. /\ req' \in [Msg -> Request] /\ \A n \in Msg \ {m} : req'[n] = req[n]
      /\ req'[m].sem = r.sem /\ req'[m].buff = r.buff /\ req'[m].refCount = r.refCount - 1
      /\ req'[m].result = r.result
  <2> DEFINE t == TransportDataFree(r)
  <2>1. /\ t \in Request /\ t.refCount = r.refCount - 1
        /\ t.buff = r.buff /\ t.sem = r.sem /\ t.result = r.result
    BY <1>3, FreeFacts
  <2>2. req' = [req EXCEPT ![m] = t]
    BY <1>2
  <2> HIDE DEF t
  <2> QED BY <2>1, <2>2, Types
<1>7. /\ OneWrite' /\ jobs' \in Seq(Job) /\ answer' \in [Msg -> Answers]
      /\ reader' \in {"poll", "loop"} /\ writing' = NoMsg /\ answer'[m] # "none"
      /\ \A n \in Msg \ {m} : Life(n)'
  <2>1. "TRANS_FAIL" \in Answers \ {"none"} /\ timeouts' \in Nat
    BY <1>2, Types DEF Answers
  <2> QED BY <1>1, <1>2, <1>5, <1>6, <2>1, Types, AnsweredKeeps
<1>8. Life(m)'
  BY <1>1, <1>2, <1>3, <1>5, <1>6, <1>7, Types DEF Life
<1>9. TypeOK'
  BY <1>2, <1>5, <1>6, <1>7 DEF IInv, TypeOK
<1>10. TaskBeforeFree'
  <2> SUFFICES ASSUME NEW i \in DOMAIN queue', NEW j \in DOMAIN queue', i < j,
                      queue'[i].msg = queue'[j].msg
               PROVE  queue'[i].what = "send" /\ queue'[j].what = "freesem"
    BY DEF TaskBeforeFree
  <2>1. /\ DOMAIN queue = 1 .. Len(queue) /\ DOMAIN queue' = 1 .. Len(queue) + 1
        /\ Len(queue) \in Nat
    BY <1>5, Types, LenProperties
  <2>2. i \in DOMAIN queue /\ queue'[i] = queue[i] /\ queue[i] \in Work
    BY <1>5, <2>1, Types, ElementOfSeq
  <2>3. CASE j \in DOMAIN queue
    BY <1>5, <2>1, <2>2, <2>3 DEF IInv, TaskBeforeFree
  <2>4. CASE j = Len(queue) + 1
    <3>1. queue'[j] = [what |-> "freesem", msg |-> m] /\ queue[i].msg = m
      BY <1>5, <2>2, <2>4
    <3>2. queue[i] = [what |-> queue[i].what, msg |-> m]
          /\ queue[i].what \in {"send", "freesem"}
      BY <2>2, <3>1 DEF Work
    <3>3. queue[i].what # "freesem"
      BY <1>3, <2>2, <3>2 DEF Queued
    <3> QED BY <2>2, <3>1, <3>2, <3>3
  <2> QED BY <2>1, <2>3, <2>4
<1> QED BY <1>7, <1>8, <1>9, <1>10 DEF IInv, Lives

\* The port becomes available.
LEMMA UpdateTransferStateInv == IInv /\ UpdateTransferState => IInv'
<1> SUFFICES ASSUME IInv, UpdateTransferState
             PROVE  IInv'
  OBVIOUS
<1>1. /\ jobs # << >> /\ Head(jobs).what = "available" /\ jobs' = Tail(jobs)
      /\ transState' = "AVAILABLE"
      /\ UNCHANGED <<reader, writing, queue, posting, req, dtap, answer, next, timeouts, faults>>
  BY DEF UpdateTransferState
<1>2. writing = NoMsg
  BY <1>1 DEF IInv, OneWrite
<1>3. /\ jobs' \in Seq(Job) /\ DOMAIN jobs = 1 .. Len(jobs) /\ Len(jobs) \in Nat
      /\ DOMAIN jobs' = 1 .. Len(jobs) - 1
      /\ \A i \in DOMAIN jobs' : i + 1 \in DOMAIN jobs /\ jobs'[i] = jobs[i + 1]
  BY <1>1, Types, TailJobs
<1>4. \A m \in Msg : (Unstarted(m)' <=> Unstarted(m)) /\ (Life(m)' <=> Life(m))
  BY <1>1 DEF Unstarted, Life, Queued
<1>5. \A i, j \in DOMAIN jobs' : IsWrite(jobs'[i]) /\ IsWrite(jobs'[j]) => i = j
  <2> SUFFICES ASSUME NEW i \in DOMAIN jobs', NEW j \in DOMAIN jobs',
                      IsWrite(jobs'[i]), IsWrite(jobs'[j])
               PROVE  i = j
    OBVIOUS
  <2>1. i + 1 = j + 1
    BY <1>3 DEF IInv, OneWrite
  <2> QED BY <1>3, <2>1
<1>6. \A i \in DOMAIN jobs' : IsWrite(jobs'[i]) => reader = "wait" /\ jobs'[i].msg = next - 1
  BY <1>3 DEF IInv, OneWrite
<1>7. OneWrite'
  BY <1>1, <1>2, <1>4, <1>5, <1>6 DEF IInv, OneWrite
<1>8. TypeOK' /\ TaskBeforeFree'
  BY <1>1, <1>3 DEF IInv, TypeOK, TaskBeforeFree
<1> QED BY <1>4, <1>7, <1>8 DEF IInv, Lives

\* The channel keeps its type when a message is sent.
LEMMA SendEnhanceFrameType ==
  ASSUME NEW m \in Msg,
         NEW d \in [n : 0 .. Window, full : BOOLEAN, cache : Msg \cup {NoMsg}, out : Seq(Msg)]
  PROVE  SendEnhanceFrame(d, m)
           \in [n : 0 .. Window, full : BOOLEAN, cache : Msg \cup {NoMsg}, out : Seq(Msg)]
<1>1. Append(d.out, m) \in Seq(Msg)
  BY AppendProperties
<1>2. CASE d.n + 1 > Window
  BY <1>2 DEF SendEnhanceFrame
<1>3. CASE ~(d.n + 1 > Window)
  <2>1. d.n + 1 \in 0 .. Window
    BY <1>3, TransportAssumption
  <2>2. (d.full \/ d.n + 1 = Window) \in BOOLEAN
    OBVIOUS
  <2> QED BY <1>1, <1>3, <2>1, <2>2 DEF SendEnhanceFrame
<1> QED BY <1>2, <1>3

\* The channel keeps its type when the window slides.
LEMMA StatusChangeType ==
  ASSUME NEW d \in [n : 0 .. Window, full : BOOLEAN, cache : Msg \cup {NoMsg}, out : Seq(Msg)]
  PROVE  StatusChange(d)
           \in [n : 0 .. Window, full : BOOLEAN, cache : Msg \cup {NoMsg}, out : Seq(Msg)]
<1> DEFINE T == [n : 0 .. Window, full : BOOLEAN, cache : Msg \cup {NoMsg}, out : Seq(Msg)]
           e == [d EXCEPT !.full = FALSE]
<1>1. CASE ~d.full
  BY <1>1 DEF StatusChange
<1>2. CASE d.full /\ CacheGoes(d)
  <2>1. e \in T /\ d.cache \in Msg
    BY <1>2 DEF CacheGoes
  <2>2. SendEnhanceFrame(e, d.cache) \in T
    BY <2>1, SendEnhanceFrameType
  <2>3. [SendEnhanceFrame(e, d.cache) EXCEPT !.cache = NoMsg] \in T
    BY <2>2
  <2> QED BY <1>2, <2>3 DEF StatusChange
<1>3. CASE d.full /\ ~CacheGoes(d)
  BY <1>3 DEF StatusChange, TellsClient
<1> QED BY <1>1, <1>2, <1>3

\* A task of the schedule thread touches the request of one message and nothing the
\* reader and the writer look at.
LEMMA TaskKeeps ==
  ASSUME IInv, NEW m \in Msg,
         UNCHANGED <<reader, jobs, writing, answer, next, timeouts>>, faults' \in Nat,
         ~Unstarted(m),
         \A n \in Msg \ {m} : req'[n] = req[n],
         \A n \in Msg \ {m} : (posting' = n) <=> (posting = n),
         \A n \in Msg \ {m} : /\ Queued("send", n)' <=> Queued("send", n)
                              /\ Queued("freesem", n)' <=> Queued("freesem", n)
  PROVE  OneWrite' /\ \A n \in Msg \ {m} : Life(n)'
<1>1. ASSUME NEW n \in Msg \ {m}
      PROVE  Life(n)' /\ (Unstarted(n) => Unstarted(n)')
  BY <1>1, LifeFrame, Types
<1>2. \A n \in Msg : n >= next => n # m /\ Unstarted(n)'
  BY <1>1 DEF IInv, OneWrite
<1>3. \A n \in Msg : reader = "wait" /\ writing = NoMsg /\ n = next - 1 => Unstarted(n)'
  BY <1>1 DEF IInv, OneWrite
<1>4. OneWrite'
  BY <1>2, <1>3 DEF IInv, OneWrite
<1> QED BY <1>1, <1>4

\* The task runs: it gives the buffer away and drops its reference.
LEMMA SendDataProcInv == IInv /\ SendDataProc => IInv'
<1> SUFFICES ASSUME IInv, SendDataProc
             PROVE  IInv'
  OBVIOUS
<1>1. /\ queue # << >> /\ Head(queue).what = "send" /\ posting = NoMsg /\ queue' = Tail(queue)
      /\ UNCHANGED <<reader, jobs, writing, transState, answer, next, timeouts>>
  BY DEF SendDataProc
<1>2. /\ queue' \in Seq(Work) /\ Head(queue) \in Work /\ 1 \in DOMAIN queue
      /\ queue[1] = Head(queue)
      /\ \A what, n : Queued(what, n)' => Queued(what, n)
      /\ \A what, n : Queued(what, n) =>
           Queued(what, n)' \/ (what = Head(queue).what /\ n = Head(queue).msg)
  BY <1>1, Types, TailQueues
<1>3. PICK m \in Msg : m = Head(queue).msg
  BY <1>2 DEF Work
<1>4. Head(queue) = [what |-> "send", msg |-> m]
  BY <1>1, <1>2, <1>3 DEF Work
<1>5. /\ Queued("send", m) /\ ~Queued("send", m)' /\ TaskBeforeFree'
      /\ \A n \in Msg \ {m} : /\ Queued("send", n)' <=> Queued("send", n)
                              /\ Queued("freesem", n)' <=> Queued("freesem", n)
      /\ Queued("freesem", m)' <=> Queued("freesem", m)
  <2>1. Queued("send", m)
    BY <1>2, <1>4 DEF Queued
  <2>2. PICK x : x = Head(queue)
    OBVIOUS
  <2>3. ~Queued(x.what, x.msg)' /\ TaskBeforeFree'
    BY <1>1, <2>2, Types, HeadIsOnce DEF IInv
  <2>4. x.what = "send" /\ x.msg = m
    BY <1>4, <2>2
  <2> QED BY <1>2, <1>4, <2>1, <2>3, <2>4
<1> DEFINE r == req[m]
           g == TransportDataFree(BuffFree(req[m]))
<1>6. /\ r \in Request /\ r.buff = "held" /\ r.sem = "0" /\ r.result = "unset"
      /\ r.refCount = (IF writing = m THEN 2 ELSE 1)
  BY <1>5, Types DEF Life
<1>7. /\ g \in Request /\ g.buff = "given" /\ g.sem = "0"
      /\ g.refCount = (IF writing = m THEN 1 ELSE 0)
  <2> DEFINE b == BuffFree(r)
  <2>1. b \in Request /\ b.refCount = r.refCount /\ b.buff = "given" /\ b.sem = "0"
    BY <1>6, BuffFreeFacts
  <2>2. g = TransportDataFree(b)
    OBVIOUS
  <2> HIDE DEF b, g
  <2> QED BY <1>6, <2>1, <2>2, FreeFacts
<1>8. PICK res \in Results :
        /\ dtap' = dtap \/ dtap' = SendEnhanceFrame(dtap, m)
        /\ req' = [req EXCEPT ![m] = [g EXCEPT !.result = res]]
        /\ posting' = m /\ faults' \in {faults, faults + 1}
  BY <1>3 DEF SendDataProc, Results
<1>9. /\ req' \in [Msg -> Request] /\ \A n \in Msg \ {m} : req'[n] = req[n]
      /\ req'[m].buff = "given" /\ req'[m].sem = "0"
      /\ req'[m].refCount = (IF writing = m THEN 1 ELSE 0)
  <2> DEFINE q == [g EXCEPT !.result = res]
  <2>1. req' = [req EXCEPT ![m] = q]
    BY <1>8
  <2> HIDE DEF g
  <2>2. /\ q \in Request /\ q.buff = "given" /\ q.sem = "0"
        /\ q.refCount = (IF writing = m THEN 1 ELSE 0)
    BY <1>7, SetResultFacts
  <2> HIDE DEF q
  <2> QED BY <2>1, <2>2, Types
<1>10. OneWrite' /\ \A n \in Msg \ {m} : Life(n)'
  <2>1. \A n \in Msg \ {m} : (posting' = n) <=> (posting = n)
    BY <1>1, <1>8, Types
  <2>2. ~Unstarted(m) /\ faults' \in Nat
    BY <1>5, <1>8, Types DEF Unstarted
  <2> QED BY <1>1, <1>5, <1>9, <2>1, <2>2, TaskKeeps
<1>11. Life(m)'
  <2>1. /\ Queued("freesem", m) \/ answer[m] # "none" => writing # m
        /\ writing # m => Queued("freesem", m)
    BY <1>5, Types DEF Life
  <2> QED BY <1>1, <1>5, <1>8, <1>9, <2>1 DEF Life
<1>12. TypeOK'
  BY <1>1, <1>2, <1>8, <1>9, SendEnhanceFrameType DEF IInv, TypeOK
<1> QED BY <1>5, <1>10, <1>11, <1>12 DEF IInv, Lives

\* The semaphore is posted.
LEMMA SemPostInv == IInv /\ SemPost => IInv'
<1> SUFFICES ASSUME IInv, SemPost
             PROVE  IInv'
  OBVIOUS
<1>1. PICK m \in Msg : m = posting
  BY Types DEF SemPost
<1>2. /\ req' = [req EXCEPT ![m].sem = "1"] /\ posting' = NoMsg
      /\ UNCHANGED <<reader, jobs, writing, transState, queue, dtap, answer, next, timeouts,
                     faults>>
  BY <1>1 DEF SemPost
<1> DEFINE r == req[m]
<1>3. /\ r \in Request /\ r.buff = "given" /\ r.sem = "0" /\ ~Queued("send", m)
      /\ r.refCount = (IF writing = m THEN 1 ELSE 0)
      /\ Queued("freesem", m) \/ answer[m] # "none" => writing # m
  BY <1>1, Types DEF Life
<1>4. /\ req' \in [Msg -> Request] /\ \A n \in Msg \ {m} : req'[n] = req[n]
      /\ req'[m].buff = "given" /\ req'[m].sem = "1" /\ req'[m].refCount = r.refCount
  <2>1. [r EXCEPT !.sem = "1"] \in Request
    BY <1>3 DEF Request
  <2> QED BY <1>2, <1>3, <2>1, Types DEF Request
<1>5. \A what, n : Queued(what, n)' <=> Queued(what, n)
  BY <1>2 DEF Queued
<1>6. OneWrite' /\ \A n \in Msg \ {m} : Life(n)'
  <2>1. \A n \in Msg \ {m} : (posting' = n) <=> (posting = n)
    BY <1>1, <1>2, Types
  <2>2. ~Unstarted(m) /\ faults' \in Nat
    BY <1>1, <1>2, Types DEF Unstarted
  <2> QED BY <1>2, <1>4, <1>5, <2>1, <2>2, TaskKeeps
<1>7. Life(m)'
  <2>1. posting' # m /\ ~Queued("send", m)'
    BY <1>2, <1>3, <1>5, Types
  <2>2. CASE writing = m
    BY <1>2, <1>3, <1>4, <1>5, <2>1, <2>2 DEF Life
  <2>3. CASE writing # m
    <3>1. Queued("freesem", m)
      BY <1>1, <2>3, Types DEF Life
    <3> QED BY <1>2, <1>3, <1>4, <1>5, <2>1, <2>3, <3>1 DEF Life
  <2> QED BY <2>2, <2>3
<1>8. TypeOK' /\ TaskBeforeFree'
  BY <1>2, <1>4 DEF IInv, TypeOK, TaskBeforeFree
<1> QED BY <1>6, <1>7, <1>8 DEF IInv, Lives

\* The semaphore of a request that timed out is freed.
LEMMA FreeSemInv == IInv /\ FreeSem => IInv'
<1> SUFFICES ASSUME IInv, FreeSem
             PROVE  IInv'
  OBVIOUS
<1>1. /\ queue # << >> /\ Head(queue).what = "freesem" /\ posting = NoMsg
      /\ queue' = Tail(queue)
      /\ UNCHANGED <<reader, jobs, writing, transState, posting, dtap, answer, next, timeouts,
                     faults>>
  BY DEF FreeSem
<1>2. /\ queue' \in Seq(Work) /\ Head(queue) \in Work /\ 1 \in DOMAIN queue
      /\ queue[1] = Head(queue)
      /\ \A what, n : Queued(what, n)' => Queued(what, n)
      /\ \A what, n : Queued(what, n) =>
           Queued(what, n)' \/ (what = Head(queue).what /\ n = Head(queue).msg)
  BY <1>1, Types, TailQueues
<1>3. PICK m \in Msg : m = Head(queue).msg
  BY <1>2 DEF Work
<1>4. Head(queue) = [what |-> "freesem", msg |-> m] /\ req' = [req EXCEPT ![m].sem = "freed"]
  BY <1>1, <1>2, <1>3 DEF Work, FreeSem
<1>5. /\ Queued("freesem", m) /\ ~Queued("freesem", m)' /\ TaskBeforeFree'
      /\ ~Queued("send", m) /\ ~Queued("send", m)'
      /\ \A n \in Msg \ {m} : /\ Queued("send", n)' <=> Queued("send", n)
                              /\ Queued("freesem", n)' <=> Queued("freesem", n)
  <2>1. Queued("freesem", m)
    BY <1>2, <1>4 DEF Queued
  <2>2. PICK x : x = Head(queue)
    OBVIOUS
  <2>3. /\ ~Queued(x.what, x.msg)' /\ TaskBeforeFree'
        /\ x.what = "freesem" => ~Queued("send", x.msg)
    BY <1>1, <2>2, Types, HeadIsOnce DEF IInv
  <2>4. x.what = "freesem" /\ x.msg = m
    BY <1>4, <2>2
  <2> QED BY <1>2, <1>4, <2>1, <2>3, <2>4
<1>6. /\ req[m] \in Request /\ writing # m /\ posting # m
      /\ req[m].buff = "given" /\ req[m].refCount = 0
  BY <1>1, <1>5, Types DEF Life
<1>7. /\ req' \in [Msg -> Request] /\ \A n \in Msg \ {m} : req'[n] = req[n]
      /\ req'[m].buff = "given" /\ req'[m].sem = "freed" /\ req'[m].refCount = 0
  <2> DEFINE q == [req[m] EXCEPT !.sem = "freed"]
  <2>1. q \in Request /\ q.buff = "given" /\ q.sem = "freed" /\ q.refCount = 0
    BY <1>6, SetSemFacts
  <2>2. req' = [req EXCEPT ![m] = q]
    BY <1>4
  <2> HIDE DEF q
  <2> QED BY <2>1, <2>2, Types
<1>8. OneWrite' /\ \A n \in Msg \ {m} : Life(n)'
  <2>1. ~Unstarted(m) /\ faults' \in Nat
    BY <1>1, <1>5, Types DEF Unstarted
  <2> QED BY <1>1, <1>5, <1>7, <2>1, TaskKeeps
<1>9. Life(m)'
  BY <1>1, <1>5, <1>6, <1>7 DEF Life
<1>10. TypeOK'
  BY <1>1, <1>2, <1>7 DEF IInv, TypeOK
<1> QED BY <1>5, <1>8, <1>9, <1>10 DEF IInv, Lives

\* An acknowledgement slides the window and may append an "available" job.
LEMMA AcknowledgedInv == IInv /\ Acknowledged => IInv'
<1> SUFFICES ASSUME IInv, Acknowledged
             PROVE  IInv'
  OBVIOUS
<1> DEFINE d == [dtap EXCEPT !.n = @ - 1]
           x == [what |-> "available"]
<1>1. /\ dtap.n > 0 /\ dtap' = StatusChange(d)
      /\ jobs' = Append(jobs, x) \/ jobs' = jobs
      /\ UNCHANGED <<reader, writing, transState, queue, posting, req, answer, next, timeouts,
                     faults>>
  BY DEF Acknowledged
<1>2. d \in [n : 0 .. Window, full : BOOLEAN, cache : Msg \cup {NoMsg}, out : Seq(Msg)]
  <2>1. dtap \in [n : 0 .. Window, full : BOOLEAN, cache : Msg \cup {NoMsg}, out : Seq(Msg)]
    BY DEF IInv, TypeOK
  <2>2. dtap.n - 1 \in 0 .. Window
    BY <1>1, <2>1, TransportAssumption
  <2> QED BY <2>1, <2>2
<1>3. dtap' \in [n : 0 .. Window, full : BOOLEAN, cache : Msg \cup {NoMsg}, out : Seq(Msg)]
  BY <1>1, <1>2, StatusChangeType
<1>4. \A m \in Msg : (Unstarted(m)' <=> Unstarted(m)) /\ (Life(m)' <=> Life(m))
  BY <1>1 DEF Unstarted, Life, Queued
<1>5. CASE jobs' = jobs
  <2>1. OneWrite'
    BY <1>1, <1>4, <1>5 DEF IInv, OneWrite
  <2>2. TypeOK' /\ TaskBeforeFree'
    BY <1>1, <1>3, <1>5 DEF IInv, TypeOK, TaskBeforeFree
  <2> QED BY <1>4, <2>1, <2>2 DEF IInv, Lives
<1>6. CASE jobs' = Append(jobs, x)
  <2>1. x \in Job /\ ~IsWrite(x)
    BY DEF Job, IsWrite
  <2>2. /\ jobs' \in Seq(Job) /\ Len(jobs) \in Nat /\ DOMAIN jobs = 1 .. Len(jobs)
        /\ DOMAIN jobs' = 1 .. Len(jobs) + 1
        /\ \A i \in DOMAIN jobs : jobs'[i] = jobs[i]
        /\ jobs'[Len(jobs) + 1] = x
        /\ jobs # << >> => jobs' # << >> /\ Head(jobs') = Head(jobs)
    BY <1>6, <2>1, Types, AppendJobs
  <2>3. \A i \in DOMAIN jobs' : IsWrite(jobs'[i]) => i \in DOMAIN jobs /\ jobs'[i] = jobs[i]
    BY <2>1, <2>2
  <2>6. \A i, j \in DOMAIN jobs' : IsWrite(jobs'[i]) /\ IsWrite(jobs'[j]) => i = j
    BY <2>3 DEF IInv, OneWrite
  <2>7. \A i \in DOMAIN jobs' : IsWrite(jobs'[i]) => reader = "wait" /\ jobs'[i].msg = next - 1
    BY <2>3 DEF IInv, OneWrite
  <2>4. OneWrite'
    BY <1>1, <1>4, <2>2, <2>6, <2>7 DEF IInv, OneWrite
  <2>5. TypeOK' /\ TaskBeforeFree'
    BY <1>1, <1>3, <2>2 DEF IInv, TypeOK, TaskBeforeFree
  <2> QED BY <1>4, <2>4, <2>5 DEF IInv, Lives
<1> QED BY <1>1, <1>5, <1>6

\* Every step keeps the invariant.
LEMMA NextInv == IInv /\ [Next]_vars => IInv'
<1> SUFFICES ASSUME IInv, [Next]_vars
             PROVE  IInv'
  OBVIOUS
<1>1. CASE UNCHANGED vars
  <2>1. \A m \in Msg : (Unstarted(m)' <=> Unstarted(m)) /\ (Life(m)' <=> Life(m))
    BY <1>1 DEF vars, Unstarted, Life, Queued
  <2> QED BY <1>1, <2>1 DEF vars, IInv, TypeOK, OneWrite, TaskBeforeFree, Lives
<1> QED BY <1>1, ReceivedDataInv, WriteDataInv, WaitDoneInv, WaitTimeoutInv,
           UpdateTransferStateInv, SendDataProcInv, SemPostInv, FreeSemInv, AcknowledgedInv
        DEF Next

-----------------------------------------------------------------------------
(* The theorems.                                                           *)

\* The invariant holds in every reachable state, for any number of messages, timeouts
\* and faults.
THEOREM InvariantHolds == Spec => []IInv
BY InitInv, NextInv, PTL DEF Spec

\* Type correctness; in particular a reference count is never negative and the window is
\* never overfilled.
THEOREM TypeCorrect == Spec => []TypeOK
<1>1. IInv => TypeOK
  BY DEF IInv
<1> QED BY <1>1, InvariantHolds, PTL

\* No thread touches a request, a buffer or a semaphore that the other has freed,
\* whichever of the 500 ms timeout and the task comes first (TRANS_SendData,
\* SchedulePostTaskBlocked).
THEOREM NothingUsedAfterFree == Spec => []NoUseAfterFree
<1>1. IInv => NoUseAfterFree
  BY Types DEF NoUseAfterFree, Life
<1> QED BY <1>1, InvariantHolds, PTL

\* No buffer is freed twice, and a message that is answered and no longer queued has left
\* nothing behind.
THEOREM EverythingFreedOnce == Spec => []FreedExactlyOnce
<1>1. ASSUME IInv, NEW m \in Msg
      PROVE  /\ req[m].buff # "twice"
             /\ (/\ answer[m] # "none" /\ posting # m
                 /\ ~Queued("send", m) /\ ~Queued("freesem", m)) =>
                    req[m].refCount = 0 /\ req[m].buff = "given" /\ req[m].sem = "freed"
  <2>1. Life(m) /\ (Unstarted(m) => req[m].buff = "none")
    BY <1>1, Types DEF Unstarted, NoRequest
  <2> QED BY <2>1 DEF Life
<1>2. IInv => FreedExactlyOnce
  BY <1>1 DEF FreedExactlyOnce
<1> QED BY <1>2, InvariantHolds, PTL

-----------------------------------------------------------------------------
(* The answers.  While nothing has timed out, the work list and the task   *)
(* that posts are the writer's, and after a full window nothing is written *)
(* until the reader has seen the port available again: either the writer   *)
(* has still to record BUSY, or the reader polls and "available" is under  *)
(* way or yet to come.  So the window has room for every message, and the  *)
(* cache is never needed.                                                  *)

IsAvailable(j) == j.what = "available"
Taken(r) == r \in {"SUCCESS", "TX_CACHE_FULL"}
InOut(m) == \E i \in DOMAIN dtap.out : dtap.out[i] = m

\* The window has been full since the reader last saw the port available.
Paused == dtap.full \/ \E i \in DOMAIN jobs : IsAvailable(jobs[i])

OnlyWriter ==
    /\ \A i \in DOMAIN queue : queue[i].what = "send" /\ queue[i].msg = writing
    /\ posting # NoMsg => posting = writing

RoomForNext ==
    /\ dtap.cache = NoMsg
    /\ dtap.full \/ dtap.n < Window
    /\ \A i \in DOMAIN jobs : IsAvailable(jobs[i]) =>
          ~dtap.full /\ \A j \in DOMAIN jobs : IsAvailable(jobs[j]) => i = j
    /\ Paused =>
          \/ writing # NoMsg /\ req[writing].result = "TX_CACHE_FULL"
          \/ writing = NoMsg /\ reader = "poll" /\ transState = "BUSY"

TrueResults ==
    /\ \A m \in Msg : InOut(m) <=> Taken(req[m].result)
    /\ \A m \in Msg : Accepted(m) => Taken(req[m].result)
    /\ \A m \in Msg : answer[m] = "TRANS_FAIL" => ~Taken(req[m].result)
    /\ \A i, j \in DOMAIN dtap.out : i < j => dtap.out[i] < dtap.out[j]

Truth == OnlyWriter /\ RoomForNext /\ TrueResults

TInv == timeouts = 0 => Truth

\* The channel record.
DtapType == [n : 0 .. Window, full : BOOLEAN, cache : Msg \cup {NoMsg}, out : Seq(Msg)]

\* Sending into a window with room and an empty cache.
LEMMA SendWithRoom ==
  ASSUME NEW m \in Msg, NEW d \in DtapType, ~d.full, d.n < Window, d.cache = NoMsg,
         NEW e, e = SendEnhanceFrame(d, m)
  PROVE  /\ e.cache = NoMsg /\ (e.full \/ e.n < Window)
         /\ e.out = Append(d.out, m)
<1>1. ~(d.n + 1 > Window) /\ d.n + 1 \in Nat
  BY TransportAssumption DEF DtapType
<1>2. e = [d EXCEPT !.n = @ + 1, !.full = @ \/ d.n + 1 = Window, !.out = Append(@, m)]
  BY <1>1 DEF SendEnhanceFrame
<1>3. e.cache = d.cache /\ e.out = Append(d.out, m) /\ e.n = d.n + 1
  BY <1>2 DEF DtapType
<1>4. e.full = (d.full \/ d.n + 1 = Window)
  BY <1>2 DEF DtapType
<1>5. d.n + 1 = Window \/ d.n + 1 < Window
  BY <1>1, TransportAssumption
<1> QED BY <1>3, <1>4, <1>5

\* The window slides and the cache is empty: the channel is no longer full, and the
\* client is told if it was.
LEMMA SlideWithoutCache ==
  ASSUME NEW d \in DtapType, d.n < Window, d.cache = NoMsg, NEW e, e = StatusChange(d)
  PROVE  /\ e.cache = NoMsg /\ e.out = d.out /\ e.n = d.n /\ ~e.full
         /\ TellsClient(d) <=> d.full
<1>1. ~CacheGoes(d) /\ (TellsClient(d) <=> d.full)
  BY DEF CacheGoes, TellsClient
<1>2. CASE d.full
  <2>1. e = [d EXCEPT !.full = ~TellsClient(d)]
    BY <1>1, <1>2 DEF StatusChange
  <2> QED BY <1>1, <1>2, <2>1 DEF DtapType
<1>3. CASE ~d.full
  BY <1>1, <1>3 DEF StatusChange
<1> QED BY <1>2, <1>3

\* The types TInv is about.
LEMMA TruthTypes ==
  ASSUME IInv
  PROVE  /\ dtap \in DtapType /\ dtap.out \in Seq(Msg)
         /\ writing # NoMsg => reader = "wait" /\ writing = next - 1
         /\ \A m \in Msg : Queued("send", m) => req[m].result = "unset"
         /\ \A m \in Msg : m >= next => req[m].result = "unset"
<1>1. dtap \in DtapType /\ dtap.out \in Seq(Msg)
  BY DEF IInv, TypeOK, DtapType
<1>2. ASSUME writing # NoMsg
      PROVE  reader = "wait" /\ writing = next - 1
  <2>1. jobs # << >> /\ IsWrite(Head(jobs)) /\ Head(jobs).msg = writing
    BY <1>2 DEF IInv, OneWrite, IsWrite
  <2>2. Head(jobs) = jobs[1] /\ 1 \in DOMAIN jobs
    BY <2>1, Types, HeadTailProperties, EmptySeq, LenProperties
  <2> QED BY <2>1, <2>2 DEF IInv, OneWrite
<1>3. \A m \in Msg : Queued("send", m) => req[m].result = "unset"
  BY Types DEF Life
<1>4. \A m \in Msg : m >= next => req[m].result = "unset"
  BY DEF IInv, OneWrite, Unstarted, NoRequest
<1> QED BY <1>1, <1>2, <1>3, <1>4

\* A sequence without an index is empty.
LEMMA NothingIsEmpty ==
  ASSUME NEW S, NEW s \in Seq(S), \A i \in DOMAIN s : FALSE
  PROVE  s = << >>
<1>1. Len(s) \in Nat /\ DOMAIN s = 1 .. Len(s)
  BY LenProperties
<1>2. Len(s) = 0
  BY <1>1
<1> QED BY <1>2, EmptySeq

\* Initially.
LEMMA InitTruth == Init => Truth
<1> SUFFICES ASSUME Init
             PROVE  Truth
  OBVIOUS
<1>1. DOMAIN << >> = {}
  BY EmptySeq
<1>2. /\ dtap.out = << >> /\ dtap.cache = NoMsg /\ dtap.n = 0 /\ ~dtap.full
      /\ \A m \in Msg : req[m].result = "unset" /\ answer[m] = "none"
  BY DEF Init, DtapInit, NoRequest
<1>3. OnlyWriter
  BY <1>1 DEF Init, OnlyWriter
<1>4. RoomForNext
  BY <1>1, <1>2, TransportAssumption DEF Init, RoomForNext, Paused
<1>5. TrueResults
  BY <1>1, <1>2 DEF TrueResults, InOut, Taken, Accepted
<1> QED BY <1>3, <1>4, <1>5 DEF Truth

\* The reader goes on only when the window has room.
LEMMA ReceivedDataTruth == IInv /\ Truth /\ ReceivedData => Truth'
<1> SUFFICES ASSUME IInv, Truth, ReceivedData
             PROVE  Truth'
  OBVIOUS
<1> DEFINE x == [what |-> "write", msg |-> next]
<1>1. /\ next \in Msg /\ x \in Job /\ jobs' = Append(jobs, x) /\ ~IsAvailable(x)
      /\ reader # "wait" /\ ~(reader = "poll" /\ transState = "BUSY")
      /\ UNCHANGED <<writing, transState, queue, posting, req, dtap, answer, timeouts, faults>>
  BY Types DEF ReceivedData, Msg, Job, IsAvailable
<1>2. ~Paused
  BY <1>1, TruthTypes DEF Truth, RoomForNext
<1>3. \A i \in DOMAIN jobs' : ~IsAvailable(jobs'[i])
  BY <1>1, <1>2, Types, AppendJobs DEF Paused
<1>4. RoomForNext'
  BY <1>1, <1>2, <1>3 DEF Truth, RoomForNext, Paused
<1>5. OnlyWriter' /\ TrueResults'
  BY <1>1 DEF Truth, OnlyWriter, TrueResults, InOut, Accepted
<1> QED BY <1>4, <1>5 DEF Truth

\* The writer starts with a port that is not paused.
LEMMA WriteDataTruth == IInv /\ Truth /\ WriteData => Truth'
<1> SUFFICES ASSUME IInv, Truth, WriteData
             PROVE  Truth'
  OBVIOUS
<1>0. /\ jobs # << >> /\ Head(jobs).what = "write" /\ writing = NoMsg
      /\ UNCHANGED <<transState, posting, dtap, next, timeouts>>
  BY DEF WriteData
<1>1. /\ Head(jobs) \in Job /\ Head(jobs) = jobs[1] /\ 1 \in DOMAIN jobs
  BY <1>0, Types, HeadTailProperties, EmptySeq, LenProperties
<1>2. PICK m \in Msg : Head(jobs) = [what |-> "write", msg |-> m]
  BY <1>0, <1>1 DEF Job
<1>3. /\ reader = "wait" /\ m = next - 1 /\ Unstarted(m)
  BY <1>0, <1>1, <1>2 DEF IInv, OneWrite, IsWrite
<1>4. ~Paused /\ \A i \in DOMAIN jobs : ~IsAvailable(jobs[i])
  BY <1>0, <1>3 DEF Truth, RoomForNext, Paused
<1>5. req[m].result = "unset" /\ answer[m] = "none" /\ queue = << >> /\ posting = NoMsg
  <2>1. \A i \in DOMAIN queue : FALSE
    <3> SUFFICES ASSUME NEW i \in DOMAIN queue
                 PROVE  FALSE
      OBVIOUS
    <3>1. queue[i] \in Work /\ queue[i].msg = NoMsg
      BY <1>0, Types, ElementOfSeq, LenProperties DEF Truth, OnlyWriter
    <3> QED BY <3>1, Types DEF Work
  <2>2. queue = << >>
    BY <2>1, Types, NothingIsEmpty
  <2> QED BY <1>0, <1>3, <2>2 DEF Unstarted, NoRequest, Truth, OnlyWriter
<1>6. CASE /\ writing' = m
           /\ req' = [req EXCEPT ![m] = NewRequest]
           /\ queue' = Append(queue, [what |-> "send", msg |-> m])
           /\ UNCHANGED <<reader, jobs, answer, faults>>
  <2>1. \A n \in Msg : req'[n].result = req[n].result
    BY <1>5, <1>6, Types DEF NewRequest
  <2>2. queue' = << [what |-> "send", msg |-> m] >>
    BY <1>5, <1>6
  <2>3. OnlyWriter'
    BY <1>0, <1>5, <1>6, <2>2 DEF OnlyWriter
  <2>4. RoomForNext'
    BY <1>0, <1>4, <1>6 DEF Truth, RoomForNext, Paused
  <2>5. TrueResults'
    BY <1>0, <1>6, <2>1 DEF Truth, TrueResults, InOut, Accepted
  <2> QED BY <2>3, <2>4, <2>5 DEF Truth
<1>7. CASE /\ req' = [req EXCEPT ![m] = BuffFree(
                        [TransportDataFree(TransportDataFree(NewRequest)) EXCEPT !.sem = "freed"])]
           /\ Answered(m, "TRANS_FAIL")
           /\ UNCHANGED queue
  <2>1. /\ jobs' = Tail(jobs) /\ writing' = NoMsg /\ answer' = [answer EXCEPT ![m] = "TRANS_FAIL"]
    BY <1>7 DEF Answered
  <2>2. BuffFree([TransportDataFree(TransportDataFree(NewRequest)) EXCEPT !.sem = "freed"]).result
          = "unset"
    BY FailedRequest
  <2>3. \A n \in Msg : req'[n].result = req[n].result
    BY <1>5, <1>7, <2>2, Types
  <2>4. OnlyWriter'
    <3>1. DOMAIN << >> = {}
      BY EmptySeq
    <3> QED BY <1>0, <1>5, <1>7, <3>1 DEF OnlyWriter
  <2>5. \A i \in DOMAIN jobs' : ~IsAvailable(jobs'[i])
    BY <1>0, <1>4, <2>1, Types, TailJobs
  <2>6. RoomForNext'
    BY <1>0, <1>4, <2>5 DEF Truth, RoomForNext, Paused
  <2>7. TrueResults'
    <3>1. ~Taken(req'[m].result)
      BY <1>5, <2>3 DEF Taken
    <3>2. \A n \in Msg : Accepted(n)' => Accepted(n)
      BY <2>1, Types DEF Accepted
    <3>3. \A n \in Msg : answer'[n] = "TRANS_FAIL" => n = m \/ answer[n] = "TRANS_FAIL"
      BY <2>1, Types
    <3> QED BY <1>0, <2>3, <3>1, <3>2, <3>3 DEF Truth, TrueResults, InOut
  <2> QED BY <2>4, <2>6, <2>7 DEF Truth
<1> QED BY <1>2, <1>6, <1>7 DEF WriteData

\* The writer takes the answer: TRANS_BUSY if its message filled the window.
LEMMA WaitDoneTruth == IInv /\ Truth /\ WaitDone => Truth'
<1> SUFFICES ASSUME IInv, Truth, WaitDone
             PROVE  Truth'
  OBVIOUS
<1>1. PICK m \in Msg : m = writing
  BY Types DEF WaitDone
<1> DEFINE r == req[m]
           a == AnswerOf(r.result)
<1>2. /\ r.sem = "1" /\ req' = [req EXCEPT ![m] = [TransportDataFree(r) EXCEPT !.sem = "freed"]]
      /\ transState' = StateAfter(r.result) /\ Answered(m, a)
      /\ UNCHANGED <<queue, posting, dtap, next, timeouts, faults>>
  BY <1>1 DEF WaitDone
<1>3. ~Queued("send", m) /\ posting # m /\ r \in Request /\ r.refCount = 1
  BY <1>1, <1>2, Types DEF Life
<1>4. /\ queue = << >> /\ posting = NoMsg
  <2>1. \A i \in DOMAIN queue : FALSE
    <3> SUFFICES ASSUME NEW i \in DOMAIN queue
                 PROVE  FALSE
      OBVIOUS
    <3>1. queue[i] \in Work /\ queue[i].what = "send" /\ queue[i].msg = m
      BY <1>1, Types, ElementOfSeq, LenProperties DEF Truth, OnlyWriter
    <3>2. queue[i] = [what |-> "send", msg |-> m]
      BY <3>1 DEF Work
    <3> QED BY <1>3, <3>2 DEF Queued
  <2>2. queue = << >>
    BY <2>1, Types, NothingIsEmpty
  <2> QED BY <1>1, <1>3, <2>2 DEF Truth, OnlyWriter
<1>5. /\ jobs' = Tail(jobs) /\ jobs # << >> /\ writing' = NoMsg
      /\ answer' = [answer EXCEPT ![m] = a]
      /\ reader' = IF a = "TRANS_BUSY" THEN "poll" ELSE "loop"
  BY <1>1, <1>2, Types DEF Answered, IInv, OneWrite
<1>6. \A n \in Msg : req'[n].result = req[n].result
  <2> DEFINE f == TransportDataFree(r)
             q == [f EXCEPT !.sem = "freed"]
  <2>1. f \in Request /\ f.result = r.result
    BY <1>3, FreeFacts
  <2>2. req' = [req EXCEPT ![m] = q]
    BY <1>2
  <2> HIDE DEF f
  <2>3. q.result = r.result
    BY <2>1, SetSemFacts
  <2> HIDE DEF q
  <2> QED BY <2>2, <2>3, Types
<1>7. OnlyWriter'
  <2>1. DOMAIN << >> = {}
    BY EmptySeq
  <2> QED BY <1>2, <1>4, <2>1 DEF OnlyWriter
<1>8. /\ Len(jobs) \in Nat \ {0} /\ DOMAIN jobs' = 1 .. Len(jobs) - 1
      /\ \A i \in DOMAIN jobs' : i + 1 \in DOMAIN jobs /\ jobs'[i] = jobs[i + 1]
  BY <1>5, Types, TailJobs
<1>9. RoomForNext'
  <2>1. ASSUME NEW i \in DOMAIN jobs', NEW j \in DOMAIN jobs',
               IsAvailable(jobs'[i]), IsAvailable(jobs'[j])
        PROVE  ~dtap.full /\ i = j
    <3>1. i + 1 = j + 1 /\ ~dtap.full
      BY <1>8, <2>1 DEF Truth, RoomForNext
    <3> QED BY <1>8, <3>1
  <2>2. Paused' => Paused
    BY <1>2, <1>8 DEF Paused
  <2>3. Paused => reader' = "poll" /\ transState' = "BUSY"
    <3> SUFFICES ASSUME Paused
                 PROVE  reader' = "poll" /\ transState' = "BUSY"
      OBVIOUS
    <3>1. r.result = "TX_CACHE_FULL"
      BY <1>1, Types DEF Truth, RoomForNext
    <3>2. a = "TRANS_BUSY" /\ StateAfter(r.result) = "BUSY"
      BY <3>1 DEF AnswerOf, StateAfter
    <3> QED BY <1>2, <1>5, <3>2
  <2> QED BY <1>2, <1>5, <2>1, <2>2, <2>3 DEF Truth, RoomForNext
<1>10. TrueResults'
  <2>1. /\ answer'[m] = a /\ \A n \in Msg \ {m} : answer'[n] = answer[n]
    BY <1>5, Types
  <2>2. /\ a \in {"TRANS_SUCCESS", "TRANS_BUSY"} => Taken(r.result)
        /\ a = "TRANS_FAIL" => ~Taken(r.result)
    BY DEF AnswerOf, Taken
  <2> HIDE DEF a
  <2>3. \A n \in Msg : Accepted(n)' => Taken(req'[n].result)
    BY <1>6, <2>1, <2>2 DEF Truth, TrueResults, Accepted
  <2>4. \A n \in Msg : answer'[n] = "TRANS_FAIL" => ~Taken(req'[n].result)
    BY <1>6, <2>1, <2>2 DEF Truth, TrueResults
  <2>5. \A n \in Msg : InOut(n)' <=> Taken(req'[n].result)
    BY <1>2, <1>6 DEF Truth, TrueResults, InOut
  <2>6. \A i, j \in DOMAIN dtap'.out : i < j => dtap'.out[i] < dtap'.out[j]
    BY <1>2 DEF Truth, TrueResults
  <2> QED BY <2>3, <2>4, <2>5, <2>6 DEF TrueResults
<1> QED BY <1>7, <1>9, <1>10 DEF Truth

\* The one "available" under way arrives, and the port is no longer paused.
LEMMA UpdateTransferStateTruth == IInv /\ Truth /\ UpdateTransferState => Truth'
<1> SUFFICES ASSUME IInv, Truth, UpdateTransferState
             PROVE  Truth'
  OBVIOUS
<1>1. /\ jobs # << >> /\ IsAvailable(Head(jobs)) /\ jobs' = Tail(jobs)
      /\ UNCHANGED <<reader, writing, queue, posting, req, dtap, answer, next, timeouts, faults>>
  BY DEF UpdateTransferState, IsAvailable
<1>2. /\ Len(jobs) \in Nat \ {0} /\ DOMAIN jobs = 1 .. Len(jobs) /\ jobs[1] = Head(jobs)
      /\ DOMAIN jobs' = 1 .. Len(jobs) - 1
      /\ \A i \in DOMAIN jobs' : i + 1 \in DOMAIN jobs /\ jobs'[i] = jobs[i + 1]
  BY <1>1, Types, TailJobs
<1>3. 1 \in DOMAIN jobs /\ ~dtap.full
      /\ \A j \in DOMAIN jobs : IsAvailable(jobs[j]) => j = 1
  BY <1>1, <1>2 DEF Truth, RoomForNext
<1>4. \A i \in DOMAIN jobs' : ~IsAvailable(jobs'[i])
  <2> SUFFICES ASSUME NEW i \in DOMAIN jobs', IsAvailable(jobs'[i])
               PROVE  FALSE
    OBVIOUS
  <2>1. i + 1 = 1
    BY <1>2, <1>3
  <2> QED BY <1>2, <2>1
<1>5. RoomForNext'
  BY <1>1, <1>3, <1>4 DEF Truth, RoomForNext, Paused
<1>6. OnlyWriter' /\ TrueResults'
  BY <1>1 DEF Truth, OnlyWriter, TrueResults, InOut, Accepted
<1> QED BY <1>5, <1>6 DEF Truth

\* The semaphore of the writer's request is posted.
LEMMA SemPostTruth == IInv /\ Truth /\ SemPost => Truth'
<1> SUFFICES ASSUME IInv, Truth, SemPost
             PROVE  Truth'
  OBVIOUS
<1>1. PICK m \in Msg : m = posting
  BY Types DEF SemPost
<1>2. /\ req' = [req EXCEPT ![m].sem = "1"] /\ posting' = NoMsg
      /\ UNCHANGED <<reader, jobs, writing, transState, queue, dtap, answer, next, timeouts,
                     faults>>
  BY <1>1 DEF SemPost
<1>3. \A n \in Msg : req'[n].result = req[n].result
  <2> DEFINE q == [req[m] EXCEPT !.sem = "1"]
  <2>1. q.result = req[m].result
    BY Types, SetSemFacts
  <2>2. req' = [req EXCEPT ![m] = q]
    BY <1>2
  <2> HIDE DEF q
  <2> QED BY <2>1, <2>2, Types
<1>4. writing \in Msg
  BY <1>1, Types DEF Truth, OnlyWriter
<1>5. OnlyWriter'
  BY <1>2 DEF Truth, OnlyWriter
<1>6. RoomForNext'
  BY <1>2, <1>3, <1>4 DEF Truth, RoomForNext, Paused
<1>7. TrueResults'
  BY <1>2, <1>3 DEF Truth, TrueResults, InOut, Accepted
<1> QED BY <1>5, <1>6, <1>7 DEF Truth

\* No semaphore is freed by a work item while nothing has timed out.
LEMMA FreeSemTruth == IInv /\ Truth /\ FreeSem => Truth'
<1> SUFFICES ASSUME IInv, Truth, FreeSem
             PROVE  FALSE
  OBVIOUS
<1>1. queue # << >> /\ Head(queue).what = "freesem"
  BY DEF FreeSem
<1>2. Head(queue) = queue[1] /\ 1 \in DOMAIN queue
  BY <1>1, Types, HeadTailProperties, EmptySeq, LenProperties
<1> QED BY <1>1, <1>2 DEF Truth, OnlyWriter

\* The task runs: its message is the newest and the window has room for it.
LEMMA SendDataProcTruth == IInv /\ Truth /\ SendDataProc => Truth'
<1> SUFFICES ASSUME IInv, Truth, SendDataProc
             PROVE  Truth'
  OBVIOUS
<1>1. /\ queue # << >> /\ Head(queue).what = "send" /\ posting = NoMsg /\ queue' = Tail(queue)
      /\ UNCHANGED <<reader, jobs, writing, transState, answer, next, timeouts>>
  BY DEF SendDataProc
<1>2. /\ Head(queue) \in Work /\ 1 \in DOMAIN queue /\ queue[1] = Head(queue)
      /\ Len(queue) \in Nat \ {0} /\ DOMAIN queue = 1 .. Len(queue)
      /\ DOMAIN queue' = 1 .. Len(queue) - 1
      /\ \A i \in 1 .. Len(queue) - 1 : queue'[i] = queue[i + 1]
  BY <1>1, Types, TailQueues
<1>3. PICK m \in Msg : m = Head(queue).msg
  BY <1>2 DEF Work
<1>4. Head(queue) = [what |-> "send", msg |-> m] /\ m = writing
  BY <1>1, <1>2, <1>3 DEF Work, Truth, OnlyWriter
<1>5. /\ Queued("send", m) /\ req[m].result = "unset" /\ m = next - 1 /\ writing # NoMsg
      /\ answer[m] = "none"
  <2>1. Queued("send", m) /\ writing # NoMsg
    BY <1>2, <1>4, Types DEF Queued
  <2>2. answer[m] = "none"
    BY <1>4, Types DEF Life
  <2> QED BY <1>4, <2>1, <2>2, TruthTypes
<1>6. ~Paused /\ ~dtap.full /\ dtap.n < Window /\ dtap.cache = NoMsg
      /\ \A i \in DOMAIN jobs : ~IsAvailable(jobs[i])
  BY <1>4, <1>5 DEF Truth, RoomForNext, Paused
<1>7. OnlyWriter'
  <2>1. posting' = m
    BY <1>3 DEF SendDataProc
  <2>2. \A i \in DOMAIN queue' : queue'[i].what = "send" /\ queue'[i].msg = writing
    BY <1>2 DEF Truth, OnlyWriter
  <2> QED BY <1>1, <1>4, <2>1, <2>2 DEF OnlyWriter
<1> DEFINE g == TransportDataFree(BuffFree(req[m]))
<1>8. g \in Request
  <2> DEFINE b == BuffFree(req[m])
  <2>1. req[m] \in Request /\ req[m].buff = "held" /\ req[m].refCount > 0
    BY <1>5, Types DEF Life
  <2>2. b \in Request /\ b.refCount > 0
    BY <2>1, BuffFreeFacts
  <2>3. g = TransportDataFree(b)
    OBVIOUS
  <2> HIDE DEF b, g
  <2> QED BY <2>2, <2>3, FreeFacts
<1>9. ASSUME NEW res \in Results, req' = [req EXCEPT ![m] = [g EXCEPT !.result = res]]
      PROVE  req'[m].result = res /\ \A n \in Msg \ {m} : req'[n].result = req[n].result
  <2> DEFINE q == [g EXCEPT !.result = res]
  <2>1. req' = [req EXCEPT ![m] = q]
    BY <1>9
  <2> HIDE DEF g
  <2>2. q.result = res
    BY <1>8, SetResultFacts
  <2> HIDE DEF q
  <2> QED BY <2>1, <2>2, Types
<1>10. CASE /\ dtap' = SendEnhanceFrame(dtap, m)
            /\ req' = [req EXCEPT ![m] = [g EXCEPT !.result =
                         IF dtap'.full THEN "TX_CACHE_FULL" ELSE "SUCCESS"]]
  <2> DEFINE res == IF dtap'.full THEN "TX_CACHE_FULL" ELSE "SUCCESS"
  <2>1. /\ dtap'.cache = NoMsg /\ (dtap'.full \/ dtap'.n < Window)
        /\ dtap'.out = Append(dtap.out, m)
    BY <1>6, <1>10, TruthTypes, SendWithRoom
  <2>2. res \in Results /\ Taken(res)
    BY DEF Results, Taken
  <2>3. req'[m].result = res /\ \A n \in Msg \ {m} : req'[n].result = req[n].result
    BY <1>9, <1>10, <2>2
  <2>4. RoomForNext'
    <3>1. Paused' => req'[writing'].result = "TX_CACHE_FULL"
      BY <1>1, <1>4, <1>6, <2>3 DEF Paused
    <3> QED BY <1>1, <1>5, <1>6, <2>1, <3>1 DEF RoomForNext
  <2>5. /\ Len(dtap.out) \in Nat /\ DOMAIN dtap.out = 1 .. Len(dtap.out)
        /\ DOMAIN dtap'.out = 1 .. Len(dtap.out) + 1
        /\ \A i \in DOMAIN dtap.out : dtap'.out[i] = dtap.out[i] /\ dtap.out[i] \in Msg
        /\ dtap'.out[Len(dtap.out) + 1] = m
    BY <2>1, TruthTypes, AppendProperties, LenProperties, ElementOfSeq
  <2>6. \A i \in DOMAIN dtap.out : dtap.out[i] < m
    <3> SUFFICES ASSUME NEW i \in DOMAIN dtap.out
                 PROVE  dtap.out[i] < m
      OBVIOUS
    <3>1. dtap.out[i] \in Msg /\ Taken(req[dtap.out[i]].result)
      BY <2>5 DEF Truth, TrueResults, InOut
    <3>2. dtap.out[i] # m /\ ~(dtap.out[i] >= next)
      BY <1>5, <3>1, TruthTypes DEF Taken
    <3> QED BY <1>5, <3>1, <3>2, Types, TransportAssumption DEF Msg
  <2>7. \A i, j \in DOMAIN dtap'.out : i < j => dtap'.out[i] < dtap'.out[j]
    <3> SUFFICES ASSUME NEW i \in DOMAIN dtap'.out, NEW j \in DOMAIN dtap'.out, i < j
                 PROVE  dtap'.out[i] < dtap'.out[j]
      OBVIOUS
    <3>1. i \in DOMAIN dtap.out
      BY <2>5
    <3>2. CASE j \in DOMAIN dtap.out
      BY <2>5, <3>1, <3>2 DEF Truth, TrueResults
    <3>3. CASE j = Len(dtap.out) + 1
      BY <2>5, <2>6, <3>1, <3>3
    <3> QED BY <2>5, <3>2, <3>3
  <2>8. \A n \in Msg : InOut(n)' <=> InOut(n) \/ n = m
    <3>1. \A n \in Msg : InOut(n) => InOut(n)'
      BY <2>5 DEF InOut
    <3>2. InOut(m)'
      BY <2>5 DEF InOut
    <3>3. ASSUME NEW n \in Msg, InOut(n)', n # m
          PROVE  InOut(n)
      <4>1. PICK i \in DOMAIN dtap'.out : dtap'.out[i] = n
        BY <3>3 DEF InOut
      <4>2. i \in DOMAIN dtap.out /\ dtap.out[i] = n
        BY <2>5, <3>3, <4>1
      <4> QED BY <4>2 DEF InOut
    <3> QED BY <3>1, <3>2, <3>3
  <2> HIDE DEF res
  <2>9. \A n \in Msg : InOut(n)' <=> Taken(req'[n].result)
    BY <2>2, <2>3, <2>8 DEF Truth, TrueResults
  <2>10. \A n \in Msg : Accepted(n)' => Taken(req'[n].result)
    BY <1>1, <2>2, <2>3 DEF Truth, TrueResults, Accepted
  <2>11. \A n \in Msg : answer'[n] = "TRANS_FAIL" => ~Taken(req'[n].result)
    BY <1>1, <1>5, <2>3 DEF Truth, TrueResults
  <2>12. TrueResults'
    BY <2>7, <2>9, <2>10, <2>11 DEF TrueResults
  <2> QED BY <1>7, <2>4, <2>12 DEF Truth
<1>11. CASE req' = [req EXCEPT ![m] = [g EXCEPT !.result = "REFUSED"]] /\ dtap' = dtap
  <2>1. "REFUSED" \in Results /\ ~Taken("REFUSED")
    BY DEF Results, Taken
  <2>2. req'[m].result = "REFUSED" /\ \A n \in Msg \ {m} : req'[n].result = req[n].result
    BY <1>9, <1>11, <2>1
  <2>3. \A n \in Msg : Taken(req'[n].result) <=> Taken(req[n].result)
    BY <1>5, <2>1, <2>2 DEF Taken
  <2>4. RoomForNext'
    BY <1>1, <1>6, <1>11 DEF RoomForNext, Paused
  <2>5. TrueResults'
    BY <1>1, <1>11, <2>3 DEF Truth, TrueResults, InOut, Accepted
  <2> QED BY <1>7, <2>4, <2>5 DEF Truth
<1> QED BY <1>3, <1>10, <1>11 DEF SendDataProc

\* An acknowledgement makes room; if the channel was full, one "available" goes out.
LEMMA AcknowledgedTruth == IInv /\ Truth /\ Acknowledged => Truth'
<1> SUFFICES ASSUME IInv, Truth, Acknowledged
             PROVE  Truth'
  OBVIOUS
<1> DEFINE d == [dtap EXCEPT !.n = @ - 1]
           x == [what |-> "available"]
<1>1. /\ dtap.n > 0 /\ dtap' = StatusChange(d)
      /\ jobs' = IF TellsClient(d) THEN Append(jobs, x) ELSE jobs
      /\ UNCHANGED <<reader, writing, transState, queue, posting, req, answer, next, timeouts,
                     faults>>
  BY DEF Acknowledged
<1>2. /\ d \in DtapType /\ d.n < Window /\ d.cache = NoMsg /\ d.out = dtap.out
      /\ d.full <=> dtap.full
  <2>1. dtap.n - 1 \in 0 .. Window /\ dtap.n - 1 < Window
    BY <1>1, TruthTypes, TransportAssumption DEF DtapType
  <2> QED BY <2>1, TruthTypes DEF DtapType, Truth, RoomForNext
<1> HIDE DEF d
<1>3. /\ dtap'.cache = NoMsg /\ dtap'.out = dtap.out /\ dtap'.n < Window /\ ~dtap'.full
      /\ TellsClient(d) <=> dtap.full
  BY <1>1, <1>2, SlideWithoutCache
<1>4. OnlyWriter' /\ TrueResults'
  BY <1>1, <1>3 DEF Truth, OnlyWriter, TrueResults, InOut, Accepted
<1>5. RoomForNext'
  <2>1. CASE ~dtap.full
    <3>1. jobs' = jobs
      BY <1>1, <1>3, <2>1
    <3> QED BY <1>1, <1>3, <2>1, <3>1 DEF Truth, RoomForNext, Paused
  <2>2. CASE dtap.full
    <3>1. jobs' = Append(jobs, x) /\ x \in Job
      BY <1>1, <1>3, <2>2 DEF Job
    <3>2. /\ DOMAIN jobs' = 1 .. Len(jobs) + 1 /\ DOMAIN jobs = 1 .. Len(jobs)
          /\ Len(jobs) \in Nat /\ \A i \in DOMAIN jobs : jobs'[i] = jobs[i]
      BY <3>1, Types, AppendJobs
    <3>3. \A i \in DOMAIN jobs : ~IsAvailable(jobs'[i])
      BY <2>2, <3>2 DEF Truth, RoomForNext
    <3>4. \A i \in DOMAIN jobs' : IsAvailable(jobs'[i]) => i = Len(jobs) + 1
      BY <3>2, <3>3
    <3>5. Paused
      BY <2>2 DEF Paused
    <3> QED BY <1>1, <1>3, <3>4, <3>5 DEF Truth, RoomForNext
  <2> QED BY <2>1, <2>2
<1> QED BY <1>4, <1>5 DEF Truth

\* Every step keeps the truth, until the first request times out.
LEMMA NextTruth == IInv /\ TInv /\ [Next]_vars => TInv'
<1> SUFFICES ASSUME IInv, TInv, [Next]_vars, timeouts' = 0
             PROVE  Truth'
  BY DEF TInv
<1>1. timeouts \in Nat
  BY Types
<1>2. CASE WaitTimeout
  BY <1>1, <1>2 DEF WaitTimeout
<1>3. CASE UNCHANGED vars
  BY <1>3 DEF vars, TInv, Truth, OnlyWriter, RoomForNext, Paused, TrueResults, InOut, Accepted
<1>4. CASE ReceivedData
  BY <1>4, ReceivedDataTruth DEF TInv, ReceivedData
<1>5. CASE WriteData
  BY <1>5, WriteDataTruth DEF TInv, WriteData
<1>6. CASE WaitDone
  BY <1>6, WaitDoneTruth DEF TInv, WaitDone
<1>7. CASE UpdateTransferState
  BY <1>7, UpdateTransferStateTruth DEF TInv, UpdateTransferState
<1>8. CASE SendDataProc
  BY <1>8, SendDataProcTruth DEF TInv, SendDataProc
<1>9. CASE SemPost
  BY <1>9, SemPostTruth DEF TInv, SemPost
<1>10. CASE FreeSem
  BY <1>10, FreeSemTruth DEF TInv, FreeSem
<1>11. CASE Acknowledged
  BY <1>11, AcknowledgedTruth DEF TInv, Acknowledged
<1> QED BY <1>2, <1>3, <1>4, <1>5, <1>6, <1>7, <1>8, <1>9, <1>10, <1>11 DEF Next

\* While no request has timed out, the answers the application gets are true, DTAP holds
\* the accepted messages in their order, and the one-message cache is never asked for more
\* than it has (WriteData, TRANS_SendDataProc, DTAP_TransChannelStatusChange).
THEOREM AnswersStayTrue == Spec => []AnswersAreTrue
<1>1. IInv /\ TInv => AnswersAreTrue
  <2> SUFFICES ASSUME IInv, TInv, timeouts = 0
               PROVE  /\ \A m \in Msg : /\ Accepted(m) => Holds(m)
                                        /\ answer[m] = "TRANS_FAIL" => ~Holds(m)
                      /\ \A i, j \in DOMAIN Kept : i < j => Kept[i] < Kept[j]
    BY DEF AnswersAreTrue
  <2>1. Kept = dtap.out
    <3>1. dtap.cache = NoMsg /\ dtap.out \in Seq(Msg)
      BY TruthTypes DEF TInv, Truth, RoomForNext
    <3> QED BY <3>1, ConcatEmptySeq DEF Kept
  <2>2. \A m \in Msg : Holds(m) <=> InOut(m)
    BY <2>1 DEF Holds, InOut
  <2> QED BY <2>1, <2>2 DEF TInv, Truth, TrueResults
<1>2. Init => TInv
  BY InitTruth DEF TInv
<1> QED BY <1>1, <1>2, InvariantHolds, NextTruth, PTL DEF Spec
=============================================================================
