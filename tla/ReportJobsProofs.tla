-------------------------- MODULE ReportJobsProofs --------------------------
(***************************************************************************)
(* Proofs about ReportJobs for every set of jobs and of worker handlers,   *)
(* every quota table and every number of failures: the types, the four     *)
(* safety invariants of the run, that a succeeded job is final, and that   *)
(* the whole protocol implements JobLifecycle.                             *)
(*                                                                         *)
(* None of the invariants is inductive alone.  What makes them so is IInv: *)
(* the documents appear in the order the API handler writes them, a worker *)
(* handler past its start works on a job that was started, and past a      *)
(* write it can rely on what it wrote.                                     *)
(***************************************************************************)
EXTENDS ReportJobs, TLAPS

\* The API handler writes report, job and task in this order, each once.
WrittenInOrder ==
  \A j \in Jobs :
    /\ request[j] \in {"new", "refused", "save_report"} =>
         report[j] = "none" /\ job[j] = NoDocument /\ task[j] = "none"
    /\ request[j] = "save_job" =>
         /\ report[j] # "none" \/ losses > 0
         /\ job[j] = NoDocument /\ task[j] = "none"
    /\ request[j] = "enqueue" => job[j].status # "none" /\ task[j] = "none"

\* A handler at work holds a job that is stored and was enqueued.
CallsHoldStoredJobs ==
  \A w \in Workers : call[w].at # "idle" =>
    call[w].job \in Jobs /\ job[call[w].job].status # "none" /\ task[call[w].job] # "none"

Started == {"report", "fail_read", "fail_write", "upload", "update", "succeed_read",
            "succeed_write", "answer"}

\* Past start, the job has left the queue; the worker never asks for a retry.
CallsHoldStartedJobs ==
  /\ \A w \in Workers : call[w].at \in Started => job[call[w].job].status # "queued"
  /\ \A j \in Jobs : job[j].status # "retrying"

\* Past the upload the PDF is there, past the update the report is not queued.
CallsHoldTheirWrites ==
  \A w \in Workers :
    /\ call[w].at \in {"update", "succeed_read", "succeed_write"} => call[w].job \in artifact
    /\ call[w].at \in {"succeed_read", "succeed_write"} => report[call[w].job] # "queued"

\* A succeeded job has its PDF and a report that is not queued.
SucceededIsStored ==
  \A j \in Jobs : job[j].status = "succeeded" => j \in artifact /\ report[j] # "queued"

\* While no report is lost, nobody fails a job, and the copies held carry the
\* number of attempts the next write needs.
CountedCalls ==
  losses = 0 =>
    /\ \A j \in Jobs : job[j].status # "failed"
    /\ \A w \in Workers :
         /\ call[w].at \notin {"fail_read", "fail_write"}
         /\ call[w].at = "start_write" => call[w].seen.attempts = 0
         /\ call[w].at = "succeed_write" => call[w].seen.attempts = 1

IInv ==
  /\ TypeOK
  /\ WrittenInOrder
  /\ TasksNameStoredJobs
  /\ CallsHoldStoredJobs
  /\ CallsHoldStartedJobs
  /\ CallsHoldTheirWrites
  /\ SucceededIsStored
  /\ DroppedTaskWasStarted
  /\ StartedOnce
  /\ CountedCalls

-----------------------------------------------------------------------------
(* Types.                                                                   *)

LEMMA InitTypeOK == Init => TypeOK
BY BoundAssumption DEF Init, TypeOK, Calls, IdleCall, JobDocuments, NoDocument,
   JobStatuses, HandlerSteps

\* The three ways a handler's locals change keep their types.
LEMMA StepTypes ==
  ASSUME TypeOK, NEW w \in Workers, NEW at \in HandlerSteps, Step(w, at)
  PROVE  call' \in [Workers -> Calls]
BY DEF TypeOK, Step, Calls

LEMMA StepSeeingTypes ==
  ASSUME TypeOK, NEW w \in Workers, NEW at \in HandlerSteps,
         NEW document \in JobDocuments, StepSeeing(w, at, document)
  PROVE  call' \in [Workers -> Calls]
BY DEF TypeOK, StepSeeing, Calls

LEMMA IdleCallType == IdleCall \in Calls
BY DEF IdleCall, Calls, HandlerSteps, NoDocument, JobDocuments

LEMMA ReleaseTypes ==
  ASSUME TypeOK, NEW w \in Workers, Release(w)
  PROVE  call' \in [Workers -> Calls]
BY IdleCallType DEF TypeOK, Release

LEMMA RequestTypes ==
  ASSUME TypeOK, NEW j \in Jobs, RequestStep(j) \/ RequestFails(j) \/ LoseReport(j)
  PROVE  TypeOK'
<1> USE DEF TypeOK, JobDocuments, JobStatuses
<1>1. CASE \E quota \in Quotas : CheckQuota(j, quota)
  BY <1>1 DEF CheckQuota
<1>2. CASE SaveReport(j)
  BY <1>2 DEF SaveReport
<1>3. CASE SaveJob(j)
  BY <1>3 DEF SaveJob
<1>4. CASE Enqueue(j)
  BY <1>4 DEF Enqueue
<1>5. CASE AnswerAccepted(j)
  BY <1>5 DEF AnswerAccepted
<1>6. CASE RequestFails(j)
  BY <1>6, BoundAssumption DEF RequestFails
<1>7. CASE LoseReport(j)
  BY <1>7, BoundAssumption DEF LoseReport
<1> QED
  BY <1>1, <1>2, <1>3, <1>4, <1>5, <1>6, <1>7 DEF RequestStep

LEMMA BeforeTypes ==
  ASSUME TypeOK, NEW w \in Workers, NEW found \in JobStatuses \cup {"none"},
         NEW at \in HandlerSteps, call' = [call EXCEPT ![w].at = at, ![w].before = found]
  PROVE  call' \in [Workers -> Calls]
BY DEF TypeOK, Calls

\* A job document that is read or written keeps its type.
LEMMA TransitionTypes ==
  ASSUME TypeOK, NEW w \in Workers, call[w].job \in Jobs,
         NEW allowed, NEW target \in JobDocuments, NEW next \in HandlerSteps,
         Transition(w, allowed, target, next)
  PROVE  TypeOK'
<1>1. CASE job[call[w].job].status \in allowed
  <2>1. call' \in [Workers -> Calls]
    BY <1>1, StepTypes DEF Transition
  <2>2. job' \in [Jobs -> JobDocuments]
    BY <1>1 DEF Transition, TypeOK
  <2> QED
    BY <2>1, <2>2 DEF Transition, TypeOK
<1>2. CASE job[call[w].job].status \notin allowed
  <2>1. call' \in [Workers -> Calls]
    BY <1>2, ReleaseTypes DEF Transition
  <2> QED
    BY <1>2, <2>1 DEF Transition, TypeOK
<1> QED
  BY <1>1, <1>2

LEMMA HandlerTypes ==
  ASSUME TypeOK, CallsHoldStoredJobs, NEW w \in Workers,
         HandlerStep(w) \/ HandlerFails(w) \/ \E j \in Jobs : Deliver(w, j)
  PROVE  TypeOK'
<1>1. call[w] \in Calls
  BY DEF TypeOK
<1>2. call[w].at # "idle" => call[w].job \in Jobs /\ job[call[w].job] \in JobDocuments
  BY DEF CallsHoldStoredJobs, TypeOK
<1>3. CASE ReadBefore(w)
  <2>1. job[call[w].job].status \in JobStatuses \cup {"none"}
    BY <1>2, <1>3 DEF ReadBefore, JobDocuments
  <2>2. CASE Release(w)
    BY <1>3, <2>2, ReleaseTypes DEF ReadBefore, TypeOK
  <2>3. CASE Step(w, "answer")
    BY <1>3, <2>3, StepTypes DEF ReadBefore, TypeOK, HandlerSteps
  <2>4. CASE call' = [call EXCEPT ![w].at = "start_read",
                                  ![w].before = job[call[w].job].status]
    <3>1. call' \in [Workers -> Calls]
      BY <2>1, <2>4, BeforeTypes DEF HandlerSteps
    <3> QED
      BY <1>3, <3>1 DEF ReadBefore, TypeOK
  <2> QED
    BY <1>3, <2>2, <2>3, <2>4 DEF ReadBefore
<1>4. CASE StartRead(w)
  <2>1. CASE Release(w)
    BY <1>4, <2>1, ReleaseTypes DEF StartRead, TypeOK
  <2>2. CASE Step(w, AfterStart(w))
    BY <1>4, <2>2, StepTypes DEF StartRead, AfterStart, TypeOK, HandlerSteps
  <2>3. CASE StepSeeing(w, "start_write", job[call[w].job])
    BY <1>2, <1>4, <2>3, StepSeeingTypes DEF StartRead, TypeOK, HandlerSteps
  <2> QED
    BY <1>4, <2>1, <2>2, <2>3 DEF StartRead
<1>5. CASE StartWrite(w)
  <2>1. [status |-> "running", attempts |-> call[w].seen.attempts + 1] \in JobDocuments
    BY <1>1 DEF Calls, JobDocuments, JobStatuses
  <2>2. AfterStart(w) \in HandlerSteps
    BY DEF AfterStart, HandlerSteps
  <2> QED
    BY <1>2, <1>5, <2>1, <2>2, TransitionTypes DEF StartWrite
<1>6. CASE ReadReport(w)
  BY <1>6, StepTypes DEF ReadReport, TypeOK, HandlerSteps
<1>7. CASE FailRead(w)
  <2>1. CASE Release(w)
    BY <1>7, <2>1, ReleaseTypes DEF FailRead, TypeOK
  <2>2. CASE StepSeeing(w, "fail_write", job[call[w].job])
    BY <1>2, <1>7, <2>2, StepSeeingTypes DEF FailRead, TypeOK, HandlerSteps
  <2> QED
    BY <1>7, <2>1, <2>2 DEF FailRead
<1>8. CASE FailWrite(w)
  <2>1. [status |-> "failed", attempts |-> call[w].seen.attempts] \in JobDocuments
    BY <1>1 DEF Calls, JobDocuments, JobStatuses
  <2> QED
    BY <1>2, <1>8, <2>1, TransitionTypes DEF FailWrite, HandlerSteps
<1>9. CASE Upload(w)
  BY <1>2, <1>9, StepTypes DEF Upload, TypeOK, HandlerSteps
<1>10. CASE UpdateReport(w)
  BY <1>2, <1>10, StepTypes DEF UpdateReport, TypeOK, HandlerSteps
<1>11. CASE SucceedRead(w)
  <2>1. CASE Release(w)
    BY <1>11, <2>1, ReleaseTypes DEF SucceedRead, TypeOK
  <2>2. CASE Step(w, "answer")
    BY <1>11, <2>2, StepTypes DEF SucceedRead, TypeOK, HandlerSteps
  <2>3. CASE StepSeeing(w, "succeed_write", job[call[w].job])
    BY <1>2, <1>11, <2>3, StepSeeingTypes DEF SucceedRead, TypeOK, HandlerSteps
  <2> QED
    BY <1>11, <2>1, <2>2, <2>3 DEF SucceedRead
<1>12. CASE SucceedWrite(w)
  <2>1. [status |-> "succeeded", attempts |-> call[w].seen.attempts] \in JobDocuments
    BY <1>1 DEF Calls, JobDocuments, JobStatuses
  <2> QED
    BY <1>2, <1>12, <2>1, TransitionTypes DEF SucceedWrite, HandlerSteps
<1>13. CASE Answer(w)
  BY <1>2, <1>13, ReleaseTypes DEF Answer, TypeOK
<1>14. CASE HandlerFails(w)
  BY <1>14, ReleaseTypes, BoundAssumption DEF HandlerFails, TypeOK
<1>15. ASSUME NEW j \in Jobs, Deliver(w, j) PROVE TypeOK'
  <2>1. [IdleCall EXCEPT !.at = "read", !.job = j] \in Calls
    BY IdleCallType DEF IdleCall, Calls, HandlerSteps, NoDocument
  <2> QED
    BY <1>15, <2>1 DEF Deliver, TypeOK
<1> QED
  BY <1>3, <1>4, <1>5, <1>6, <1>7, <1>8, <1>9, <1>10, <1>11, <1>12, <1>13, <1>14, <1>15
     DEF HandlerStep

-----------------------------------------------------------------------------
(* The inductive invariant.                                                 *)

LEMMA InitIInv == Init => IInv
BY InitTypeOK DEF Init, IInv, WrittenInOrder, TasksNameStoredJobs, CallsHoldStoredJobs,
   CallsHoldStartedJobs, CallsHoldTheirWrites, SucceededIsStored, DroppedTaskWasStarted,
   StartedOnce, CountedCalls, NoDocument, IdleCall, Started

\* The API handler touches a document only before anybody else can.
LEMMA RequestIInv ==
  ASSUME IInv, NEW j \in Jobs, RequestStep(j) \/ RequestFails(j) \/ LoseReport(j)
  PROVE  IInv'
<1>1. TypeOK /\ TypeOK'
  BY RequestTypes DEF IInv
<1> USE <1>1 DEF TypeOK, IInv, WrittenInOrder, TasksNameStoredJobs, CallsHoldStoredJobs,
      CallsHoldStartedJobs, CallsHoldTheirWrites, SucceededIsStored, DroppedTaskWasStarted,
      StartedOnce, CountedCalls, NoDocument, Started
<1>2. CASE \E quota \in Quotas : CheckQuota(j, quota)
  BY <1>2 DEF CheckQuota
<1>3. CASE SaveReport(j)
  BY <1>3 DEF SaveReport
<1>4. CASE SaveJob(j)
  BY <1>4 DEF SaveJob
<1>5. CASE Enqueue(j)
  BY <1>5 DEF Enqueue
<1>6. CASE AnswerAccepted(j)
  BY <1>6 DEF AnswerAccepted
<1>7. CASE RequestFails(j)
  BY <1>7 DEF RequestFails
<1>8. CASE LoseReport(j)
  BY <1>8 DEF LoseReport
<1> QED
  BY <1>2, <1>3, <1>4, <1>5, <1>6, <1>7, <1>8 DEF RequestStep

\* What the three ways a handler's locals change leave behind.
LEMMA StepFields ==
  ASSUME TypeOK, NEW w \in Workers, NEW at, Step(w, at)
  PROVE  /\ call'[w].at = at /\ call'[w].job = call[w].job /\ call'[w].seen = call[w].seen
         /\ \A v \in Workers \ {w} : call'[v] = call[v]
BY DEF TypeOK, Step, Calls

LEMMA StepSeeingFields ==
  ASSUME TypeOK, NEW w \in Workers, NEW at, NEW document, StepSeeing(w, at, document)
  PROVE  /\ call'[w].at = at /\ call'[w].job = call[w].job /\ call'[w].seen = document
         /\ \A v \in Workers \ {w} : call'[v] = call[v]
BY DEF TypeOK, StepSeeing, Calls

LEMMA ReleaseFields ==
  ASSUME TypeOK, NEW w \in Workers, Release(w)
  PROVE  /\ call'[w].at = "idle"
         /\ \A v \in Workers \ {w} : call'[v] = call[v]
BY DEF TypeOK, Release, IdleCall

\* A handler that only moves on keeps the invariant when its new place is one
\* it may be at.
LEMMA MoveIInv ==
  ASSUME IInv, TypeOK', NEW w \in Workers,
         UNCHANGED <<request, report, job, task, artifact, losses>>,
         \A v \in Workers \ {w} : call'[v] = call[v],
         call'[w].at # "idle" =>
           /\ call'[w].job \in Jobs
           /\ job[call'[w].job].status # "none" /\ task[call'[w].job] # "none"
           /\ call'[w].at \in Started => job[call'[w].job].status # "queued"
           /\ call'[w].at \in {"update", "succeed_read", "succeed_write"} =>
                call'[w].job \in artifact
           /\ call'[w].at \in {"succeed_read", "succeed_write"} =>
                report[call'[w].job] # "queued"
           /\ losses = 0 =>
                /\ call'[w].at \notin {"fail_read", "fail_write"}
                /\ call'[w].at = "start_write" => call'[w].seen.attempts = 0
                /\ call'[w].at = "succeed_write" => call'[w].seen.attempts = 1
  PROVE  IInv'
<1>1. WrittenInOrder' /\ TasksNameStoredJobs' /\ SucceededIsStored' /\ DroppedTaskWasStarted'
  BY DEF IInv, WrittenInOrder, TasksNameStoredJobs, SucceededIsStored, DroppedTaskWasStarted,
         NoDocument
<1>2. StartedOnce'
  BY DEF IInv, StartedOnce
<1>3. CallsHoldStoredJobs'
  BY DEF IInv, CallsHoldStoredJobs
<1>4. CallsHoldStartedJobs'
  BY DEF IInv, CallsHoldStartedJobs, Started
<1>5. CallsHoldTheirWrites'
  BY DEF IInv, CallsHoldTheirWrites
<1>6. CountedCalls'
  BY DEF IInv, CountedCalls
<1> QED
  BY <1>1, <1>2, <1>3, <1>4, <1>5, <1>6 DEF IInv

\* Reading steps: what is read gives the handler its new place.
LEMMA ReadIInv ==
  ASSUME IInv, TypeOK', NEW w \in Workers,
         \/ ReadBefore(w) \/ StartRead(w) \/ ReadReport(w) \/ FailRead(w)
         \/ SucceedRead(w) \/ HandlerFails(w) \/ \E j \in Jobs : Deliver(w, j)
  PROVE  IInv'
<1>1. TypeOK /\ CallsHoldStoredJobs /\ CallsHoldStartedJobs /\ CallsHoldTheirWrites
        /\ CountedCalls /\ StartedOnce /\ TasksNameStoredJobs
  BY DEF IInv
<1>2. call[w].at # "idle" => call[w].job \in Jobs /\ job[call[w].job] \in JobDocuments
  BY <1>1 DEF CallsHoldStoredJobs, TypeOK
<1>3. ASSUME ReadBefore(w) PROVE IInv'
  <2>1. CASE Release(w)
    BY <1>1, <1>3, <2>1, ReleaseFields, MoveIInv DEF ReadBefore
  <2>2. CASE job[call[w].job].status = "succeeded" /\ Step(w, "answer")
    BY <1>1, <1>2, <1>3, <2>2, StepFields, MoveIInv DEF ReadBefore, CallsHoldStoredJobs
  <2>3. CASE call' = [call EXCEPT ![w].at = "start_read",
                                  ![w].before = job[call[w].job].status]
    <3>1. /\ call'[w].at = "start_read" /\ call'[w].job = call[w].job
          /\ \A v \in Workers \ {w} : call'[v] = call[v]
      BY <1>1, <2>3 DEF TypeOK, Calls
    <3> QED
      BY <1>1, <1>2, <1>3, <3>1, MoveIInv DEF ReadBefore, CallsHoldStoredJobs, Started
  <2> QED
    BY <1>3, <2>1, <2>2, <2>3 DEF ReadBefore
<1>4. ASSUME StartRead(w) PROVE IInv'
  <2>1. CASE Release(w)
    BY <1>1, <1>4, <2>1, ReleaseFields, MoveIInv DEF StartRead
  <2>2. CASE job[call[w].job].status \in {"running", "succeeded"} /\ Step(w, AfterStart(w))
    BY <1>1, <1>2, <1>4, <2>2, StepFields, MoveIInv
       DEF StartRead, AfterStart, CallsHoldStoredJobs
  <2>3. CASE /\ job[call[w].job].status \in Startable
             /\ StepSeeing(w, "start_write", job[call[w].job])
    <3>1. losses = 0 => job[call[w].job].attempts = 0
      BY <1>1, <1>2, <1>4, <2>3
         DEF StartRead, Startable, CountedCalls, StartedOnce, CallsHoldStartedJobs
    <3> QED
      BY <1>1, <1>2, <1>4, <2>3, <3>1, StepSeeingFields, MoveIInv
         DEF StartRead, CallsHoldStoredJobs, Started
  <2> QED
    BY <1>4, <2>1, <2>2, <2>3 DEF StartRead
<1>5. ASSUME ReadReport(w) PROVE IInv'
  <2>1. report[call[w].job] = "none" => losses # 0
    BY <1>1, <1>2, <1>5 DEF ReadReport, TasksNameStoredJobs, CallsHoldStoredJobs
  <2> QED
    BY <1>1, <1>2, <1>5, <2>1, StepFields, MoveIInv
       DEF ReadReport, CallsHoldStoredJobs, CallsHoldStartedJobs, Started
<1>6. ASSUME FailRead(w) PROVE IInv'
  <2>1. losses # 0
    BY <1>1, <1>6 DEF FailRead, CountedCalls
  <2>2. CASE Release(w)
    BY <1>1, <1>6, <2>2, ReleaseFields, MoveIInv DEF FailRead
  <2>3. CASE StepSeeing(w, "fail_write", job[call[w].job])
    BY <1>1, <1>2, <1>6, <2>1, <2>3, StepSeeingFields, MoveIInv
       DEF FailRead, CallsHoldStoredJobs, CallsHoldStartedJobs, Started
  <2> QED
    BY <1>6, <2>2, <2>3 DEF FailRead
<1>7. ASSUME SucceedRead(w) PROVE IInv'
  <2>1. /\ job[call[w].job].status \notin {"none", "queued", "retrying"}
        /\ call[w].job \in artifact /\ report[call[w].job] # "queued"
        /\ task[call[w].job] # "none"
    BY <1>1, <1>2, <1>7
       DEF SucceedRead, CallsHoldStoredJobs, CallsHoldStartedJobs, CallsHoldTheirWrites, Started
  <2>2. losses = 0 => job[call[w].job].attempts = 1
    BY <1>1, <1>2, <1>7, <2>1 DEF SucceedRead, StartedOnce
  <2>3. CASE Release(w)
    BY <1>1, <1>7, <2>3, ReleaseFields, MoveIInv DEF SucceedRead
  <2>4. CASE Step(w, "answer")
    BY <1>1, <1>2, <1>7, <2>1, <2>4, StepFields, MoveIInv DEF SucceedRead
  <2>5. CASE StepSeeing(w, "succeed_write", job[call[w].job])
    BY <1>1, <1>2, <1>7, <2>1, <2>2, <2>5, StepSeeingFields, MoveIInv DEF SucceedRead
  <2> QED
    BY <1>7, <2>3, <2>4, <2>5 DEF SucceedRead
<1>8. ASSUME HandlerFails(w) PROVE IInv'
  BY <1>1, <1>8, ReleaseFields, MoveIInv DEF HandlerFails
<1>9. ASSUME NEW j \in Jobs, Deliver(w, j) PROVE IInv'
  <2>1. /\ call'[w].at = "read" /\ call'[w].job = j
        /\ \A v \in Workers \ {w} : call'[v] = call[v]
    BY <1>1, <1>9 DEF Deliver, IdleCall, TypeOK
  <2> QED
    BY <1>1, <1>9, <2>1, MoveIInv DEF Deliver, TasksNameStoredJobs, Started
<1> QED
  BY <1>3, <1>4, <1>5, <1>6, <1>7, <1>8, <1>9

\* The three transitions: what the written document must satisfy.
LEMMA TransitionIInv ==
  ASSUME IInv, TypeOK', NEW w \in Workers, call[w].at # "idle",
         NEW allowed, NEW target \in JobDocuments, NEW next \in {"report", "answer"},
         Transition(w, allowed, target, next),
         target.status \in {"running", "failed", "succeeded"},
         target.status = "succeeded" =>
           call[w].job \in artifact /\ report[call[w].job] # "queued",
         losses = 0 => target.status # "failed" /\ target.attempts = 1
  PROVE  IInv'
<1> DEFINE j == call[w].job
<1>1. TypeOK /\ j \in Jobs /\ job[j].status # "none"
  BY DEF IInv, CallsHoldStoredJobs
<1>2. CASE job[j].status \notin allowed
  BY <1>1, <1>2, ReleaseFields, MoveIInv DEF Transition
<1>3. CASE job[j].status \in allowed
  <2>1. /\ job'[j] = target
        /\ \A k \in Jobs \ {j} : job'[k] = job[k]
        /\ UNCHANGED <<request, report, task, artifact, losses>>
    BY <1>1, <1>3 DEF Transition, TypeOK
  <2>2. /\ call'[w].at = next /\ call'[w].job = j
        /\ \A v \in Workers \ {w} : call'[v] = call[v]
    BY <1>1, <1>3, StepFields DEF Transition
  <2>3. WrittenInOrder'
    BY <1>1, <2>1 DEF IInv, WrittenInOrder, NoDocument
  <2>4. TasksNameStoredJobs' /\ DroppedTaskWasStarted'
    BY <1>1, <2>1 DEF IInv, TasksNameStoredJobs, DroppedTaskWasStarted
  <2>5. SucceededIsStored'
    BY <1>1, <2>1 DEF IInv, SucceededIsStored
  <2>6. StartedOnce'
    BY <1>1, <2>1 DEF IInv, StartedOnce
  <2>7. CallsHoldStoredJobs'
    BY <1>1, <2>1, <2>2 DEF IInv, CallsHoldStoredJobs
  <2>8. CallsHoldStartedJobs'
    <3>1. ASSUME NEW v \in Workers, call'[v].at \in Started
          PROVE  job'[call'[v].job].status # "queued"
      BY <1>1, <2>1, <2>2, <3>1
         DEF IInv, CallsHoldStoredJobs, CallsHoldStartedJobs, Started
    <3>2. \A k \in Jobs : job'[k].status # "retrying"
      BY <2>1 DEF IInv, CallsHoldStartedJobs
    <3> QED
      BY <3>1, <3>2 DEF CallsHoldStartedJobs
  <2>9. CallsHoldTheirWrites'
    BY <2>1, <2>2 DEF IInv, CallsHoldTheirWrites
  <2>10. CountedCalls'
    BY <2>1, <2>2 DEF IInv, CountedCalls
  <2> QED
    BY <2>3, <2>4, <2>5, <2>6, <2>7, <2>8, <2>9, <2>10 DEF IInv
<1> QED
  BY <1>2, <1>3

LEMMA WriteIInv ==
  ASSUME IInv, TypeOK', NEW w \in Workers,
         \/ StartWrite(w) \/ FailWrite(w) \/ SucceedWrite(w)
         \/ Upload(w) \/ UpdateReport(w) \/ Answer(w)
  PROVE  IInv'
<1> DEFINE j == call[w].job
<1>1. /\ TypeOK /\ CallsHoldStoredJobs /\ CallsHoldStartedJobs /\ CallsHoldTheirWrites
      /\ CountedCalls /\ call[w] \in Calls
  BY DEF IInv, TypeOK
<1>2. call[w].at # "idle" /\ j \in Jobs /\ job[j].status # "none"
  BY <1>1 DEF StartWrite, FailWrite, SucceedWrite, Upload, UpdateReport, Answer,
              CallsHoldStoredJobs
<1>3. ASSUME StartWrite(w) PROVE IInv'
  <2> DEFINE target == [status |-> "running", attempts |-> call[w].seen.attempts + 1]
  <2>1. target \in JobDocuments /\ target.status = "running"
    BY <1>1 DEF Calls, JobDocuments, JobStatuses
  <2>2. losses = 0 => target.attempts = 1
    BY <1>1, <1>3 DEF StartWrite, CountedCalls
  <2>3. AfterStart(w) \in {"report", "answer"} /\ Transition(w, Startable, target, AfterStart(w))
    BY <1>3 DEF StartWrite, AfterStart
  <2> HIDE DEF target
  <2> QED
    BY <1>2, <2>1, <2>2, <2>3, TransitionIInv
<1>4. ASSUME FailWrite(w) PROVE IInv'
  <2> DEFINE target == [status |-> "failed", attempts |-> call[w].seen.attempts]
  <2>1. target \in JobDocuments /\ target.status = "failed"
    BY <1>1 DEF Calls, JobDocuments, JobStatuses
  <2>2. losses # 0
    BY <1>1, <1>4 DEF FailWrite, CountedCalls
  <2>3. Transition(w, {"running"}, target, "answer")
    BY <1>4 DEF FailWrite
  <2> HIDE DEF target
  <2> QED
    BY <1>2, <2>1, <2>2, <2>3, TransitionIInv
<1>5. ASSUME SucceedWrite(w) PROVE IInv'
  <2> DEFINE target == [status |-> "succeeded", attempts |-> call[w].seen.attempts]
  <2>1. target \in JobDocuments /\ target.status = "succeeded"
    BY <1>1 DEF Calls, JobDocuments, JobStatuses
  <2>2. losses = 0 => target.attempts = 1
    BY <1>1, <1>5 DEF SucceedWrite, CountedCalls
  <2>3. j \in artifact /\ report[j] # "queued"
    BY <1>1, <1>5 DEF SucceedWrite, CallsHoldTheirWrites
  <2>4. Transition(w, {"running"}, target, "answer")
    BY <1>5 DEF SucceedWrite
  <2> HIDE DEF target
  <2> QED
    BY <1>2, <2>1, <2>2, <2>3, <2>4, TransitionIInv
<1>6. ASSUME Upload(w) PROVE IInv'
  <2>1. /\ call'[w].at = "update" /\ call'[w].job = j
        /\ \A v \in Workers \ {w} : call'[v] = call[v]
        /\ artifact' = artifact \cup {j}
        /\ UNCHANGED <<request, report, job, task, losses>>
    BY <1>1, <1>6, StepFields DEF Upload
  <2>2. /\ WrittenInOrder' /\ TasksNameStoredJobs' /\ SucceededIsStored'
        /\ DroppedTaskWasStarted' /\ StartedOnce'
    BY <2>1 DEF IInv, WrittenInOrder, TasksNameStoredJobs, SucceededIsStored,
                DroppedTaskWasStarted, StartedOnce
  <2>3. CallsHoldStoredJobs'
    BY <1>1, <1>2, <2>1 DEF CallsHoldStoredJobs
  <2>4. CallsHoldStartedJobs'
    BY <1>1, <1>6, <2>1 DEF Upload, CallsHoldStartedJobs, Started
  <2>5. CallsHoldTheirWrites'
    BY <1>1, <2>1 DEF CallsHoldTheirWrites
  <2>6. CountedCalls'
    BY <1>1, <2>1 DEF CountedCalls
  <2> QED
    BY <2>2, <2>3, <2>4, <2>5, <2>6 DEF IInv
<1>7. ASSUME UpdateReport(w) PROVE IInv'
  <2>1. /\ call'[w].at = "succeed_read" /\ call'[w].job = j
        /\ \A v \in Workers \ {w} : call'[v] = call[v]
        /\ report'[j] = "succeeded"
        /\ \A k \in Jobs \ {j} : report'[k] = report[k]
        /\ UNCHANGED <<request, job, task, artifact, losses>>
    BY <1>1, <1>2, <1>7, StepFields DEF UpdateReport, TypeOK
  <2>2. WrittenInOrder'
    BY <1>2, <2>1 DEF IInv, WrittenInOrder, NoDocument
  <2>3. /\ TasksNameStoredJobs' /\ SucceededIsStored' /\ DroppedTaskWasStarted'
        /\ StartedOnce'
    BY <2>1 DEF IInv, TasksNameStoredJobs, SucceededIsStored, DroppedTaskWasStarted,
                StartedOnce
  <2>4. CallsHoldStoredJobs'
    BY <1>1, <1>2, <2>1 DEF CallsHoldStoredJobs
  <2>5. CallsHoldStartedJobs'
    BY <1>1, <1>7, <2>1 DEF UpdateReport, CallsHoldStartedJobs, Started
  <2>6. CallsHoldTheirWrites'
    <3>1. ASSUME NEW v \in Workers \ {w}, call'[v].at \in {"succeed_read", "succeed_write"}
          PROVE  report'[call'[v].job] # "queued"
      BY <1>1, <2>1, <3>1 DEF CallsHoldTheirWrites, CallsHoldStoredJobs
    <3>2. \A v \in Workers : call'[v].at \in {"update", "succeed_read", "succeed_write"} =>
                               call'[v].job \in artifact'
      BY <1>1, <1>7, <2>1 DEF UpdateReport, CallsHoldTheirWrites
    <3> QED
      BY <2>1, <3>1, <3>2 DEF CallsHoldTheirWrites
  <2>7. CountedCalls'
    BY <1>1, <2>1 DEF CountedCalls
  <2> QED
    BY <2>2, <2>3, <2>4, <2>5, <2>6, <2>7 DEF IInv
<1>8. ASSUME Answer(w) PROVE IInv'
  <2>1. /\ call'[w].at = "idle"
        /\ \A v \in Workers \ {w} : call'[v] = call[v]
        /\ task'[j] = "done"
        /\ \A k \in Jobs \ {j} : task'[k] = task[k]
        /\ UNCHANGED <<request, report, job, artifact, losses>>
    BY <1>1, <1>2, <1>8, ReleaseFields DEF Answer, TypeOK
  <2>2. WrittenInOrder'
    <3>1. request[j] \notin {"new", "refused", "save_report", "save_job"}
      BY <1>2 DEF IInv, WrittenInOrder, NoDocument, TypeOK
    <3>2. request[j] # "enqueue"
      BY <1>1, <1>2, <1>8 DEF Answer, IInv, WrittenInOrder, CallsHoldStoredJobs
    <3> QED
      BY <2>1, <3>1, <3>2 DEF IInv, WrittenInOrder
  <2>3. TasksNameStoredJobs' /\ SucceededIsStored' /\ StartedOnce'
    BY <1>2, <2>1 DEF IInv, TasksNameStoredJobs, SucceededIsStored, StartedOnce
  <2>4. DroppedTaskWasStarted'
    BY <1>1, <1>2, <1>8, <2>1
       DEF Answer, IInv, DroppedTaskWasStarted, CallsHoldStartedJobs, Started
  <2>5. /\ CallsHoldStoredJobs' /\ CallsHoldStartedJobs' /\ CallsHoldTheirWrites'
        /\ CountedCalls'
    BY <1>1, <2>1 DEF CallsHoldStoredJobs, CallsHoldStartedJobs, CallsHoldTheirWrites,
                      CountedCalls, Started
  <2> QED
    BY <2>2, <2>3, <2>4, <2>5 DEF IInv
<1> QED
  BY <1>3, <1>4, <1>5, <1>6, <1>7, <1>8

LEMMA NextIInv == IInv /\ [Next]_vars => IInv'
<1> SUFFICES ASSUME IInv, [Next]_vars PROVE IInv'
  OBVIOUS
<1>1. ASSUME NEW j \in Jobs, RequestStep(j) \/ RequestFails(j) \/ LoseReport(j) PROVE IInv'
  BY <1>1, RequestIInv
<1>2. ASSUME NEW w \in Workers, HandlerStep(w) \/ HandlerFails(w) \/ \E j \in Jobs : Deliver(w, j)
      PROVE  IInv'
  <2>1. TypeOK'
    BY <1>2, HandlerTypes DEF IInv
  <2> QED
    BY <1>2, <2>1, ReadIInv, WriteIInv DEF HandlerStep
<1>3. CASE UNCHANGED vars
  BY <1>3 DEF vars, IInv, TypeOK, WrittenInOrder, TasksNameStoredJobs, CallsHoldStoredJobs,
     CallsHoldStartedJobs, CallsHoldTheirWrites, SucceededIsStored, DroppedTaskWasStarted,
     StartedOnce, CountedCalls
<1> QED
  BY <1>1, <1>2, <1>3 DEF Next

\* In every reachable state the documents, the queue and the program counters of
\* the handlers satisfy the inductive invariant (core/saas/services.py, worker/main.py).
THEOREM Invariance == Spec => []IInv
BY InitIInv, NextIInv, PTL DEF Spec

-----------------------------------------------------------------------------
(* What follows from the invariant.                                         *)

\* Every reachable state is well typed.
THEOREM TypeCorrect == Spec => []TypeOK
<1>1. IInv => TypeOK
  BY DEF IInv
<1> QED
  BY <1>1, Invariance, PTL

\* The worker never meets a task without its job, nor a job without its report
\* (unless that was removed from outside).
THEOREM StoredBeforeEnqueued == Spec => []TasksNameStoredJobs
<1>1. IInv => TasksNameStoredJobs
  BY DEF IInv
<1> QED
  BY <1>1, Invariance, PTL

\* A job that says succeeded can be downloaded, whichever delivery finished it.
THEOREM Downloadable == Spec => []SucceededIsDownloadable
<1>1. IInv => SucceededIsDownloadable
  BY DEF IInv, TypeOK, TasksNameStoredJobs, SucceededIsStored, SucceededIsDownloadable
<1> QED
  BY <1>1, Invariance, PTL

\* However often it is delivered, a job whose report is there is started once.
THEOREM StartsOnce == Spec => []StartedOnce
<1>1. IInv => StartedOnce
  BY DEF IInv
<1> QED
  BY <1>1, Invariance, PTL

\* The queue never drops the task of a job nobody took up.
THEOREM NoJobIsSkipped == Spec => []DroppedTaskWasStarted
<1>1. IInv => DroppedTaskWasStarted
  BY DEF IInv
<1> QED
  BY <1>1, Invariance, PTL

\* The only writes of a job document are the first save and the transitions.
LEMMA JobWrites ==
  ASSUME IInv, [Next]_vars, NEW j \in Jobs, job[j].status = "succeeded"
  PROVE  job'[j] = job[j]
<1>1. TypeOK /\ WrittenInOrder
  BY DEF IInv
<1>2. ASSUME NEW k \in Jobs, RequestStep(k) PROVE job'[j] = job[j]
  BY <1>1, <1>2
     DEF RequestStep, CheckQuota, SaveReport, SaveJob, Enqueue, AnswerAccepted,
         WrittenInOrder, NoDocument, TypeOK
<1>3. ASSUME NEW w \in Workers, NEW allowed \in {Startable, {"running"}}, NEW target, NEW next,
             Transition(w, allowed, target, next)
      PROVE  job'[j] = job[j]
  BY <1>1, <1>3 DEF Transition, Startable, TypeOK
<1>4. ASSUME NEW w \in Workers, HandlerStep(w) PROVE job'[j] = job[j]
  <2>1. CASE StartWrite(w) \/ FailWrite(w) \/ SucceedWrite(w)
    BY <1>3, <2>1 DEF StartWrite, FailWrite, SucceedWrite
  <2> QED
    BY <1>4, <2>1
       DEF HandlerStep, ReadBefore, StartRead, ReadReport, FailRead, Upload, UpdateReport,
           SucceedRead, Answer
<1> QED
  BY <1>2, <1>4 DEF Next, vars, RequestFails, LoseReport, HandlerFails, Deliver

\* No late delivery changes a job that succeeded.
THEOREM SucceededStays == Spec => SucceededIsFinal
<1>1. IInv /\ [Next]_vars =>
        [\A j \in Jobs : job[j].status = "succeeded" => job'[j] = job[j]]_vars
  BY JobWrites
<1> QED
  BY <1>1, Invariance, PTL DEF Spec, SucceededIsFinal

-----------------------------------------------------------------------------
(* Refinement: what the job documents and the bucket show is a behaviour of *)
(* JobLifecycle.  Saving the job is Accept, the three transitions are Begin, *)
(* Abandon and Deliver, the upload is Store, and every other step stutters.  *)

AbstractPhase == [j \in Jobs |-> Phase(job[j].status)]

LEMMA InitRefines == Init => Lifecycle!Init
BY DEF Init, Lifecycle!Init, Phase, NoDocument

LEMMA StutterRefines ==
  ASSUME UNCHANGED <<job, artifact>>
  PROVE  UNCHANGED Lifecycle!vars
BY DEF Lifecycle!vars

\* A new status of one job is a new phase of that job alone.
LEMMA PhaseChange ==
  ASSUME TypeOK, NEW j \in Jobs, NEW document, job' = [job EXCEPT ![j] = document]
  PROVE  AbstractPhase' = [AbstractPhase EXCEPT ![j] = Phase(document.status)]
BY DEF AbstractPhase, TypeOK

LEMMA TransitionRefines ==
  ASSUME IInv, NEW w \in Workers, StartWrite(w) \/ FailWrite(w) \/ SucceedWrite(w)
  PROVE  [Lifecycle!Next]_Lifecycle!vars
<1> DEFINE j == call[w].job
<1>1. TypeOK /\ j \in Jobs
  BY DEF IInv, CallsHoldStoredJobs, StartWrite, FailWrite, SucceedWrite
<1>2. CASE job' = job
  BY <1>2, StutterRefines DEF StartWrite, FailWrite, SucceedWrite, Transition
<1>3. ASSUME job' # job, StartWrite(w) PROVE Lifecycle!Begin(j)
  <2> DEFINE target == [status |-> "running", attempts |-> call[w].seen.attempts + 1]
  <2>1. job[j].status \in Startable /\ job' = [job EXCEPT ![j] = target] /\ artifact' = artifact
    BY <1>3 DEF StartWrite, Transition
  <2>2. target.status = "running"
    OBVIOUS
  <2> HIDE DEF target
  <2>3. AbstractPhase' = [AbstractPhase EXCEPT ![j] = "working"]
    BY <1>1, <2>1, <2>2, PhaseChange DEF Phase
  <2>4. AbstractPhase[j] \in {"waiting", "abandoned"}
    BY <1>1, <2>1 DEF AbstractPhase, Phase, Startable
  <2> QED
    BY <2>1, <2>3, <2>4 DEF Lifecycle!Begin, AbstractPhase
<1>4. ASSUME job' # job, FailWrite(w) PROVE Lifecycle!Abandon(j)
  <2> DEFINE target == [status |-> "failed", attempts |-> call[w].seen.attempts]
  <2>1. job[j].status = "running" /\ job' = [job EXCEPT ![j] = target] /\ artifact' = artifact
    BY <1>4 DEF FailWrite, Transition
  <2>2. target.status = "failed"
    OBVIOUS
  <2> HIDE DEF target
  <2>3. AbstractPhase' = [AbstractPhase EXCEPT ![j] = "abandoned"]
    BY <1>1, <2>1, <2>2, PhaseChange DEF Phase
  <2>4. AbstractPhase[j] = "working"
    BY <1>1, <2>1 DEF AbstractPhase, Phase
  <2> QED
    BY <2>1, <2>3, <2>4 DEF Lifecycle!Abandon, AbstractPhase
<1>5. ASSUME job' # job, SucceedWrite(w) PROVE Lifecycle!Deliver(j)
  <2> DEFINE target == [status |-> "succeeded", attempts |-> call[w].seen.attempts]
  <2>1. job[j].status = "running" /\ job' = [job EXCEPT ![j] = target] /\ artifact' = artifact
    BY <1>5 DEF SucceedWrite, Transition
  <2>2. target.status = "succeeded"
    OBVIOUS
  <2> HIDE DEF target
  <2>3. AbstractPhase' = [AbstractPhase EXCEPT ![j] = "delivered"]
    BY <1>1, <2>1, <2>2, PhaseChange DEF Phase
  <2>4. AbstractPhase[j] = "working" /\ j \in artifact
    BY <1>1, <1>5, <2>1
       DEF AbstractPhase, Phase, IInv, CallsHoldTheirWrites, SucceedWrite
  <2> QED
    BY <2>1, <2>3, <2>4 DEF Lifecycle!Deliver, AbstractPhase
<1> QED
  BY <1>1, <1>2, <1>3, <1>4, <1>5 DEF Lifecycle!Next

LEMMA NextRefines == IInv /\ [Next]_vars => [Lifecycle!Next]_Lifecycle!vars
<1> SUFFICES ASSUME IInv, [Next]_vars PROVE [Lifecycle!Next]_Lifecycle!vars
  OBVIOUS
<1>1. TypeOK
  BY DEF IInv
<1>2. ASSUME NEW j \in Jobs, RequestStep(j) \/ RequestFails(j) \/ LoseReport(j)
      PROVE  [Lifecycle!Next]_Lifecycle!vars
  <2>1. CASE SaveJob(j)
    <3> DEFINE document == [status |-> "queued", attempts |-> 0]
    <3>1. job' = [job EXCEPT ![j] = document] /\ artifact' = artifact
      BY <2>1 DEF SaveJob
    <3>2. document.status = "queued"
      OBVIOUS
    <3> HIDE DEF document
    <3>3. AbstractPhase' = [AbstractPhase EXCEPT ![j] = "waiting"]
      BY <1>1, <3>1, <3>2, PhaseChange DEF Phase
    <3>4. AbstractPhase[j] = "absent"
      BY <2>1 DEF SaveJob, IInv, WrittenInOrder, NoDocument, AbstractPhase, Phase
    <3>5. Lifecycle!Accept(j)
      BY <3>1, <3>3, <3>4 DEF Lifecycle!Accept, AbstractPhase
    <3> QED
      BY <3>5 DEF Lifecycle!Next
  <2>2. CASE ~SaveJob(j)
    BY <1>2, <2>2, StutterRefines
       DEF RequestStep, CheckQuota, SaveReport, Enqueue, AnswerAccepted, RequestFails,
           LoseReport
  <2> QED
    BY <2>1, <2>2
<1>3. ASSUME NEW w \in Workers,
             HandlerStep(w) \/ HandlerFails(w) \/ \E j \in Jobs : Deliver(w, j)
      PROVE  [Lifecycle!Next]_Lifecycle!vars
  <2>1. CASE StartWrite(w) \/ FailWrite(w) \/ SucceedWrite(w)
    BY <2>1, TransitionRefines
  <2>2. CASE Upload(w)
    <3> DEFINE j == call[w].job
    <3>1. j \in Jobs /\ job[j].status \notin {"none", "queued", "retrying"}
      BY <2>2 DEF Upload, IInv, CallsHoldStoredJobs, CallsHoldStartedJobs, Started
    <3>2. job[j].status \in {"running", "succeeded", "failed"}
      BY <1>1, <3>1 DEF TypeOK, JobDocuments, JobStatuses
    <3>3. AbstractPhase[j] \notin {"absent", "waiting"}
      BY <3>1, <3>2 DEF AbstractPhase, Phase
    <3>4. Lifecycle!Store(j)
      BY <2>2, <3>3 DEF Upload, Lifecycle!Store, AbstractPhase
    <3> QED
      BY <3>1, <3>4 DEF Lifecycle!Next
  <2>3. CASE ~(StartWrite(w) \/ FailWrite(w) \/ SucceedWrite(w) \/ Upload(w))
    BY <1>3, <2>3, StutterRefines
       DEF HandlerStep, ReadBefore, StartRead, ReadReport, FailRead, UpdateReport,
           SucceedRead, Answer, HandlerFails, Deliver
  <2> QED
    BY <2>1, <2>2, <2>3
<1>4. CASE UNCHANGED vars
  BY <1>4, StutterRefines DEF vars
<1> QED
  BY <1>2, <1>3, <1>4 DEF Next

\* Every behaviour of the handlers, the queue and the stores, failures and
\* duplicate deliveries included, shows the client a behaviour of JobLifecycle.
THEOREM Refinement == Spec => ImplementsLifecycle
BY InitRefines, NextRefines, Invariance, PTL DEF Spec, ImplementsLifecycle, Lifecycle!Spec
=============================================================================
