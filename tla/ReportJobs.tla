----------------------------- MODULE ReportJobs -----------------------------
(***************************************************************************)
(* Asynchronous PDF reports: POST /v1/reports/jobs (api/main.py) stores a  *)
(* report document, stores a job document and creates a Cloud Tasks task;  *)
(* Cloud Tasks posts the task to worker/main.py until it is answered 2xx,  *)
(* and the worker moves the job through JobStateMachine                    *)
(* (core/saas/services.py) while it stores the PDF and updates the report. *)
(*                                                                         *)
(* Every call to Firestore, Cloud Storage or Cloud Tasks is a step of its  *)
(* own, because other handlers run between two calls and either side may   *)
(* fail between them.  Only jobs.transition is a Firestore transaction: it *)
(* reads the status and writes the document in one step.  Everything the   *)
(* target document is built from was read earlier.                         *)
(***************************************************************************)
EXTENDS Integers

CONSTANTS
  Jobs,       \* calls of POST /v1/reports/jobs; each makes one report and one job
  Workers,    \* worker handlers that may run at once (Cloud Run instances and threads)
  NoJob,      \* what an idle handler works on
  Quotas,     \* quota documents the callers may have, or NoQuota
  NoQuota,
  MaxFaults,  \* bound: failed remote calls, crashes and lost responses
  MaxLosses   \* bound: report documents removed from outside the program

ASSUME NoJobAssumption == NoJob \notin Jobs
ASSUME QuotaAssumption == Quotas \subseteq [limit : Int, used : Nat] \cup {NoQuota}
ASSUME BoundAssumption == MaxFaults \in Nat /\ MaxLosses \in Nat

VARIABLES
  request,   \* request[j]: the next step of the API handler of call j
  report,    \* report[j]: status of the report document, "none" without one
  job,       \* job[j]: the job document
  task,      \* task[j]: the Cloud Tasks task of job j
  artifact,  \* jobs whose PDF is in the bucket (one object name per report)
  call,      \* call[w]: the worker handler w, its locals included
  faults,    \* failures so far
  losses     \* removed report documents so far

vars == <<request, report, job, task, artifact, call, faults, losses>>

JobStatuses == {"queued", "running", "succeeded", "failed", "retrying"}
NoDocument == [status |-> "none", attempts |-> 0]
JobDocuments == [status : JobStatuses \cup {"none"}, attempts : Nat]

HandlerSteps ==
  {"idle", "read", "start_read", "start_write", "report", "fail_read", "fail_write",
   "upload", "update", "succeed_read", "succeed_write", "answer"}

\* at: the next step; before: the status read first; seen: the document read last.
Calls == [at : HandlerSteps, job : Jobs \cup {NoJob},
          before : JobStatuses \cup {"none"}, seen : JobDocuments]
IdleCall == [at |-> "idle", job |-> NoJob, before |-> "none", seen |-> NoDocument]

\* Mutation: a running job may be started again.
StartableAgain == {"queued", "retrying", "failed", "running"}
Startable == {"queued", "retrying", "failed"}

TypeOK ==
  /\ request \in [Jobs -> {"new", "refused", "save_report", "save_job", "enqueue",
                           "answer", "accepted", "error"}]
  /\ report \in [Jobs -> {"none", "queued", "succeeded"}]
  /\ job \in [Jobs -> JobDocuments]
  /\ task \in [Jobs -> {"none", "pending", "done"}]
  /\ artifact \subseteq Jobs
  /\ call \in [Workers -> Calls]
  /\ faults \in 0..MaxFaults
  /\ losses \in 0..MaxLosses

Init ==
  /\ request = [j \in Jobs |-> "new"]
  /\ report = [j \in Jobs |-> "none"]
  /\ job = [j \in Jobs |-> NoDocument]
  /\ task = [j \in Jobs |-> "none"]
  /\ artifact = {}
  /\ call = [w \in Workers |-> IdleCall]
  /\ faults = 0
  /\ losses = 0

-----------------------------------------------------------------------------
(* The API handler of call j.  No code raises reports_used_this_month, so   *)
(* the quota document a caller has is an input and not a state.             *)

CanCreateReport(quota) == quota.limit < 0 \/ quota.used < quota.limit

CheckQuota(j, quota) ==
  /\ request[j] = "new"
  /\ request' = [request EXCEPT ![j] =
       IF quota = NoQuota \/ ~CanCreateReport(quota) THEN "refused" ELSE "save_report"]
  /\ UNCHANGED <<report, job, task, artifact, call, faults, losses>>

SaveReport(j) ==
  /\ request[j] = "save_report"
  /\ report' = [report EXCEPT ![j] = "queued"]
  /\ request' = [request EXCEPT ![j] = "save_job"]
  /\ UNCHANGED <<job, task, artifact, call, faults, losses>>

SaveJob(j) ==
  /\ request[j] = "save_job"
  /\ job' = [job EXCEPT ![j] = [status |-> "queued", attempts |-> 0]]
  /\ request' = [request EXCEPT ![j] = "enqueue"]
  /\ UNCHANGED <<report, task, artifact, call, faults, losses>>

Enqueue(j) ==
  /\ request[j] = "enqueue"
  /\ task' = [task EXCEPT ![j] = "pending"]
  /\ request' = [request EXCEPT ![j] = "answer"]
  /\ UNCHANGED <<report, job, artifact, call, faults, losses>>

AnswerAccepted(j) ==
  /\ request[j] = "answer"
  /\ request' = [request EXCEPT ![j] = "accepted"]
  /\ UNCHANGED <<report, job, task, artifact, call, faults, losses>>

\* The call of this step raised, or the instance died: what was stored stays.
RequestFails(j) ==
  /\ request[j] \in {"save_report", "save_job", "enqueue", "answer"}
  /\ faults < MaxFaults
  /\ faults' = faults + 1
  /\ request' = [request EXCEPT ![j] = "error"]
  /\ UNCHANGED <<report, job, task, artifact, call, losses>>

-----------------------------------------------------------------------------
(* The worker handler w.                                                    *)

Step(w, at) == call' = [call EXCEPT ![w].at = at]
StepSeeing(w, at, document) == call' = [call EXCEPT ![w].at = at, ![w].seen = document]
Release(w) == call' = [call EXCEPT ![w] = IdleCall]

\* Cloud Tasks posts a task that was not answered 2xx, and may post it again
\* while an earlier delivery is still being handled.
Deliver(w, j) ==
  /\ task[j] = "pending"
  /\ call[w].at = "idle"
  /\ call' = [call EXCEPT ![w] = [IdleCall EXCEPT !.at = "read", !.job = j]]
  /\ UNCHANGED <<request, report, job, task, artifact, faults, losses>>

\* before = jobs.get(job_id): 404 without a document, 200 when it succeeded.
ReadBefore(w) ==
  LET found == job[call[w].job].status IN
  /\ call[w].at = "read"
  /\ \/ found = "none" /\ Release(w)
     \/ found = "succeeded" /\ Step(w, "answer")
     \/ /\ found \notin {"none", "succeeded"}
        /\ call' = [call EXCEPT ![w].at = "start_read", ![w].before = found]
  /\ UNCHANGED <<request, report, job, task, artifact, faults, losses>>

\* Mutation: the two outcomes of AfterStart exchanged.
AfterStartReversed(w) == IF call[w].before = "running" THEN "report" ELSE "answer"

\* Where run_report_job goes on when start returned a job.
AfterStart(w) == IF call[w].before = "running" THEN "answer" ELSE "report"

\* JobStateMachine.start reads the job once more; a JobConflict is answered 409.
StartRead(w) ==
  LET found == job[call[w].job] IN
  /\ call[w].at = "start_read"
  /\ \/ found.status = "none" /\ Release(w)
     \/ found.status \in {"running", "succeeded"} /\ Step(w, AfterStart(w))
     \/ found.status \in Startable /\ StepSeeing(w, "start_write", found)
  /\ UNCHANGED <<request, report, job, task, artifact, faults, losses>>

\* jobs.transition(job_id, allowed, [seen EXCEPT ...]): one transaction.  What
\* is not allowed raises JobConflict, and the handler answers an error.
Transition(w, allowed, target, next) ==
  LET j == call[w].job IN
  /\ \/ job[j].status \in allowed /\ job' = [job EXCEPT ![j] = target] /\ Step(w, next)
     \/ job[j].status \notin allowed /\ job' = job /\ Release(w)
  /\ UNCHANGED <<request, report, task, artifact, faults, losses>>

StartWrite(w) ==
  /\ call[w].at = "start_write"
  /\ Transition(w, Startable,
       [status |-> "running", attempts |-> call[w].seen.attempts + 1], AfterStart(w))

ReadReport(w) ==
  /\ call[w].at = "report"
  /\ Step(w, IF report[call[w].job] = "none" THEN "fail_read" ELSE "upload")
  /\ UNCHANGED <<request, report, job, task, artifact, faults, losses>>

FailRead(w) ==
  LET found == job[call[w].job] IN
  /\ call[w].at = "fail_read"
  /\ \/ found.status = "none" /\ Release(w)
     \/ found.status # "none" /\ StepSeeing(w, "fail_write", found)
  /\ UNCHANGED <<request, report, job, task, artifact, faults, losses>>

\* Mutation: a job may also be failed after it succeeded.
FailWriteFinished(w) ==
  /\ call[w].at = "fail_write"
  /\ Transition(w, {"running", "succeeded"},
       [status |-> "failed", attempts |-> call[w].seen.attempts], "answer")

\* The worker fails a job for one reason only, and not as retryable.
FailWrite(w) ==
  /\ call[w].at = "fail_write"
  /\ Transition(w, {"running"},
       [status |-> "failed", attempts |-> call[w].seen.attempts], "answer")

Upload(w) ==
  /\ call[w].at = "upload"
  /\ artifact' = artifact \cup {call[w].job}
  /\ Step(w, "update")
  /\ UNCHANGED <<request, report, job, task, faults, losses>>

\* Mutation: the report is written back with the status it was read with.
UpdateReportStale(w) ==
  /\ call[w].at = "update"
  /\ report' = [report EXCEPT ![call[w].job] = "queued"]
  /\ Step(w, "succeed_read")
  /\ UNCHANGED <<request, job, task, artifact, faults, losses>>

\* reports.update sets the whole document, also when it was removed meanwhile.
UpdateReport(w) ==
  /\ call[w].at = "update"
  /\ report' = [report EXCEPT ![call[w].job] = "succeeded"]
  /\ Step(w, "succeed_read")
  /\ UNCHANGED <<request, job, task, artifact, faults, losses>>

SucceedRead(w) ==
  LET found == job[call[w].job] IN
  /\ call[w].at = "succeed_read"
  /\ \/ found.status = "none" /\ Release(w)
     \/ found.status = "succeeded" /\ Step(w, "answer")
     \/ found.status \notin {"none", "succeeded"} /\ StepSeeing(w, "succeed_write", found)
  /\ UNCHANGED <<request, report, job, task, artifact, faults, losses>>

SucceedWrite(w) ==
  /\ call[w].at = "succeed_write"
  /\ Transition(w, {"running"},
       [status |-> "succeeded", attempts |-> call[w].seen.attempts], "answer")

\* A 200 reaches Cloud Tasks, which drops the task.
Answer(w) ==
  /\ call[w].at = "answer"
  /\ task' = [task EXCEPT ![call[w].job] = "done"]
  /\ Release(w)
  /\ UNCHANGED <<request, report, job, artifact, faults, losses>>

\* A remote call raised (answered 500), the instance died, or the answer was
\* lost: the task is still there and nothing that was written is undone.
HandlerFails(w) ==
  /\ call[w].at # "idle"
  /\ faults < MaxFaults
  /\ faults' = faults + 1
  /\ Release(w)
  /\ UNCHANGED <<request, report, job, task, artifact, losses>>

\* A report document removed from outside (no code of the program removes one):
\* what the worker's "report_not_found" branch is there for.
LoseReport(j) ==
  /\ report[j] # "none"
  /\ losses < MaxLosses
  /\ losses' = losses + 1
  /\ report' = [report EXCEPT ![j] = "none"]
  /\ UNCHANGED <<request, job, task, artifact, call, faults>>

-----------------------------------------------------------------------------

RequestStep(j) ==
  \/ \E quota \in Quotas : CheckQuota(j, quota)
  \/ SaveReport(j) \/ SaveJob(j) \/ Enqueue(j) \/ AnswerAccepted(j)

HandlerStep(w) ==
  \/ ReadBefore(w) \/ StartRead(w) \/ StartWrite(w) \/ ReadReport(w)
  \/ FailRead(w) \/ FailWrite(w) \/ Upload(w) \/ UpdateReport(w)
  \/ SucceedRead(w) \/ SucceedWrite(w) \/ Answer(w)

Next ==
  \/ \E j \in Jobs : RequestStep(j) \/ RequestFails(j) \/ LoseReport(j)
  \/ \E w \in Workers : HandlerStep(w) \/ HandlerFails(w)
  \/ \E w \in Workers, j \in Jobs : Deliver(w, j)

Spec == Init /\ [][Next]_vars

-----------------------------------------------------------------------------
(* Properties.                                                              *)

\* create_report_job stores before it enqueues: the worker never meets a task
\* whose job is unknown (404), nor a job whose report was never stored.
TasksNameStoredJobs ==
  \A j \in Jobs :
    /\ task[j] # "none" => job[j].status # "none"
    /\ job[j].status # "none" => report[j] # "none" \/ losses > 0

\* The client polls the job and then downloads: a job that says succeeded has
\* its PDF stored and its report document pointing at it, whatever deliveries
\* raced for it and wherever one of them died.
SucceededIsDownloadable ==
  \A j \in Jobs : job[j].status = "succeeded" =>
    /\ j \in artifact
    /\ report[j] = "succeeded" \/ (report[j] = "none" /\ losses > 0)

\* The handler writes job documents from copies it read earlier; the
\* transaction must still keep a late delivery from disturbing a finished job.
SucceededIsFinal ==
  [][\A j \in Jobs : job[j].status = "succeeded" => job'[j] = job[j]]_vars

\* However many times the queue delivers a task, the job is taken up once as
\* long as its report is there: two deliveries never both count an attempt.
StartedOnce ==
  losses = 0 => \A j \in Jobs :
    job[j].attempts = IF job[j].status \in {"none", "queued"} THEN 0 ELSE 1

\* Cloud Tasks never drops the task of a job that nobody took up.
DroppedTaskWasStarted ==
  \A j \in Jobs : task[j] = "done" => job[j].status \notin {"none", "queued"}

\* An admitted request ends in a succeeded job when nothing fails.
AdmittedRequestsSucceed ==
  \A j \in Jobs :
    request[j] = "save_report" ~> (job[j].status = "succeeded" \/ faults > 0 \/ losses > 0)

\* What the client sees of a job follows JobLifecycle.
Phase(status) ==
  CASE status = "none"      -> "absent"
    [] status = "running"   -> "working"
    [] status = "succeeded" -> "delivered"
    [] status = "failed"    -> "abandoned"
    [] OTHER                -> "waiting"

Lifecycle == INSTANCE JobLifecycle
  WITH phase <- [j \in Jobs |-> Phase(job[j].status)], stored <- artifact

ImplementsLifecycle == Lifecycle!Spec
=============================================================================
