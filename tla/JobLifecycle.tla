---------------------------- MODULE JobLifecycle ----------------------------
(***************************************************************************)
(* What a client of the report API is promised about a job, without the    *)
(* API handler, the task queue, the documents and the worker handlers that *)
(* keep the promise.  A job waits, is worked on, and is delivered only     *)
(* when its PDF is stored; a delivered job never changes again, and a job  *)
(* that was given up may be taken up once more.                            *)
(* ReportJobs implements this specification.                               *)
(***************************************************************************)
CONSTANT Jobs

VARIABLES
  phase,   \* phase[j]: what GET /v1/reports/jobs/{job_id} can tell of job j
  stored   \* the jobs whose PDF is in the artifact storage

vars == <<phase, stored>>

Phases == {"absent", "waiting", "working", "abandoned", "delivered"}

Init ==
  /\ phase = [j \in Jobs |-> "absent"]
  /\ stored = {}

Accept(j) ==
  /\ phase[j] = "absent"
  /\ phase' = [phase EXCEPT ![j] = "waiting"]
  /\ UNCHANGED stored

Begin(j) ==
  /\ phase[j] \in {"waiting", "abandoned"}
  /\ phase' = [phase EXCEPT ![j] = "working"]
  /\ UNCHANGED stored

\* A PDF is stored for a job that was begun, by whichever delivery gets there.
Store(j) ==
  /\ phase[j] \notin {"absent", "waiting"}
  /\ stored' = stored \cup {j}
  /\ UNCHANGED phase

Deliver(j) ==
  /\ phase[j] = "working"
  /\ j \in stored
  /\ phase' = [phase EXCEPT ![j] = "delivered"]
  /\ UNCHANGED stored

Abandon(j) ==
  /\ phase[j] = "working"
  /\ phase' = [phase EXCEPT ![j] = "abandoned"]
  /\ UNCHANGED stored

Next == \E j \in Jobs : Accept(j) \/ Begin(j) \/ Store(j) \/ Deliver(j) \/ Abandon(j)

Spec == Init /\ [][Next]_vars
=============================================================================
