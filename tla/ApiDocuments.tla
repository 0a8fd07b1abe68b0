----------------------------- MODULE ApiDocuments -----------------------------
(***************************************************************************)
(* The parts of the API that keep documents in Firestore over several of   *)
(* its calls, and share none: the report jobs, and the account document of *)
(* a user.  A behaviour is one of a single part, the other stays as it     *)
(* begins.                                                                 *)
(***************************************************************************)
EXTENDS ReportJobs, GoogleGrants

VARIABLE part

documentVars == <<part, vars, grantVars>>

DocumentsInit == part \in {"jobs", "grants"} /\ Init /\ GrantInit

InJobs(step) == part = "jobs" /\ step /\ UNCHANGED <<part, grantVars>>
InGrants(step) == part = "grants" /\ step /\ UNCHANGED <<part, vars>>

DocumentsNext == InJobs(Next) \/ InGrants(GrantNext)

-----------------------------------------------------------------------------
(* Fairness.                                                                *)

\* A handler that runs goes on until it answers (a thread of the API or of the
\* worker), and Cloud Tasks retries a task it still holds: whenever a handler is
\* free again and again, the task is delivered.
JobsAreFair ==
  /\ \A j \in Jobs : WF_documentVars(InJobs(RequestStep(j)))
  /\ \A w \in Workers : WF_documentVars(InJobs(HandlerStep(w)))
  /\ \A j \in Jobs : SF_documentVars(InJobs(\E w \in Workers : Deliver(w, j)))

\* Threads go on, access tokens get old, the user goes on using the program, and
\* the token endpoint is not out of order for ever.
GrantsAreFair ==
  /\ WF_documentVars(InGrants(Expire))
  /\ \A r \in Requests :
       /\ WF_documentVars(InGrants(CredentialsStep(r)))
       /\ SF_documentVars(InGrants(Asks(r)))
       /\ SF_documentVars(InGrants(RefreshAnswers(r)))

DocumentsSpec ==
  /\ DocumentsInit /\ [][DocumentsNext]_documentVars
  /\ JobsAreFair /\ GrantsAreFair
=============================================================================
