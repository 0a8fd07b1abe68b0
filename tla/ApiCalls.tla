------------------------------- MODULE ApiCalls -------------------------------
(***************************************************************************)
(* A page's call for data, to Google and back: the checks of the API       *)
(* (api/dependencies.py, core/saas/google_credentials.py), the error of    *)
(* Google (core/google_errors.py), its translation to an answer            *)
(* (api/google_errors.py), to a typed error (ui/saas_api.py), to what the  *)
(* page does (ui/api_boundary.py and the pages).                           *)
(*                                                                         *)
(* A case is [call, host, session, account, google]:                       *)
(*   call     "list" the forms, a "form" (structure, answers, times), the  *)
(*            "load" of the catalog, the population "tables" for the       *)
(*            weighting page or for the report ("report"),                 *)
(*   host     200 when the API answers, 0 for no answer, or the status     *)
(*            that a gateway gives in its place,                           *)
(*   session  "valid" or "refused",                                        *)
(*   account  "none", "lacks" a scope, "revoked", "unrefreshed" (Google    *)
(*            cannot be asked to refresh) or "ok",                         *)
(*   google   [status, reasons, phrase]: 200, 0 when it does not answer,   *)
(*            or an error with the reasons it lists and whether its        *)
(*            message says that scopes are missing.                        *)
(***************************************************************************)
EXTENDS Integers, Sequences, SequencesExt

\* A gateway answers for the API with any status but 401: it knows no sessions.
Cases ==
  [call    : {"list", "form", "load", "tables", "report"},
   host    : Nat \ {401},
   session : {"valid", "refused"},
   account : {"none", "lacks", "revoked", "unrefreshed", "ok"},
   google  : [status : Nat, reasons : Seq(STRING), phrase : BOOLEAN]]

ScopeReasons == {"insufficientPermissions", "accessNotConfigured", "ACCESS_TOKEN_SCOPE_INSUFFICIENT"}
Purpose(call) == IF call \in {"tables", "report"} THEN "sheets" ELSE "forms"

\* Mutation: whatever is listed first.
ReasonFirst(reasons) == IF reasons = <<>> THEN "none" ELSE reasons[1]
\* google_error_reason.
Reason(reasons) ==
  LET scope == SelectInSeq(reasons, LAMBDA r : r \in ScopeReasons) IN
  IF scope # 0 THEN reasons[scope] ELSE IF reasons # <<>> THEN reasons[1] ELSE "none"

\* The reason as the route sees it: the listing of the forms keeps none.
Kept(call, google) == IF call = "list" THEN "none" ELSE Reason(google.reasons)
IsScopeError(status, reason, phrase) == status = 403 /\ (reason \in ScopeReasons \/ phrase)

Answer(status, code) == [status |-> status, code |-> code]
Lacking == Answer(403, "google_insufficient_scopes")
Failed == Answer(500, "none")

\* Mutation: Google's own status.
StatusAsGoogleSays(google) == IF google.status \in {401, 403, 404} THEN google.status ELSE 502
\* google_http_exception.
StatusOf(google) ==
  IF google.status \in {401, 403} THEN 403 ELSE IF google.status = 404 THEN 404 ELSE 502
Translated(call, google) ==
  IF IsScopeError(google.status, Kept(call, google), google.phrase) THEN Lacking
  ELSE Answer(StatusOf(google), "google_error")

\* require_google_credentials, and the handlers of a grant that fails.
AccountAnswer ==
  [none |-> Lacking, lacks |-> Lacking,
   revoked |-> Answer(401, "google_token_revoked"),
   unrefreshed |-> Answer(502, "google_token_refresh_failed")]

Reaches(c) == c.host = 200 /\ c.session = "valid"

\* The catalog's load answers for Google with the status of a row.
Respond(c) ==
  IF c.host # 200 THEN Answer(c.host, "none")
  ELSE IF c.session = "refused" THEN Answer(401, "none")
  ELSE IF c.account # "ok" THEN AccountAnswer[c.account]
  ELSE IF c.google.status = 200 \/ c.call = "load" THEN Answer(200, "none")
  ELSE IF c.google.status = 0 THEN Failed
  ELSE Translated(c.call, c.google)

\* _raise_typed_error, then raise_for_status; no answer is an error of httpx too.
TypedError(answer) ==
  IF answer.status = 401 THEN IF answer.code = "google_token_revoked" THEN "revoked" ELSE "session"
  ELSE IF answer = Lacking THEN "scopes"
  ELSE IF answer.status = 502 THEN "google"
  ELSE IF answer.status >= 500 THEN "server"
  ELSE IF answer.status = 200 THEN "none"
  ELSE "http"

\* _guarded, in the script: what is not listed goes on to the page.
Boundary(error, purpose) ==
  IF error \in {"session", "revoked"} THEN "sign_out"
  ELSE IF error = "google" THEN "ask_to_reload"
  ELSE IF error = "server" THEN "support_code"
  ELSE IF error = "scopes" /\ purpose = "forms" THEN "offer_forms"
  ELSE error

\* The background thread of the load keeps the error; the page run gives it to the
\* boundary if it is one of the API's own (_surface_load_error), and otherwise says
\* that the load stopped.
SaaSApiErrors == {"session", "revoked", "google", "server"}
LoadShows(error) ==
  IF error \in SaaSApiErrors THEN Boundary(error, "forms")
  ELSE IF error = "none" THEN "data" ELSE "load_stopped"

\* The pages on what the boundary lets through: an error state for forms; the
\* weighting page offers Sheets; the report does without tables on any error of
\* type RuntimeError, missing scopes among them.
PageShows(call, error) ==
  IF error = "none" THEN "data"
  ELSE IF error \in {"scopes", "http"} /\ Purpose(call) = "forms" THEN "error_state"
  ELSE IF error = "scopes" THEN IF call = "tables" THEN "offer_sheets" ELSE "without_tables"
  ELSE IF error = "http" THEN "traceback"
  ELSE error

Shown(c) ==
  LET error == TypedError(Respond(c)) IN
  IF c.call = "load" THEN LoadShows(error) ELSE PageShows(c.call, Boundary(error, Purpose(c.call)))

-----------------------------------------------------------------------------
(* Properties of a case.                                                    *)

\* Google says that the call lacks a scope, with any of its words.
GoogleWantsScopes(google) ==
  google.status = 403 /\ (google.phrase \/ ToSet(google.reasons) \cap ScopeReasons # {})

\* The user is signed out just when the session is refused or Google has revoked
\* the grant, never for what a retry or a consent could mend, nor because of the
\* form; for missing scopes the pages of forms offer to connect again, whichever
\* way Google says so (the list needs Google's message, see Kept).
FailuresAreTakenRight(c) ==
  LET shown == Shown(c) IN
  /\ (shown = "sign_out") <=> c.host = 200 /\ (c.session = "refused" \/ c.account = "revoked")
  /\ Reaches(c) /\ c.account \in {"none", "lacks"} /\ c.call \in {"list", "form"} =>
       shown = "offer_forms"
  /\ Reaches(c) /\ c.account = "ok" /\ c.call # "load" /\ GoogleWantsScopes(c.google) =>
       /\ c.call = "form" => shown = "offer_forms"
       /\ c.call = "list" => shown = IF c.google.phrase THEN "offer_forms" ELSE "error_state"
       /\ c.call = "tables" => shown = "offer_sheets"
       /\ c.call = "report" => shown = "without_tables"
  /\ (shown = "data") <=> Reaches(c) /\ c.account = "ok" /\ (c.google.status = 200 \/ c.call = "load")

\* No failure ends in a traceback.
ProperState(c) == Shown(c) # "traceback"

\* An error of the background load is handled as that of any page call.
HandledAsAnyCall(c) ==
  LET error == TypedError(Respond(c)) IN
  c.call = "load" /\ error \in SaaSApiErrors \cup {"scopes"} => Shown(c) = Boundary(error, "forms")
=============================================================================
