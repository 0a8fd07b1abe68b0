---------------------------- MODULE SignInCallback ----------------------------
(***************************************************************************)
(* The Google sign-in of one user up to its login ticket: the OAuth states *)
(* (OAuthStateService in core/saas/services.py over firestore.py) and the  *)
(* stages of google_auth_callback in api/main.py, in threads of one API    *)
(* process.  Every remote call is a step, and any of them may fail.        *)
(*                                                                         *)
(* oauthlib refuses an answer with other scopes than were asked for unless *)
(* an environment variable relaxes it; the client sets the variable around *)
(* the exchange (core/saas/adapters/google_oauth.py), for the whole        *)
(* process.                                                                *)
(***************************************************************************)
EXTENDS Naturals

CONSTANTS
  States,     \* OAuth states: sign-ins that were started
  Callbacks,  \* threads that answer the callback
  Nobody      \* no state

ASSUME CallbackAssumption == Nobody \notin States

VARIABLES
  state,    \* state[s]: its document, and whether it is past its expires_at
  code,     \* Google: code[s], to be exchanged once
  relaxed,  \* OAUTHLIB_RELAX_TOKEN_SCOPE is set in the process
  cb,       \* cb[h]: where a thread is
  stored,   \* which documents of the user there are
  tickets   \* tickets[s]: login tickets created for s

signInVars == <<state, code, relaxed, cb, stored, tickets>>

CallbackStages == {"mark", "policy", "relax", "fetch", "restore", "userinfo", "user", "quota",
           "tokens", "ticket"}
CallbackAnswers == {"ticket_given", "auth_error", "refused"}
CallbackStates == [
  at       : {"idle"} \cup CallbackStages \cup CallbackAnswers,
  on       : States \cup {Nobody},
  previous : BOOLEAN,    \* what _oauthlib_scope_policy found, until it is left
  fetched  : BOOLEAN,    \* the exchange gave credentials
  failed   : BOOLEAN,    \* history: Google or Firestore failed it
  beside   : BOOLEAN]    \* history: another callback ran meanwhile
NoCallback == [at |-> "idle", on |-> Nobody, previous |-> FALSE, fetched |-> FALSE,
               failed |-> FALSE, beside |-> FALSE]

CallbackTypeOK ==
  /\ state \in [States -> [is : {"none", "live", "used"}, old : BOOLEAN]]
  /\ code \in [States -> {"none", "given", "spent"}]
  /\ relaxed \in BOOLEAN
  /\ cb \in [Callbacks -> CallbackStates]
  /\ stored \subseteq {"user", "quota", "account"}
  /\ tickets \in [States -> Nat]

CallbackInit ==
  /\ state = [s \in States |-> [is |-> "none", old |-> FALSE]]
  /\ code = [s \in States |-> "none"]
  /\ relaxed = FALSE
  /\ cb = [h \in Callbacks |-> NoCallback]
  /\ stored = {}
  /\ tickets = [s \in States |-> 0]

Running(h) == cb[h].at \in CallbackStages

-----------------------------------------------------------------------------
(* The browser and Google.                                                  *)

\* start_google_auth: a state is saved, the browser goes to Google.
StartGoogleAuth(s) ==
  /\ state[s].is = "none"
  /\ state' = [state EXCEPT ![s].is = "live"]
  /\ UNCHANGED <<code, relaxed, cb, stored, tickets>>

\* The user consents: the redirect carries a code.
GiveCode(s) ==
  /\ state[s].is # "none" /\ code[s] = "none"
  /\ code' = [code EXCEPT ![s] = "given"]
  /\ UNCHANGED <<state, relaxed, cb, stored, tickets>>

\* Ten minutes.
ExpireState(s) ==
  /\ state[s].is = "live" /\ ~state[s].old
  /\ state' = [state EXCEPT ![s].old = TRUE]
  /\ UNCHANGED <<code, relaxed, cb, stored, tickets>>

\* The redirect arrives, also once more when it is reloaded: the state is read
\* and checked.
ArriveBack(h, s) ==
  /\ ~Running(h) /\ code[s] # "none"
  /\ cb' = [g \in Callbacks |->
       IF g = h
       THEN [NoCallback EXCEPT !.on = s, !.beside = \E k \in Callbacks \ {h} : Running(k),
               !.at = IF state[s].is = "live" /\ ~state[s].old THEN "mark" ELSE "refused"]
       ELSE [cb[g] EXCEPT !.beside = TRUE]]
  /\ UNCHANGED <<state, code, relaxed, stored, tickets>>

-----------------------------------------------------------------------------
(* The stages.                                                              *)

Goes(h, at) == cb' = [cb EXCEPT ![h].at = at]

\* mark_used: a get, and a set of the whole document.  consume is outside of the
\* handler's try, so a failure of it (Fails) is a 500.
MarkUsed(h) ==
  /\ cb[h].at = "mark"
  /\ state' = [state EXCEPT ![cb[h].on].is = "used"]
  /\ Goes(h, "policy")
  /\ UNCHANGED <<code, relaxed, stored, tickets>>

\* Mutation: the variable is not set.
RelaxForgotten(h) ==
  /\ cb[h].at = "relax" /\ Goes(h, "fetch")
  /\ UNCHANGED <<state, code, relaxed, stored, tickets>>

\* _oauthlib_scope_policy.
ReadPolicy(h) ==
  /\ cb[h].at = "policy"
  /\ cb' = [cb EXCEPT ![h] = [@ EXCEPT !.at = "relax", !.previous = relaxed]]
  /\ UNCHANGED <<state, code, relaxed, stored, tickets>>

Relax(h) ==
  /\ cb[h].at = "relax"
  /\ relaxed' = TRUE
  /\ Goes(h, "fetch")
  /\ UNCHANGED <<state, code, stored, tickets>>

\* flow.fetch_token, with a scope set that is or is not the one asked for: a
\* code is good once.
FetchToken(h, broader) ==
  LET s == cb[h].on IN
  /\ cb[h].at = "fetch"
  /\ code' = [code EXCEPT ![s] = "spent"]
  /\ cb' = [cb EXCEPT ![h] = [@ EXCEPT !.at = "restore",
              !.fetched = code[s] = "given" /\ (broader => relaxed)]]
  /\ UNCHANGED <<state, relaxed, stored, tickets>>

\* Mutation: an exchange that failed is taken for one that did not.
AfterFetchAlways(h) == "userinfo"

AfterFetch(h) == IF cb[h].fetched THEN "userinfo" ELSE "auth_error"
RestorePolicy(h) ==
  /\ cb[h].at = "restore"
  /\ relaxed' = cb[h].previous
  /\ cb' = [cb EXCEPT ![h] = [@ EXCEPT !.at = AfterFetch(h), !.previous = FALSE]]
  /\ UNCHANGED <<state, code, stored, tickets>>

UserInfo(h) ==
  /\ cb[h].at = "userinfo" /\ Goes(h, "user")
  /\ UNCHANGED <<state, code, relaxed, stored, tickets>>

\* Mutation: the ticket before the tokens.
NextStageTicketFirst(at) ==
  CASE at = "user" -> "quota" [] at = "quota" -> "ticket" [] at = "tokens" -> "ticket_given"

\* _upsert_google_user, _save_google_tokens.
NextStage(at) == CASE at = "user" -> "quota" [] at = "quota" -> "tokens" [] at = "tokens" -> "ticket"
Document(at) == IF at = "tokens" THEN "account" ELSE at
Persist(h) ==
  /\ cb[h].at \in {"user", "quota", "tokens"}
  /\ stored' = stored \cup {Document(cb[h].at)}
  /\ Goes(h, NextStage(cb[h].at))
  /\ UNCHANGED <<state, code, relaxed, tickets>>

CreateLoginTicket(h) ==
  /\ cb[h].at = "ticket"
  /\ tickets' = [tickets EXCEPT ![cb[h].on] = @ + 1]
  /\ Goes(h, "ticket_given")
  /\ UNCHANGED <<state, code, relaxed, stored>>

\* A remote call fails: a redirect with auth_error.  The variable is restored
\* also then.
AfterFailure(at) == CASE at = "mark" -> "refused" [] at = "fetch" -> "restore" [] OTHER -> "auth_error"
Fails(h) ==
  /\ cb[h].at \in {"mark", "fetch", "userinfo", "user", "quota", "tokens", "ticket"}
  /\ cb' = [cb EXCEPT ![h] = [@ EXCEPT !.failed = TRUE, !.at = AfterFailure(cb[h].at)]]
  /\ UNCHANGED <<state, code, relaxed, stored, tickets>>

Stage(h) ==
  \/ MarkUsed(h) \/ ReadPolicy(h) \/ Relax(h) \/ RestorePolicy(h) \/ UserInfo(h) \/ Persist(h)
  \/ CreateLoginTicket(h) \/ \E broader \in BOOLEAN : FetchToken(h, broader)

CallbackNext ==
  \/ \E s \in States : StartGoogleAuth(s) \/ GiveCode(s) \/ ExpireState(s)
  \/ \E h \in Callbacks : Stage(h) \/ Fails(h) \/ \E s \in States : ArriveBack(h, s)

CallbackSpec == CallbackInit /\ [][CallbackNext]_signInVars

-----------------------------------------------------------------------------
(* Properties.                                                              *)

\* A ticket is given only when all that its session will read is there: the
\* user, the quota, and the account with the tokens.  And one sign-in gives one
\* ticket at most, although two callbacks with one state may both find it unused
\* (mark_used is a get and a set): a code is exchanged once.
TicketsComeLast ==
  \A s \in States :
    /\ tickets[s] > 0 => stored = {"user", "quota", "account"}
    /\ tickets[s] <= 1

\* A redirect that comes once, in time and alone is answered with a ticket
\* unless a call fails: nothing that an earlier sign-in has left behind, failed
\* halfway or not, stands in its way.
NothingBlocksTheNext ==
  \A h \in Callbacks :
    cb[h].at = "auth_error" /\ ~cb[h].failed =>
      cb[h].beside \/ \E g \in Callbacks \ {h} : cb[g].on = cb[h].on
=============================================================================
