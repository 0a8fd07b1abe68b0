---------------------------- MODULE GoogleGrants ----------------------------
(***************************************************************************)
(* The OAuth account document of one user (users share nothing): sign-ins  *)
(* replace it (_save_google_tokens in api/main.py), and every request that *)
(* calls Google builds credentials from it, which refresh themselves deep  *)
(* inside any Google call and then save or delete the document             *)
(* (core/saas/google_credentials.py).  Each read and each write of the     *)
(* document is a step of its own, and so is each answer of Google.         *)
(*                                                                         *)
(* Every consent (prompt=consent, access_type=offline) makes Google issue  *)
(* an access token and a refresh token; the pair is known by its sign-in.  *)
(***************************************************************************)
CONSTANTS
  SignIns,    \* sign-ins of the user, each with the grant Google gives it
  Requests,   \* threads that hold credentials (those of one stream have read
              \* the same account)
  Scopes,     \* what can be granted
  Identity,   \* the scopes of a plain sign-in
  NoRecord

ASSUME ScopeAssumption == Identity \subseteq Scopes
ASSUME RecordAssumption ==
  NoRecord \notin [grant : SignIns, scopes : SUBSET Scopes, fresh : BOOLEAN]

VARIABLES
  grants,   \* Google: grants[s], the scopes and the state of the grant of s
  record,   \* the account document: whose tokens, scopes, access token unexpired
  signIn,   \* signIn[s]: where the callback of s is
  credentials  \* credentials[r]: where request r is, and the account it has read

grantVars == <<grants, record, signIn, credentials>>

Records == [grant : SignIns, scopes : SUBSET Scopes, fresh : BOOLEAN]
Grants == [state : {"none", "live", "revoked"}, scopes : SUBSET Scopes]
Steps == {"new", "call", "refresh", "save", "drop"}

GrantTypeOK ==
  /\ grants \in [SignIns -> Grants]
  /\ record \in Records \cup {NoRecord}
  /\ signIn \in [SignIns -> {"new", "granted", "done"}]
  /\ credentials \in [Requests -> [at : Steps, account : Records \cup {NoRecord}]]

GrantInit ==
  /\ grants = [s \in SignIns |-> [state |-> "none", scopes |-> {}]]
  /\ record = NoRecord
  /\ signIn = [s \in SignIns |-> "new"]
  /\ credentials = [r \in Requests |-> [at |-> "new", account |-> NoRecord]]

-----------------------------------------------------------------------------
(* Google and the user.                                                     *)

\* The user consents, and may untick any scope that is not identity; earlier
\* grants are included.
Consent(s, scopes) ==
  /\ signIn[s] = "new"
  /\ Identity \subseteq scopes
  /\ grants' = [grants EXCEPT ![s] = [state |-> "live", scopes |-> scopes]]
  /\ signIn' = [signIn EXCEPT ![s] = "granted"]
  /\ UNCHANGED <<record, credentials>>

\* Access withdrawn in the Google account, or a refresh token that expired.
Revoke(s) ==
  /\ grants[s].state = "live"
  /\ grants' = [grants EXCEPT ![s].state = "revoked"]
  /\ UNCHANGED <<record, signIn, credentials>>

\* The stored access token gets old (within the minute that counts as old).
Expire ==
  /\ record # NoRecord /\ record.fresh
  /\ record' = [record EXCEPT !.fresh = FALSE]
  /\ UNCHANGED <<grants, signIn, credentials>>

-----------------------------------------------------------------------------
(* The callback.                                                            *)

\* Mutation: the scopes of the account are merged with those it had.
SaveTokensMerged(s) ==
  /\ signIn[s] = "granted"
  /\ record' = [grant |-> s, fresh |-> TRUE,
                scopes |-> grants[s].scopes \cup (IF record = NoRecord THEN {} ELSE record.scopes)]
  /\ signIn' = [signIn EXCEPT ![s] = "done"]
  /\ UNCHANGED <<grants, credentials>>

\* The document is replaced whole.  The refresh token read from the old one is
\* kept only when Google returns none, which it does not after a consent.
SaveTokens(s) ==
  /\ signIn[s] = "granted"
  /\ record' = [grant |-> s, scopes |-> grants[s].scopes, fresh |-> TRUE]
  /\ signIn' = [signIn EXCEPT ![s] = "done"]
  /\ UNCHANGED <<grants, credentials>>

\* A stage of the callback failed before the tokens were saved.
CallbackFails(s) ==
  /\ signIn[s] = "granted"
  /\ signIn' = [signIn EXCEPT ![s] = "done"]
  /\ UNCHANGED <<grants, record, credentials>>

-----------------------------------------------------------------------------
(* A request.  A new one may begin when it ended, for any purpose.          *)

Go(r, at) == credentials' = [credentials EXCEPT ![r].at = at]
End(r) == credentials' = [credentials EXCEPT ![r] = [at |-> "new", account |-> NoRecord]]

\* credentials_for_user: without an account, or without the required scopes,
\* the request is answered with a link to connect Google and changes nothing.
Build(r, required) ==
  /\ credentials[r].at = "new"
  /\ record # NoRecord /\ required \subseteq record.scopes
  /\ credentials' = [credentials EXCEPT ![r] =
       [at |-> IF record.fresh THEN "call" ELSE "refresh", account |-> record]]
  /\ UNCHANGED <<grants, record, signIn>>

\* Google answers, or fails in a way that says nothing about the grant.
CallEnds(r) ==
  /\ credentials[r].at = "call"
  /\ End(r)
  /\ UNCHANGED <<grants, record, signIn>>

\* The token got old during the request, or Google answers 401 (always when
\* the grant is revoked): google-auth refreshes.
CallRefreshes(r) ==
  /\ credentials[r].at = "call"
  /\ Go(r, "refresh")
  /\ UNCHANGED <<grants, record, signIn>>

Honoured(r) == grants[credentials[r].account.grant].state = "live"

\* Mutation: every error of the token endpoint means that the grant is gone.
RefreshAnswersHarshly(r) ==
  /\ credentials[r].at = "refresh"
  /\ Go(r, IF Honoured(r) THEN "save" ELSE "drop") \/ Go(r, "drop")
  /\ UNCHANGED <<grants, record, signIn>>

\* Mutation: invalid_grant is one more temporary failure.
RefreshAnswersMildly(r) ==
  /\ credentials[r].at = "refresh"
  /\ IF Honoured(r) THEN Go(r, "save") ELSE End(r)
  /\ UNCHANGED <<grants, record, signIn>>

\* The token endpoint issues a token, or says invalid_grant.
RefreshAnswers(r) ==
  /\ credentials[r].at = "refresh"
  /\ Go(r, IF Honoured(r) THEN "save" ELSE "drop")
  /\ UNCHANGED <<grants, record, signIn>>

\* An outage, a lost connection, a bad client secret: GoogleTokenRefreshFailed.
RefreshFails(r) ==
  /\ credentials[r].at = "refresh"
  /\ End(r)
  /\ UNCHANGED <<grants, record, signIn>>

\* _save_refreshed: the account as it was read, with the new access token.
SaveRefreshed(r) ==
  /\ credentials[r].at = "save"
  /\ record' = [credentials[r].account EXCEPT !.fresh = TRUE]
  /\ Go(r, "call")
  /\ UNCHANGED <<grants, signIn>>

\* _refresh_failure for a revoked grant: delete_by_user, GoogleTokenRevoked.
DropRecord(r) ==
  /\ credentials[r].at = "drop"
  /\ record' = NoRecord
  /\ End(r)
  /\ UNCHANGED <<grants, signIn>>

-----------------------------------------------------------------------------

GoogleStep ==
  \/ Expire
  \/ \E s \in SignIns : Revoke(s) \/ \E scopes \in SUBSET Scopes : Consent(s, scopes)
CallbackStep(s) == SaveTokens(s) \/ CallbackFails(s)
Asks(r) == \E required \in SUBSET Scopes : Identity \subseteq required /\ Build(r, required)
CredentialsStep(r) ==
  \/ Asks(r) \/ CallEnds(r) \/ CallRefreshes(r)
  \/ RefreshAnswers(r) \/ RefreshFails(r) \/ SaveRefreshed(r) \/ DropRecord(r)

GrantNext ==
  \/ GoogleStep
  \/ \E s \in SignIns : CallbackStep(s)
  \/ \E r \in Requests : CredentialsStep(r)

GrantSpec == GrantInit /\ [][GrantNext]_grantVars

-----------------------------------------------------------------------------
(* Properties.                                                              *)

\* The record "must describe the new token": whatever sign-ins, refreshes and
\* late writes leave behind, it never claims access that its tokens lack, or
\* the program would say yes and Google 403.
RecordClaimsNoMore ==
  record # NoRecord => record.scopes \subseteq grants[record.grant].scopes

\* An outage, a network failure or a bad client secret "must leave the record
\* alone": as long as Google honours every grant it gave, nobody loses theirs.
KeptWhileHonoured ==
  [][record # NoRecord /\ (\A s \in SignIns : grants[s].state # "revoked") => record' # NoRecord]_grantVars

\* A grant that Google no longer honours is found out: the record goes, and the
\* user is asked to connect again, or a working grant has taken its place.
RevokedIsNoticed ==
  record # NoRecord /\ grants[record.grant].state = "revoked"
    ~> record = NoRecord \/ grants[record.grant].state = "live"

\* "Only a revoked grant justifies dropping the stored record."
DroppedOnlyWhenRevoked ==
  [][record # NoRecord /\ record' = NoRecord => grants[record.grant].state = "revoked"]_grantVars
=============================================================================
