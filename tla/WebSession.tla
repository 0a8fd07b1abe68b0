----------------------------- MODULE WebSession -----------------------------
(***************************************************************************)
(* Staying signed in, over page loads and reruns: the tabs of a browser    *)
(* (ui/components/auth_widget.py, one Streamlit session state per page     *)
(* load), the cookie they share, and the API of module Sessions.           *)
(*                                                                         *)
(* The script of a tab runs from the top on every interaction and waits    *)
(* for its calls to the API, but no longer than its timeout.  The cookie   *)
(* is read and written by components in the page: a tab sees what its page *)
(* has reported, and a write or a delete waits in session state until the  *)
(* browser has confirmed it.                                               *)
(***************************************************************************)
EXTENDS Sessions, Integers, Sequences

CONSTANTS
  Tabs,
  MaxRetries,  \* SESSION_RESTORE_MAX_RETRIES
  MaxSignedOut,\* sessions that a tab keeps in mind to have signed out from (five)
  Delete       \* in the place of a session to write: the cookie is to be deleted

ASSUME RetriesAssumption == MaxRetries \in Nat
ASSUME SignedOutAssumption == MaxSignedOut \in Nat \ {0}
ASSUME DeleteAssumption == Delete \notin SessionIds \cup {Nothing}

VARIABLES
  tab,     \* tab[t]: the session state of t, what its script waits for, its page
  cookie,  \* the session that the cookie names
  slow,    \* the API may fail and may miss the timeouts of its clients
  left     \* history: the sessions that a tab has logged out from

vars == <<apiVars, tab, cookie, slow, left>>

MaybeSession == SessionIds \cup {Nothing}

TabStates == [
  at        : {"closed", "ready", "restore", "again", "exchange", "check", "logout"},
  call      : Calls \cup {Nothing},
  ticket    : Tickets \cup {Nothing},                     \* login_ticket in the address
  session   : MaybeSession,                               \* saas_session_id
  fresh     : BOOLEAN,                                    \* checked in the last 30 s
  retries   : 0..MaxRetries,                              \* saas_session_retries
  queue     : MaybeSession \cup {Delete},                 \* saas_cookie_write or _delete
  signedOut : Seq(SessionIds),                            \* saas_signed_out_sessions
  reported  : MaybeSession,                               \* the cookie, as reported
  out       : SUBSET SessionIds]     \* history: all it signed out from since its load

\* Nothing in the session state yet, and no report.
Page(at, ticket) ==
  [at |-> at, call |-> Nothing, ticket |-> ticket, session |-> Nothing, fresh |-> FALSE,
   retries |-> 0, queue |-> Nothing, signedOut |-> <<>>, reported |-> Nothing, out |-> {}]

TypeOK ==
  /\ ApiTypeOK
  /\ tab \in [Tabs -> TabStates]
  /\ cookie \in MaybeSession
  /\ slow \in BOOLEAN
  /\ left \subseteq SessionIds

Init ==
  /\ ApiInit
  /\ tab = [t \in Tabs |-> Page("closed", Nothing)]
  /\ cookie = Nothing
  /\ slow = TRUE
  /\ left = {}

-----------------------------------------------------------------------------
(* The browser and the user.                                                *)

\* A page load; a call that was under way runs on.
Load(t, ticket) ==
  /\ tab' = [tab EXCEPT ![t] = Page("ready", ticket)]
  /\ call' = IF tab[t].call = Nothing THEN call
             ELSE [call EXCEPT ![tab[t].call] = IF @.at \in Answers THEN Idle ELSE [@ EXCEPT !.awaited = FALSE]]

\* The callback of a Google sign-in sends the browser to the app.
SignIn(t, k) ==
  /\ document[k] = "none"
  /\ document' = [document EXCEPT ![k] = "live"]
  /\ Load(t, k)
  /\ UNCHANGED <<expired, cookie, slow, left>>

\* The app opened anew; a run of its own has taken the ticket from the address.
Open(t) ==
  /\ Load(t, Nothing)
  /\ UNCHANGED <<document, expired, cookie, slow, left>>

\* The cookie component answers, on a page load or when it is rendered anew.
Report(t) ==
  /\ tab[t].at # "closed"
  /\ tab' = [tab EXCEPT ![t].reported = cookie]
  /\ UNCHANGED <<apiVars, cookie, slow, left>>

\* The browser carries out what the page has rendered, and confirms it; that
\* makes the script run, and cookie.sync drop the entry.
CarryOut(t) ==
  /\ tab[t].queue # Nothing
  /\ cookie' = IF tab[t].queue = Delete THEN Nothing ELSE tab[t].queue
  /\ tab' = [tab EXCEPT ![t].queue = Nothing]
  /\ UNCHANGED <<apiVars, slow, left>>

\* _SAAS_VALIDATE_TTL_SECONDS pass.
GrowStale(t) ==
  /\ tab[t].fresh
  /\ tab' = [tab EXCEPT ![t].fresh = FALSE]
  /\ UNCHANGED <<apiVars, cookie, slow, left>>

Recover ==
  /\ slow
  /\ slow' = FALSE
  /\ UNCHANGED <<apiVars, tab, cookie, left>>

-----------------------------------------------------------------------------
(* One run of the script, as far as the session goes.                       *)

\* The sessions that the tab knows it has signed out from.
InMind(page) == {page.signedOut[i] : i \in 1..Len(page.signedOut)}

\* Mutation: what the component reports is believed after a sign-out.
ReadableStale(page) == page.reported

\* _SessionCookie.read.
Readable(page) == IF page.reported \in InMind(page) THEN Nothing ELSE page.reported

\* The session of the tab, or the one that the cookie names unless signing out.
Candidate(page) ==
  IF page.session # Nothing THEN page.session
  ELSE IF page.queue = Delete THEN Nothing ELSE Readable(page)

\* The rest of _restore_saas_session once there is no ticket.
Restore(t) ==
  LET page == tab[t]
      candidate == Candidate(page) IN
  IF page.fresh \/ candidate = Nothing
  THEN /\ tab' = [tab EXCEPT ![t] = [page EXCEPT !.at = "ready"]]
       /\ UNCHANGED call
  ELSE \E c \in Calls :
         /\ Request(c, "validate", candidate)
         /\ tab' = [tab EXCEPT ![t] = [page EXCEPT !.at = "check", !.call = c]]

Run(t) ==
  /\ tab[t].at \in {"ready", "again", "restore"}
  /\ IF tab[t].ticket # Nothing
     THEN \E c \in Calls :
            /\ Request(c, "exchange", tab[t].ticket)
            /\ tab' = [tab EXCEPT ![t].at = "exchange", ![t].call = c]
     ELSE Restore(t)
  /\ UNCHANGED <<document, expired, cookie, slow, left>>

\* A click, or a revoked grant or a 401 that a page meets.  It comes after the
\* session was restored in the same run.
Logout(t) ==
  /\ tab[t].at = "ready" /\ tab[t].fresh
  /\ \E c \in Calls :
       /\ Request(c, "logout", tab[t].session)
       /\ tab' = [tab EXCEPT ![t].at = "logout", ![t].call = c]
  /\ left' = left \cup {tab[t].session}
  /\ UNCHANGED <<document, expired, cookie, slow>>

\* _remember_saas_session.
Remembered(page, s) == [page EXCEPT !.session = s, !.fresh = TRUE, !.at = "ready", !.call = Nothing]

\* Mutation: the first few are kept in mind.
LatestFirst(q) == IF Len(q) <= MaxSignedOut THEN q ELSE SubSeq(q, 1, MaxSignedOut)

\* Only the last few are kept in mind.
Latest(q) == IF Len(q) <= MaxSignedOut THEN q ELSE SubSeq(q, Len(q) - MaxSignedOut + 1, Len(q))

\* _clear_saas_session: the cookie delete replaces a write that still waits.
Cleared(page, s) ==
  [page EXCEPT !.session = Nothing, !.fresh = FALSE, !.at = "ready", !.call = Nothing,
               !.signedOut = Latest(Append(@, s)), !.queue = Delete,
               !.out = @ \cup {s}]

Exchanged(page, answer, s) ==
  IF answer = "yes"
  THEN [Remembered(page, s) EXCEPT !.ticket = Nothing, !.queue = s]
  ELSE [page EXCEPT !.ticket = Nothing, !.at = "restore", !.call = Nothing]

\* Mutation: an invalid session is one more failure of the API.
CheckedPatiently(page, answer, s) ==
  IF answer = "yes" THEN [Remembered(page, s) EXCEPT !.retries = 0]
                    ELSE [page EXCEPT !.retries = 0, !.at = "ready", !.call = Nothing]

Checked(page, answer, s) ==
  CASE answer = "yes"   -> [Remembered(page, s) EXCEPT !.retries = 0]
    [] answer = "no"    -> [Cleared(page, s) EXCEPT !.retries = 0]
    [] answer = "error" -> Cleared(page, s)

\* Mutation: no answer is taken for an invalid session.
UnansweredAsNo(page) == [Cleared(page, page.session) EXCEPT !.retries = 0]

\* Mutation: the retries are not counted.
UnansweredForEver(page) == [page EXCEPT !.at = "again", !.call = Nothing]

\* Mutation: one retry too many.
UnansweredOnceMore(page) ==
  IF page.retries <= MaxRetries
  THEN [page EXCEPT !.retries = @ + 1, !.at = "again", !.call = Nothing]
  ELSE [page EXCEPT !.retries = 0, !.at = "ready", !.call = Nothing]

\* _retry_session_check_or_give_up: sleep and rerun, or show the login screen.
Unanswered(page) ==
  IF page.retries < MaxRetries
  THEN [page EXCEPT !.retries = @ + 1, !.at = "again", !.call = Nothing]
  ELSE [page EXCEPT !.retries = 0, !.at = "ready", !.call = Nothing]

\* The API is asked to log out first; whatever it says, the tab forgets.
LoggedOut(page) == [Cleared(page, page.session) EXCEPT !.retries = 0]

\* The answer of the API comes in time.
Receive(t) ==
  LET c == tab[t].call
      page == tab[t] IN
  /\ c # Nothing /\ call[c].at \in Answers
  /\ tab' = [tab EXCEPT ![t] =
       CASE page.at = "exchange" -> Exchanged(page, call[c].at, call[c].on)
         [] page.at = "check"    -> Checked(page, call[c].at, call[c].on)
         [] page.at = "logout"   -> LoggedOut(page)]
  /\ call' = [call EXCEPT ![c] = Idle]
  /\ UNCHANGED <<document, expired, cookie, slow, left>>

\* No answer in time, or a proxy answers that there is no API.
Miss(t) ==
  LET c == tab[t].call
      page == tab[t] IN
  /\ slow /\ c # Nothing
  /\ tab' = [tab EXCEPT ![t] =
       CASE page.at = "exchange" -> Exchanged(page, "error", Nothing)
         [] page.at = "check"    -> Unanswered(page)
         [] page.at = "logout"   -> LoggedOut(page)]
  /\ call' = [call EXCEPT ![c] = IF @.at \in Answers THEN Idle ELSE [@ EXCEPT !.awaited = FALSE]]
  /\ UNCHANGED <<document, expired, cookie, slow, left>>

-----------------------------------------------------------------------------

Api(c) ==
  \/ Handle(c) /\ UNCHANGED <<tab, cookie, slow, left>>
  \/ slow /\ Fail(c) /\ UNCHANGED <<tab, cookie, slow, left>>
Browser(t) ==
  \/ \E k \in Tickets : SignIn(t, k)
  \/ Open(t) \/ Report(t) \/ CarryOut(t) \/ GrowStale(t)
Script(t) == Run(t) \/ Logout(t) \/ Receive(t) \/ Miss(t)

Next ==
  \/ \E c \in Calls : Api(c)
  \/ \E d \in Documents : Expire(d) /\ UNCHANGED <<tab, cookie, slow, left>>
  \/ \E t \in Tabs : Browser(t) \/ Script(t)
  \/ Recover

Spec == Init /\ [][Next]_vars

(***************************************************************************)
(* Handlers go on, the script runs again and again (pages rerun on a timer *)
(* and on every interaction), and takes an answer that has come.           *)
(***************************************************************************)
FairSpec ==
  /\ Spec
  /\ \A c \in Calls : WF_vars(Handle(c) /\ UNCHANGED <<tab, cookie, slow, left>>)
  /\ \A t \in Tabs : SF_vars(Run(t)) /\ WF_vars(Receive(t)) /\ WF_vars(GrowStale(t))

-----------------------------------------------------------------------------
(* Properties.                                                              *)

\* The cookie component "may still report the old value until the page reloads,
\* and it must not sign the tab in again": whatever the API answered or missed,
\* a tab does not take up again a session that it has signed out from since its
\* page was loaded, not even one that is no longer among the few in its mind.
SignedOutStaysOut == \A t \in Tabs : tab[t].session \notin tab[t].out

\* The same over tabs, cookie and documents that are well formed: the retries of a
\* tab end at MAX_SESSION_CHECK_RETRIES, and so on.
TabsAreSound == TypeOK /\ SignedOutStaysOut

\* "Callers must not drop the stored session on None": short of an error of the
\* API, a page forgets its session only when it expired or was logged out from.
Forgets(t) ==
  /\ tab[t].session # Nothing /\ tab'[t].session = Nothing
  /\ tab'[t] # Page("ready", tab'[t].ticket)
ApiFailed(t) == tab[t].call # Nothing /\ call[tab[t].call].at = "error"
NoNeedlessSignOut ==
  [][\A t \in Tabs : Forgets(t) =>
       ApiFailed(t) \/ tab[t].session \in left \cup expired]_vars

\* A session that is revoked, with no check under way that has read it before,
\* is let go of by every tab for good, once the API answers again.
ReadBefore(c, s) == call[c].on = s /\ call[c].at = "write" /\ call[c].copy = "live"
RevokedIsLetGo ==
  \A s \in SessionIds :
    ~slow /\ document[s] = "ended" /\ (\A c \in Calls : ~ReadBefore(c, s))
      ~> [](\A t \in Tabs : tab[t].session # s)

\* No run of the script hangs: not in its calls, and not in retrying them, even
\* if the API never answers in time again.
EveryRunEnds ==
  \A t \in Tabs : tab[t].at \notin {"closed", "ready"} ~> tab[t].at = "ready"

\* "The API call goes first so the server-side session is gone even if local
\* cleanup fails": a revoked session stays revoked.
RevokedForGood ==
  [][\A s \in SessionIds : document[s] = "ended" => document'[s] = "ended"]_vars
=============================================================================
