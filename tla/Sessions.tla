------------------------------ MODULE Sessions ------------------------------
(***************************************************************************)
(* The API's side of a sign-in: the documents of login tickets and of      *)
(* sessions, and the handlers of ticket exchange, session check and logout *)
(* (LoginTicketService and SessionService in core/saas/services.py over    *)
(* core/saas/adapters/firestore.py).                                       *)
(*                                                                         *)
(* A document lives until it is used (ticket) or revoked (session); it is  *)
(* read once to be checked, and read again and set as a whole to change    *)
(* one field, without a transaction.  A handler runs on when the client    *)
(* has stopped waiting for it.  Users stay active.                         *)
(***************************************************************************)
CONSTANTS
  Tickets,    \* login tickets that sign-ins bring back
  SessionIds, \* sessions there may be
  Calls,      \* threads of the API
  MayExpire,  \* documents that get old before all is over
  Nothing     \* no ticket, session or call

ASSUME SessionsAssumption ==
  /\ Tickets \cap SessionIds = {}
  /\ MayExpire \subseteq Tickets \cup SessionIds
  /\ Nothing \notin Tickets \cup SessionIds \cup Calls

VARIABLES
  document,  \* document[d]: "none", "live", or "ended" (used_at or revoked_at is set)
  expired,   \* documents past their expires_at
  call       \* call[c]: the request a thread handles

apiVars == <<document, expired, call>>

Documents == Tickets \cup SessionIds
Stages == {"idle", "reread", "write", "create"}
Answers == {"yes", "no", "error"}
Handlers == [op : {"exchange", "validate", "logout"}, on : Documents, at : Stages \cup Answers,
             copy : {"none", "live", "ended"}, awaited : BOOLEAN]
Idle == [op |-> "validate", on |-> Nothing, at |-> "idle", copy |-> "none",
         awaited |-> FALSE]

ApiTypeOK ==
  /\ document \in [Documents -> {"none", "live", "ended"}]
  /\ expired \subseteq Documents
  /\ call \in [Calls -> Handlers \cup {Idle}]

ApiInit ==
  /\ document = [d \in Documents |-> "none"]
  /\ expired = {}
  /\ call = [c \in Calls |-> Idle]

\* Ten minutes, or thirty days.
Expire(d) ==
  /\ d \in MayExpire \ expired /\ document[d] = "live"
  /\ expired' = expired \cup {d}
  /\ UNCHANGED <<document, call>>

\* The answer is lost when nobody waits for it any more.
Answered(handler, answer, d) ==
  IF handler.awaited THEN [handler EXCEPT !.at = answer, !.on = d, !.copy = "none"] ELSE Idle
Answer(c, answer, d) == call' = [call EXCEPT ![c] = Answered(@, answer, d)]

\* A request arrives; the handler reads its clock, gets the document and checks
\* it.  A logout asks only that the session is known, and answers ok if not.
Request(c, op, d) ==
  LET handler == [op |-> op, on |-> d, at |-> "write", copy |-> "none", awaited |-> TRUE]
      valid == document[d] = "live" /\ d \notin expired IN
  /\ call[c] = Idle
  /\ call' = [call EXCEPT ![c] =
       CASE op = "logout"   -> IF document[d] = "none" THEN Answered(handler, "yes", d) ELSE handler
         [] op = "exchange" -> IF valid THEN handler ELSE Answered(handler, "no", d)
         [] op = "validate" -> IF valid THEN [handler EXCEPT !.at = "reread"]
                                        ELSE Answered(handler, "no", d)]

\* touch reads the document again.  So do mark_used and revoke, but nothing they
\* read can differ beside the field they set.
Reread(c) ==
  /\ call[c].at = "reread"
  /\ call' = [call EXCEPT ![c].at = "write", ![c].copy = document[call[c].on]]
  /\ UNCHANGED <<document, expired>>

\* The document is set: touch keeps what it has read beside last_seen_at.
Written(c) == IF call[c].op = "validate" THEN call[c].copy ELSE "ended"
Write(c) ==
  /\ call[c].at = "write"
  /\ document' = [document EXCEPT ![call[c].on] = Written(c)]
  /\ IF call[c].op = "exchange" THEN call' = [call EXCEPT ![c].at = "create"]
                                ELSE Answer(c, "yes", call[c].on)
  /\ UNCHANGED expired

\* The exchange ends with a new session.
Create(c) ==
  /\ call[c].at = "create"
  /\ \E s \in SessionIds :
       /\ document[s] = "none"
       /\ document' = [document EXCEPT ![s] = "live"]
       /\ Answer(c, "yes", s)
  /\ UNCHANGED expired

\* A remote call of the handler fails: 500.
Fail(c) ==
  /\ call[c].at \in Stages \ {"idle"}
  /\ Answer(c, "error", call[c].on)
  /\ UNCHANGED <<document, expired>>

Handle(c) == Reread(c) \/ Write(c) \/ Create(c)
=============================================================================
