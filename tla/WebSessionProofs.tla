-------------------------- MODULE WebSessionProofs --------------------------
(***************************************************************************)
(* Proofs about WebSession, for any number of tabs, sessions and threads.  *)
(* That a tab keeps out of the sessions it has signed out from, and forgets*)
(* one only for a reason, rests on what the API's threads hold while the   *)
(* tab waits: on which document each works, and why it was refused.  That  *)
(* it stays out although it keeps only a few of them in mind rests on the  *)
(* cookie: a session that still waits to be written is its tab's own, so   *)
(* the cookie never names again what was signed out from once the delete   *)
(* was carried out, and no other session is taken up before.               *)
(***************************************************************************)
EXTENDS WebSession, TLAPS

Busy(c) == call[c].at # "idle"

\* What a page waits for at a stage of its script.
Awaits(at) ==
  CASE at = "exchange" -> "exchange"
    [] at = "check"    -> "validate"
    [] at = "logout"   -> "logout"
    [] OTHER           -> "nothing"

\* The sessions that a page knows of, or has known; with the one it waits for.
Known(page) == SessionIds \cap ({page.session, page.queue, page.reported} \cup page.out)
Holds(t) == Known(tab[t]) \cup {call[c].on : c \in Calls \cap {tab[t].call}}

\* A thread works on a document of the right kind; a logout, and a touch that has
\* read of one, are on a session that was left, and a refusal has its reason.
HandlerIsWell(c) ==
  Busy(c) =>
    /\ call[c].on \in SessionIds => document[call[c].on] # "none"
    /\ call[c].op = "exchange" =>
         call[c].on \in (IF call[c].at = "yes" THEN SessionIds ELSE Tickets)
    /\ call[c].op # "exchange" => call[c].on \in SessionIds /\ call[c].at # "create"
    /\ call[c].op = "logout" => call[c].on \in left
    /\ call[c].op = "validate" =>
         /\ call[c].at = "write" => call[c].copy # "none"
         /\ call[c].copy = "ended" => call[c].on \in left
         /\ call[c].at = "no" => call[c].on \in left \cup expired

\* A page that has a session, or waits for an answer, is done with the delete of
\* the last one, and its report is of a session it has not signed out from.
IsDone(page) == page.queue # Delete /\ page.reported \notin page.out

\* A page waits for a thread that works for it, on a session it may take up; what
\* it has signed out from it keeps in mind as long as its report names it.
PageIsWell(page) ==
  /\ page.call = Nothing <=> Awaits(page.at) = "nothing"
  /\ page.call # Nothing =>
       /\ Busy(page.call) /\ call[page.call].awaited
       /\ call[page.call].op = Awaits(page.at)
       /\ page.at # "logout" => call[page.call].on \notin page.out
       /\ page.at = "check" /\ page.session # Nothing => call[page.call].on = page.session
       /\ page.at = "logout" => page.session \in left
       /\ page.at = "exchange" => page.ticket # Nothing
       /\ IsDone(page)
  /\ page.ticket # Nothing =>
       page.out = {} /\ page.queue # Delete /\ page.session = Nothing /\ page.at \notin {"check", "logout"}
  /\ page.fresh => page.session # Nothing
  /\ page.session # Nothing => IsDone(page)
  /\ page.session \notin page.out
  /\ page.reported \in page.out => page.reported \in InMind(page)
  /\ \A s \in Known(page) : document[s] # "none"

\* What a page has signed out from is in the cookie only while it is the page's to
\* delete, and kept in mind.
IsPast(page) ==
  \A s \in page.out : page.queue # Delete \/ s \notin InMind(page) => cookie # s

\* A session that the page of t has yet to write to the cookie is its own.
IsOwn(t, page) ==
  page.queue \in SessionIds =>
    /\ cookie # page.queue /\ page.reported # page.queue /\ page.queue \notin page.out
    /\ \A u \in Tabs \ {t} : page.queue \notin Holds(u)

\* A session that an exchange has just created is nobody's.
Exchange(c) == Busy(c) /\ call[c].op = "exchange" /\ call[c].at = "yes"
IsNobodys(c) ==
  Exchange(c) =>
    /\ cookie # call[c].on
    /\ \A t \in Tabs : call[c].on \notin Known(tab[t])
    /\ \A d \in Calls \ {c} : Busy(d) => call[d].on # call[c].on

HandlersAreWell == \A c \in Calls : HandlerIsWell(c)
PagesAreWell == \A t \in Tabs : PageIsWell(tab[t])
CallsAreApart == \A t, u \in Tabs : tab[t].call = tab[u].call /\ tab[t].call # Nothing => t = u
CookieIsKnown == cookie # Nothing => document[cookie] # "none"
EndedIsLeft == \A s \in SessionIds : document[s] = "ended" => s \in left
PastIsPast == \A t \in Tabs : IsPast(tab[t])
WritesAreOwn == \A t \in Tabs : IsOwn(t, tab[t])
NewIsNobodys == \A c \in Calls : IsNobodys(c)

SessionInv ==
  /\ TypeOK
  /\ HandlersAreWell
  /\ PagesAreWell
  /\ CallsAreApart
  /\ CookieIsKnown
  /\ EndedIsLeft
  /\ PastIsPast
  /\ WritesAreOwn
  /\ NewIsNobodys

-----------------------------------------------------------------------------
LEMMA InitSessionInv == Init => SessionInv
<1>. SUFFICES ASSUME Init PROVE SessionInv
  OBVIOUS
<1>1. TypeOK
  BY SessionsAssumption, RetriesAssumption
  DEF Init, ApiInit, TypeOK, ApiTypeOK, Page, TabStates, MaybeSession
<1>2. HandlersAreWell /\ EndedIsLeft /\ CookieIsKnown
  BY DEF Init, ApiInit, HandlersAreWell, HandlerIsWell, Busy, Idle, EndedIsLeft, CookieIsKnown, Documents
<1>3. PagesAreWell /\ CallsAreApart
  BY SessionsAssumption DEF Init, Page, PagesAreWell, PageIsWell, CallsAreApart, Awaits, Known
<1>4. PastIsPast /\ WritesAreOwn /\ NewIsNobodys
  BY SessionsAssumption DEF Init, ApiInit, Idle, Page, PastIsPast, IsPast, WritesAreOwn, IsOwn,
                            NewIsNobodys, IsNobodys, Exchange, Busy
<1>. QED
  BY <1>1, <1>2, <1>3, <1>4 DEF SessionInv

\* What the types say of one thread and of one page.
LEMMA OneThread ==
  ASSUME TypeOK, NEW c \in Calls
  PROVE  /\ call[c] = Idle \/ call[c] \in Handlers
         /\ Busy(c) => call[c] \in Handlers /\ call[c].on \in Documents
         /\ call[c].at \in Stages \cup Answers
         /\ c # Nothing
  BY SessionsAssumption DEF TypeOK, ApiTypeOK, Handlers, Idle, Busy, Stages, Answers

LEMMA OnePage ==
  ASSUME TypeOK, NEW t \in Tabs
  PROVE  tab[t] \in TabStates
  BY DEF TypeOK

-----------------------------------------------------------------------------
(* The threads of the API.                                                  *)

\* A thread that goes on for a page that waits keeps to its request, or has
\* created a session that no page knows of.
GoesOn(c) ==
  call[c].awaited =>
    /\ call'[c].at # "idle" /\ call'[c].awaited
    /\ call'[c].op = call[c].op
    /\ \/ call'[c].on = call[c].on
       \/ /\ call[c].op = "exchange"
          /\ call'[c].on \in SessionIds /\ document[call'[c].on] = "none"

\* A thread that is not done stays with its document, or has created a session.
WorksOn(c) ==
  Busy(c)' =>
    /\ call'[c].on = call[c].on \/ (call'[c].on \in SessionIds /\ document[call'[c].on] = "none")
    /\ Exchange(c)' => call'[c].on \in SessionIds /\ document[call'[c].on] = "none"

LEMMA ThreadKeeps ==
  ASSUME SessionInv, TypeOK', UNCHANGED <<tab, cookie, left>>, NEW c \in Calls,
         \A d \in Calls \ {c} : call'[d] = call[d],
         expired \subseteq expired',
         \A s \in SessionIds : document[s] # "none" => document'[s] # "none",
         \A s \in SessionIds : document'[s] = "ended" => s \in left,
         HandlerIsWell(c)', Busy(c), GoesOn(c), WorksOn(c)
  PROVE  SessionInv'
<1>1. HandlersAreWell'
  <2>. SUFFICES ASSUME NEW d \in Calls, d # c PROVE HandlerIsWell(d)'
    BY DEF HandlersAreWell
  <2>. QED
    BY DEF SessionInv, HandlersAreWell, HandlerIsWell, Busy
<1>2. PagesAreWell'
  <2>. SUFFICES ASSUME NEW t \in Tabs PROVE PageIsWell(tab[t])'
    BY DEF PagesAreWell
  <2>0. PageIsWell(tab[t]) /\ tab'[t] = tab[t]
    BY DEF SessionInv, PagesAreWell
  <2>1. (\A s \in Known(tab[t]) : document'[s] # "none") /\ tab[t].out \subseteq Known(tab[t])
    BY <2>0, OnePage DEF SessionInv, TabStates, PageIsWell, Known
  <2>2. CASE tab[t].call # c
    <3>1. tab[t].call # Nothing => tab[t].call \in Calls
      BY OnePage DEF SessionInv, TabStates
    <3>. QED
      BY <2>0, <2>1, <2>2, <3>1 DEF PageIsWell, Known, Busy, IsDone, InMind
  <2>3. CASE tab[t].call = c
    <3>1. c # Nothing
      BY SessionsAssumption
    <3>2. GoesOn(c) /\ call[c].awaited
      BY <2>0, <2>3, <3>1 DEF PageIsWell
    <3>3. ASSUME call'[c].on # call[c].on, tab[t].at # "logout"
          PROVE  tab[t].at # "check" /\ call'[c].on \notin tab[t].out
      <4>1. call[c].op = "exchange" /\ document[call'[c].on] = "none" /\ call'[c].on \in SessionIds
        BY <3>2, <3>3 DEF GoesOn
      <4>2. Awaits(tab[t].at) = "exchange"
        BY <4>1, <2>0, <2>3, <3>1 DEF PageIsWell
      <4>. QED
        BY <4>1, <4>2, <2>0, <2>1 DEF PageIsWell, Awaits
    <3>. QED
      BY <2>0, <2>1, <2>3, <3>1, <3>2, <3>3 DEF PageIsWell, Known, Busy, GoesOn, IsDone, InMind
  <2>. QED
    BY <2>2, <2>3
<1>3. CallsAreApart' /\ EndedIsLeft'
  BY DEF SessionInv, CallsAreApart, EndedIsLeft
<1>4. CookieIsKnown' /\ PastIsPast'
  BY DEF SessionInv, CookieIsKnown, TypeOK, MaybeSession, PastIsPast, IsPast, InMind
<1>5. ASSUME NEW s \in SessionIds, document[s] = "none"
      PROVE  /\ cookie # s /\ \A t \in Tabs : s \notin Known(tab[t])
             /\ \A d \in Calls : Busy(d) => call[d].on # s
  BY <1>5, SessionsAssumption
  DEF SessionInv, CookieIsKnown, PagesAreWell, PageIsWell, HandlersAreWell, HandlerIsWell
<1>6. WritesAreOwn'
  <2>. SUFFICES ASSUME NEW t \in Tabs, tab[t].queue \in SessionIds, NEW u \in Tabs \ {t}
                PROVE  tab[t].queue \notin Holds(u)'
    BY DEF WritesAreOwn, SessionInv, IsOwn
  <2>. DEFINE q == tab[t].queue
  <2>1. q \notin Holds(u) /\ document[q] # "none" /\ PageIsWell(tab[u])
    BY DEF WritesAreOwn, SessionInv, IsOwn, PagesAreWell, PageIsWell, Known
  <2>2. Known(tab[u])' = Known(tab[u])
    BY DEF Known
  <2>3. ASSUME NEW d \in Calls, d = tab[u].call PROVE q # call'[d].on
    <3>1. d # Nothing /\ call[d].on # q
      BY <2>1, <2>3, SessionsAssumption DEF Holds
    <3>2. d = c => Busy(c)' /\ (call'[c].on = call[c].on \/ document[call'[c].on] = "none")
      BY <2>1, <2>3, <3>1 DEF PageIsWell, GoesOn, Busy
    <3>. QED
      BY <2>1, <3>1, <3>2
  <2>. QED
    BY <2>1, <2>2, <2>3 DEF Holds
<1>7. NewIsNobodys'
  <2>. SUFFICES ASSUME NEW d \in Calls, Exchange(d)' PROVE IsNobodys(d)'
    BY DEF NewIsNobodys, IsNobodys
  <2>0. \A t \in Tabs : Known(tab[t])' = Known(tab[t])
    BY DEF Known
  <2>1. CASE d = c
    <3>1. call'[c].on \in SessionIds /\ document[call'[c].on] = "none"
      BY <2>1 DEF WorksOn, Exchange
    <3>2. \A e \in Calls \ {c} : Busy(e)' => Busy(e) /\ call'[e].on = call[e].on
      BY DEF Busy
    <3>. QED
      BY <1>5, <2>0, <2>1, <3>1, <3>2 DEF IsNobodys
  <2>2. CASE d # c
    <3>1. call'[d] = call[d] /\ Exchange(d) /\ IsNobodys(d) /\ HandlerIsWell(d)
      BY <2>2 DEF SessionInv, NewIsNobodys, HandlersAreWell, Exchange, Busy
    <3>2. call[d].on \in SessionIds /\ document[call[d].on] # "none"
      BY <3>1 DEF HandlerIsWell, Exchange
    <3>3. Busy(c)' => call'[c].on # call[d].on
      BY <2>2, <3>1, <3>2 DEF WorksOn, IsNobodys
    <3>4. \A e \in Calls \ {c} : Busy(e)' => Busy(e) /\ call'[e].on = call[e].on
      BY DEF Busy
    <3>. QED
      BY <2>0, <2>2, <3>1, <3>3, <3>4 DEF IsNobodys
  <2>. QED
    BY <2>1, <2>2
<1>. QED
  BY <1>1, <1>2, <1>3, <1>4, <1>6, <1>7 DEF SessionInv

\* An answer is as good as what it says, and nobody is left waiting for it.
LEMMA AnsweredIsWell ==
  ASSUME SessionInv, NEW c \in Calls, Busy(c), NEW answer \in Answers, NEW d \in Documents,
         Answer(c, answer, d)
  PROVE  /\ call' \in [Calls -> Handlers \cup {Idle}]
         /\ \A b \in Calls \ {c} : call'[b] = call[b]
         /\ ~call[c].awaited => call'[c] = Idle
         /\ call[c].awaited =>
              /\ call'[c].at = answer /\ call'[c].on = d /\ call'[c].copy = "none"
              /\ call'[c].op = call[c].op /\ call'[c].awaited
<1>1. call[c] \in Handlers /\ call \in [Calls -> Handlers \cup {Idle}]
  BY OneThread DEF SessionInv, TypeOK, ApiTypeOK
<1>2. Answered(call[c], answer, d) \in Handlers \cup {Idle}
  BY <1>1 DEF Answered, Handlers, Answers
<1>. QED
  BY <1>1, <1>2 DEF Answer, Answered, Handlers

LEMMA ApiKeeps ==
  ASSUME SessionInv, NEW c \in Calls, Api(c)
  PROVE  SessionInv'
<1>0. UNCHANGED <<tab, cookie, slow, left>> /\ (Reread(c) \/ Write(c) \/ Create(c) \/ Fail(c))
  BY DEF Api, Handle
<1>1. HandlerIsWell(c) /\ TypeOK
  BY DEF SessionInv, HandlersAreWell
<1>2. CASE Reread(c)
  <2>1. /\ call'[c] = [call[c] EXCEPT !.at = "write", !.copy = document[call[c].on]]
        /\ \A d \in Calls \ {c} : call'[d] = call[d]
    BY <1>1, <1>2 DEF Reread, TypeOK, ApiTypeOK
  <2>2. Busy(c) /\ call[c] \in Handlers /\ document[call[c].on] \in {"none", "live", "ended"}
    BY <1>1, <1>2, OneThread DEF Reread, Busy, TypeOK, ApiTypeOK
  <2>3. call'[c] \in Handlers
    BY <2>1, <2>2 DEF Handlers, Stages
  <2>4. TypeOK'
    BY <1>0, <1>1, <1>2, <2>3 DEF Reread, TypeOK, ApiTypeOK
  <2>5. HandlerIsWell(c)'
    <3>1. /\ call'[c].op = call[c].op /\ call'[c].on = call[c].on
          /\ call'[c].at = "write" /\ call'[c].copy = document[call[c].on]
      BY <2>1, <2>2 DEF Handlers
    <3>0. call[c].at = "reread" /\ document' = document /\ left' = left
      BY <1>0, <1>2 DEF Reread
    <3>2. /\ call[c].on \in SessionIds => document[call[c].on] # "none"
          /\ call[c].op = "exchange" => call[c].on \in Tickets
          /\ call[c].op # "exchange" => call[c].on \in SessionIds
          /\ call[c].op = "logout" => call[c].on \in left
      BY <1>1, <2>2, <3>0 DEF HandlerIsWell
    <3>3. call[c].on \in SessionIds /\ document[call[c].on] = "ended" => call[c].on \in left
      BY DEF SessionInv, EndedIsLeft
    <3>. QED
      BY <3>0, <3>1, <3>2, <3>3, <2>2 DEF HandlerIsWell, Busy
  <2>6. GoesOn(c) /\ WorksOn(c)
    BY <2>1, <2>2 DEF GoesOn, WorksOn, Exchange, Busy, Handlers
  <2>. QED
    BY <1>0, <1>2, <2>1, <2>2, <2>4, <2>5, <2>6, ThreadKeeps DEF Reread, SessionInv, EndedIsLeft
<1>3. CASE Write(c)
  <2>1. Busy(c) /\ call[c] \in Handlers /\ call[c].on \in Documents
    BY <1>1, <1>3, OneThread DEF Write, Busy
  <2>2. Written(c) \in {"live", "ended"} /\ (Written(c) = "ended" /\ call[c].on \in SessionIds => call[c].on \in left)
    BY <1>1, <1>3, <2>1, SessionsAssumption DEF Written, Write, HandlerIsWell, Handlers
  <2>3. document' \in [Documents -> {"none", "live", "ended"}]
    BY <1>1, <1>3, <2>1, <2>2 DEF Write, TypeOK, ApiTypeOK
  <2>4. /\ \A s \in SessionIds : document[s] # "none" => document'[s] # "none"
        /\ \A s \in SessionIds : document'[s] = "ended" => s \in left
        /\ document'[call[c].on] # "none"
    BY <1>1, <1>3, <2>1, <2>2 DEF Write, TypeOK, ApiTypeOK, SessionInv, EndedIsLeft, Documents
  <2>5. CASE call[c].op = "exchange"
    <3>1. /\ call'[c] = [call[c] EXCEPT !.at = "create"]
          /\ \A d \in Calls \ {c} : call'[d] = call[d]
      BY <1>1, <1>3, <2>5 DEF Write, TypeOK, ApiTypeOK
    <3>2. call'[c] \in Handlers
      BY <3>1, <2>1 DEF Handlers, Stages
    <3>3. TypeOK'
      BY <1>0, <1>1, <1>3, <2>3, <2>5, <3>1, <3>2 DEF Write, TypeOK, ApiTypeOK
    <3>4. HandlerIsWell(c)' /\ GoesOn(c)
      BY <1>0, <1>1, <1>3, <2>1, <2>4, <2>5, <3>1 DEF HandlerIsWell, Busy, Write, Handlers, GoesOn
    <3>5. WorksOn(c)
      BY <2>1, <3>1 DEF WorksOn, Exchange, Busy, Handlers
    <3>. QED
      BY <1>0, <1>3, <2>1, <2>4, <3>1, <3>3, <3>4, <3>5, ThreadKeeps DEF Write
  <2>6. CASE call[c].op # "exchange"
    <3>1. Answer(c, "yes", call[c].on)
      BY <1>3, <2>6 DEF Write
    <3>2. /\ call' \in [Calls -> Handlers \cup {Idle}]
          /\ \A b \in Calls \ {c} : call'[b] = call[b]
          /\ ~call[c].awaited => call'[c] = Idle
          /\ call[c].awaited =>
              /\ call'[c].at = "yes" /\ call'[c].on = call[c].on /\ call'[c].copy = "none"
              /\ call'[c].op = call[c].op /\ call'[c].awaited
      BY <2>1, <3>1, AnsweredIsWell DEF Answers
    <3>3. TypeOK'
      BY <1>0, <1>1, <1>3, <2>3, <3>2 DEF Write, TypeOK, ApiTypeOK
    <3>4. HandlerIsWell(c)' /\ GoesOn(c)
      BY <1>0, <1>1, <1>3, <2>1, <2>4, <2>6, <3>2
      DEF HandlerIsWell, Busy, Write, Handlers, GoesOn, Idle
    <3>5. WorksOn(c)
      BY <2>1, <2>6, <3>2 DEF WorksOn, Exchange, Busy, Idle
    <3>. QED
      BY <1>0, <1>3, <2>1, <2>4, <3>2, <3>3, <3>4, <3>5, ThreadKeeps DEF Write
  <2>. QED
    BY <2>5, <2>6
<1>4. CASE Create(c)
  <2>1. Busy(c) /\ call[c] \in Handlers /\ call[c].op = "exchange"
    BY <1>1, <1>4, OneThread DEF Create, Busy, HandlerIsWell
  <2>2. PICK s \in SessionIds : /\ document[s] = "none"
                                /\ document' = [document EXCEPT ![s] = "live"]
                                /\ Answer(c, "yes", s)
    BY <1>4 DEF Create
  <2>3. document' \in [Documents -> {"none", "live", "ended"}] /\ document'[s] = "live"
    BY <1>1, <2>2 DEF TypeOK, ApiTypeOK, Documents
  <2>4. /\ \A r \in SessionIds : document[r] # "none" => document'[r] # "none"
        /\ \A r \in SessionIds : document'[r] = "ended" => r \in left
    BY <1>1, <2>2 DEF TypeOK, ApiTypeOK, SessionInv, EndedIsLeft, Documents
  <2>5. /\ call' \in [Calls -> Handlers \cup {Idle}]
        /\ \A b \in Calls \ {c} : call'[b] = call[b]
        /\ ~call[c].awaited => call'[c] = Idle
        /\ call[c].awaited =>
            /\ call'[c].at = "yes" /\ call'[c].on = s /\ call'[c].copy = "none"
            /\ call'[c].op = call[c].op /\ call'[c].awaited
    BY <2>1, <2>2, AnsweredIsWell DEF Answers, Documents
  <2>6. TypeOK'
    BY <1>0, <1>1, <1>4, <2>3, <2>5 DEF Create, TypeOK, ApiTypeOK
  <2>7. HandlerIsWell(c)' /\ GoesOn(c)
    BY <2>1, <2>2, <2>3, <2>5 DEF HandlerIsWell, Busy, Handlers, GoesOn, Idle
  <2>8. WorksOn(c)
    BY <2>2, <2>5 DEF WorksOn, Exchange, Busy, Idle
  <2>. QED
    BY <1>0, <1>4, <2>1, <2>4, <2>5, <2>6, <2>7, <2>8, ThreadKeeps DEF Create
<1>5. CASE Fail(c)
  <2>1. Busy(c) /\ call[c] \in Handlers /\ call[c].on \in Documents /\ call[c].at # "yes"
    BY <1>1, <1>5, OneThread DEF Fail, Busy, Stages
  <2>2. /\ call' \in [Calls -> Handlers \cup {Idle}]
        /\ \A b \in Calls \ {c} : call'[b] = call[b]
        /\ ~call[c].awaited => call'[c] = Idle
        /\ call[c].awaited =>
            /\ call'[c].at = "error" /\ call'[c].on = call[c].on /\ call'[c].copy = "none"
            /\ call'[c].op = call[c].op /\ call'[c].awaited
    BY <1>5, <2>1, AnsweredIsWell DEF Answers, Fail
  <2>3. TypeOK'
    BY <1>0, <1>1, <1>5, <2>2 DEF Fail, TypeOK, ApiTypeOK
  <2>4. HandlerIsWell(c)' /\ GoesOn(c)
    BY <1>0, <1>1, <1>5, <2>1, <2>2 DEF HandlerIsWell, Busy, Handlers, GoesOn, Idle, Fail
  <2>5. WorksOn(c)
    BY <2>2 DEF WorksOn, Exchange, Busy, Idle
  <2>. QED
    BY <1>0, <1>5, <2>1, <2>2, <2>3, <2>4, <2>5, ThreadKeeps DEF Fail, SessionInv, EndedIsLeft
<1>. QED
  BY <1>0, <1>2, <1>3, <1>4, <1>5

\* A document gets old: nothing is taken up again for that.
LEMMA ExpireKeeps ==
  ASSUME SessionInv, NEW d \in Documents, Expire(d), UNCHANGED <<tab, cookie, slow, left>>
  PROVE  SessionInv'
<1>1. TypeOK'
  BY DEF SessionInv, TypeOK, ApiTypeOK, Expire
<1>2. HandlersAreWell'
  BY DEF SessionInv, HandlersAreWell, HandlerIsWell, Busy, Expire
<1>3. PagesAreWell'
  BY DEF SessionInv, PagesAreWell, PageIsWell, IsDone, InMind, Known, Busy, Expire
<1>4. CallsAreApart' /\ CookieIsKnown' /\ EndedIsLeft'
  BY DEF SessionInv, CallsAreApart, CookieIsKnown, EndedIsLeft, Expire
<1>5. PastIsPast' /\ WritesAreOwn' /\ NewIsNobodys'
  BY DEF SessionInv, PastIsPast, IsPast, InMind, WritesAreOwn, IsOwn, Holds, Known,
         NewIsNobodys, IsNobodys, Exchange, Busy, Expire
<1>. QED
  BY <1>1, <1>2, <1>3, <1>4, <1>5 DEF SessionInv

-----------------------------------------------------------------------------
(* The pages.                                                               *)

\* What a page holds after its step it held before, or the cookie has named it, or
\* the thread that it lets go of brought it.
LearnsFairly(t) ==
  \A s \in Known(tab[t])' :
    \/ s \in Known(tab[t]) \/ s = cookie
    \/ \E c \in Calls \cap {tab[t].call} : s = call[c].on /\ ~Busy(c)'

\* The threads are as they were, or take a request of the page of t.
AsksFairly(t) ==
  \A d \in Calls : Busy(d)' =>
    \/ Busy(d) /\ call'[d].on = call[d].on /\ call'[d].op = call[d].op /\ call'[d].at = call[d].at
    \/ ~Exchange(d)' /\ call'[d].on \in Tickets \cup Known(tab[t])

\* One page moves; the thread it lets go of, or the free one it takes, is well.
LEMMA PageKeeps ==
  ASSUME SessionInv, TypeOK', NEW t \in Tabs,
         \A u \in Tabs \ {t} : tab'[u] = tab[u],
         \A d \in Calls : d # tab[t].call /\ Busy(d) => call'[d] = call[d],
         \A d \in Calls : HandlerIsWell(d)',
         \A s \in SessionIds : document'[s] = document[s],
         left \subseteq left',
         tab'[t].call = tab[t].call \/ tab'[t].call = Nothing \/ ~Busy(tab'[t].call),
         cookie' = cookie \/ cookie' = Nothing \/ cookie' = tab[t].queue,
         LearnsFairly(t), AsksFairly(t),
         PageIsWell(tab[t])', IsPast(tab[t])',
         tab'[t].queue \in SessionIds =>
           /\ cookie' # tab'[t].queue /\ tab'[t].reported # tab'[t].queue
           /\ tab'[t].queue \notin tab'[t].out
           /\ \A u \in Tabs \ {t} : tab'[t].queue \notin Holds(u)
  PROVE  SessionInv'
<1>0. cookie' \in SessionIds => cookie' = cookie \/ cookie' \in Known(tab[t])
  BY SessionsAssumption DEF Known
<1>1. ASSUME NEW u \in Tabs, u # t
      PROVE  /\ PageIsWell(tab[u])' /\ (tab[u].call # Nothing => tab'[u].call # tab'[t].call)
             /\ Holds(u)' = Holds(u)
  <2>1. PageIsWell(tab[u]) /\ tab'[u] = tab[u] /\ Known(tab[u])' = Known(tab[u])
    BY <1>1 DEF SessionInv, PagesAreWell, Known
  <2>2. CASE tab[u].call = Nothing
    BY <2>1, <2>2, SessionsAssumption DEF PageIsWell, IsDone, InMind, Known, Holds
  <2>3. CASE tab[u].call # Nothing
    <3>1. tab[u].call \in Calls /\ Busy(tab[u].call)
      BY <2>1, <2>3, OnePage DEF SessionInv, TabStates, PageIsWell
    <3>2. tab[u].call # tab[t].call
      BY <1>1, <2>3 DEF SessionInv, CallsAreApart
    <3>3. call'[tab[u].call] = call[tab[u].call]
      BY <3>1, <3>2
    <3>4. PageIsWell(tab[u])'
      BY <2>1, <2>3, <3>1, <3>3 DEF PageIsWell, IsDone, InMind, Known, Busy
    <3>. QED
      BY <2>1, <2>3, <3>1, <3>2, <3>3, <3>4 DEF Holds, Busy
  <2>. QED
    BY <2>2, <2>3
<1>2. PagesAreWell'
  BY <1>1 DEF PagesAreWell
<1>3. CallsAreApart'
  BY <1>1 DEF SessionInv, CallsAreApart
<1>4. CookieIsKnown'
  <2>1. \A s \in Known(tab[t]) : s \in SessionIds /\ document[s] # "none"
    BY DEF SessionInv, PagesAreWell, PageIsWell, Known
  <2>. QED
    BY <1>0, <2>1 DEF SessionInv, CookieIsKnown, TypeOK, MaybeSession
<1>5. EndedIsLeft' /\ HandlersAreWell'
  BY DEF SessionInv, EndedIsLeft, HandlersAreWell
<1>6. PastIsPast'
  <2>. SUFFICES ASSUME NEW u \in Tabs, u # t PROVE IsPast(tab[u])'
    BY DEF PastIsPast
  <2>1. IsPast(tab[u]) /\ tab[u] \in TabStates /\ tab[t] \in TabStates
    BY OnePage DEF SessionInv, PastIsPast
  <2>2. cookie' \in SessionIds /\ cookie' # cookie => cookie' \notin tab[u].out
    BY <2>1, SessionsAssumption DEF SessionInv, WritesAreOwn, IsOwn, Holds, Known
  <2>. QED
    BY <2>1, <2>2 DEF IsPast, InMind, TabStates
<1>7. WritesAreOwn'
  <2>1. IsOwn(t, tab[t])'
    BY <1>1 DEF IsOwn
  <2>2. ASSUME NEW u \in Tabs, u # t, tab[u].queue \in SessionIds PROVE IsOwn(u, tab[u])'
    <3>. DEFINE q == tab[u].queue
    <3>1. /\ cookie # q /\ tab[u].reported # q /\ q \notin tab[u].out
          /\ \A v \in Tabs \ {u} : q \notin Holds(v)
      BY <2>2 DEF SessionInv, WritesAreOwn, IsOwn
    <3>2. q \notin Known(tab[t]) /\ \A c \in Calls \cap {tab[t].call} : call[c].on # q
      BY <2>2, <3>1 DEF Holds
    <3>3. cookie' # q /\ q \notin Known(tab[t])'
      BY <1>0, <2>2, <3>1, <3>2 DEF LearnsFairly
    <3>4. ASSUME NEW c \in Calls, c = tab'[t].call PROVE call'[c].on # q
      <4>1. Busy(c)' /\ c # Nothing
        BY <3>4, SessionsAssumption DEF PageIsWell
      <4>2. Busy(c) => c = tab[t].call
        BY <3>4, <4>1
      <4>. QED
        BY <2>2, <3>2, <4>1, <4>2, SessionsAssumption DEF AsksFairly
    <3>5. q \notin Holds(t)'
      BY <3>3, <3>4 DEF Holds
    <3>. QED
      BY <1>1, <2>2, <3>1, <3>3, <3>5 DEF IsOwn
  <2>. QED
    BY <2>1, <2>2 DEF WritesAreOwn, IsOwn
<1>8. NewIsNobodys'
  <2>. SUFFICES ASSUME NEW c \in Calls, Exchange(c)' PROVE IsNobodys(c)'
    BY DEF NewIsNobodys, IsNobodys
  <2>1. Exchange(c) /\ call'[c].on = call[c].on /\ Busy(c)'
    BY DEF AsksFairly, Exchange
  <2>. DEFINE s == call[c].on
  <2>2. /\ cookie # s /\ \A u \in Tabs : s \notin Known(tab[u])
        /\ \A d \in Calls \ {c} : Busy(d) => call[d].on # s
    BY <2>1 DEF SessionInv, NewIsNobodys, IsNobodys
  <2>3. s \in SessionIds
    BY <2>1 DEF SessionInv, HandlersAreWell, HandlerIsWell, Exchange
  <2>4. s \notin Known(tab[t])'
    <3>1. ASSUME NEW d \in Calls, d = tab[t].call, ~Busy(d)' PROVE s # call[d].on
      <4>1. Busy(d)
        BY <3>1, SessionsAssumption DEF SessionInv, PagesAreWell, PageIsWell
      <4>. QED
        BY <2>1, <2>2, <3>1, <4>1
    <3>. QED
      BY <2>2, <3>1 DEF LearnsFairly
  <2>5. \A u \in Tabs \ {t} : Known(tab[u])' = Known(tab[u])
    BY DEF Known
  <2>6. \A d \in Calls \ {c} : Busy(d)' => call'[d].on # s
    BY <2>2, <2>3, SessionsAssumption DEF AsksFairly
  <2>. QED
    BY <1>0, <2>1, <2>2, <2>3, <2>4, <2>5, <2>6 DEF IsNobodys
<1>. QED
  BY <1>2, <1>3, <1>4, <1>5, <1>6, <1>7, <1>8 DEF SessionInv

\* Nobody waits for the thread of c any more.
Released(c) == IF call[c].at \in Answers THEN Idle ELSE [call[c] EXCEPT !.awaited = FALSE]

LEMMA ReleasedIsWell ==
  ASSUME SessionInv, NEW c \in Calls, Busy(c), UNCHANGED <<expired, left>>,
         \A s \in SessionIds : document'[s] = document[s],
         call' = [call EXCEPT ![c] = Released(c)] \/ call' = [call EXCEPT ![c] = Idle]
  PROVE  /\ call' \in [Calls -> Handlers \cup {Idle}]
         /\ \A d \in Calls : d # c => call'[d] = call[d]
         /\ \A d \in Calls : HandlerIsWell(d)'
         /\ \A t \in Tabs : AsksFairly(t)
<1>1. call[c] \in Handlers /\ call \in [Calls -> Handlers \cup {Idle}]
  BY OneThread DEF SessionInv, TypeOK, ApiTypeOK
<1>2. \/ Released(c) = Idle
      \/ Released(c) \in Handlers /\ Released(c) = [call[c] EXCEPT !.awaited = FALSE]
  BY <1>1 DEF Released, Handlers
<1>3. \A d \in Calls : d # c => call'[d] = call[d]
  BY <1>1
<1>4. call'[c] = Idle \/ call'[c] = [call[c] EXCEPT !.awaited = FALSE]
  BY <1>1, <1>2
<1>5. HandlerIsWell(c)'
  BY <1>1, <1>4 DEF SessionInv, HandlersAreWell, HandlerIsWell, Busy, Idle, Handlers
<1>6. \A d \in Calls : d # c => HandlerIsWell(d)'
  BY <1>3 DEF SessionInv, HandlersAreWell, HandlerIsWell, Busy
<1>7. Busy(c)' => call'[c].on = call[c].on /\ call'[c].op = call[c].op /\ call'[c].at = call[c].at
  BY <1>1, <1>4 DEF Busy, Idle, Handlers
<1>8. \A t \in Tabs : AsksFairly(t)
  BY <1>3, <1>7 DEF AsksFairly, Busy
<1>. QED
  BY <1>1, <1>2, <1>3, <1>5, <1>6, <1>8

LEMMA LoadKeeps ==
  ASSUME SessionInv, NEW t \in Tabs, NEW ticket \in Tickets \cup {Nothing}, Load(t, ticket),
         document' \in [Documents -> {"none", "live", "ended"}],
         \A s \in SessionIds : document'[s] = document[s],
         UNCHANGED <<expired, cookie, slow, left>>
  PROVE  SessionInv'
<1>. DEFINE page == Page("ready", ticket)
<1>1. page \in TabStates /\ Awaits(page.at) = "nothing" /\ Known(page) = {}
      /\ page.call = Nothing /\ ~page.fresh /\ page.session = Nothing /\ page.out = {}
      /\ page.queue = Nothing
  BY SessionsAssumption, RetriesAssumption DEF Page, TabStates, Awaits, Known, MaybeSession
<1>2. tab' = [tab EXCEPT ![t] = page] /\ tab'[t] = page /\ \A u \in Tabs \ {t} : tab'[u] = tab[u]
  BY DEF Load, SessionInv, TypeOK
<1>3. tab' \in [Tabs -> TabStates]
  BY <1>1, <1>2 DEF SessionInv, TypeOK
<1>4. PageIsWell(tab[t])'
  <2>1. page.at = "ready"
    BY DEF Page
  <2>. HIDE DEF page
  <2>. QED
    BY <1>1, <1>2, <2>1, DeleteAssumption DEF PageIsWell, Known
<1>5. /\ call' \in [Calls -> Handlers \cup {Idle}]
      /\ \A d \in Calls : d # tab[t].call => call'[d] = call[d]
      /\ \A d \in Calls : HandlerIsWell(d)'
      /\ AsksFairly(t)
  <2>1. CASE tab[t].call = Nothing
    BY <2>1 DEF Load, SessionInv, TypeOK, ApiTypeOK, HandlersAreWell, HandlerIsWell, Busy, AsksFairly
  <2>2. CASE tab[t].call # Nothing
    <3>1. tab[t].call \in Calls /\ Busy(tab[t].call)
      BY <2>2, OnePage DEF SessionInv, TabStates, PagesAreWell, PageIsWell
    <3>2. call' = [call EXCEPT ![tab[t].call] = Released(tab[t].call)]
      BY <2>2, <3>1 DEF Load, Released, SessionInv, TypeOK, ApiTypeOK
    <3>. QED
      BY <3>1, <3>2, ReleasedIsWell
  <2>. QED
    BY <2>1, <2>2
<1>6. TypeOK'
  BY <1>3, <1>5 DEF SessionInv, TypeOK, ApiTypeOK
<1>7. LearnsFairly(t) /\ IsPast(tab[t])' /\ tab'[t].queue \notin SessionIds
  <2>. HIDE DEF page
  <2>. QED
    BY <1>1, <1>2, SessionsAssumption DEF LearnsFairly, IsPast, Known
<1>. QED
  BY <1>1, <1>2, <1>4, <1>5, <1>6, <1>7, PageKeeps

LEMMA BrowserKeeps ==
  ASSUME SessionInv, NEW t \in Tabs, Browser(t)
  PROVE  SessionInv'
<1>0. TypeOK /\ PageIsWell(tab[t]) /\ tab[t] \in TabStates
  BY OnePage DEF SessionInv, PagesAreWell
<1>1. ASSUME NEW k \in Tickets, SignIn(t, k) PROVE SessionInv'
  BY <1>0, <1>1, LoadKeeps, SessionsAssumption DEF SignIn, TypeOK, ApiTypeOK, Documents
<1>2. CASE Open(t)
  BY <1>0, <1>2, LoadKeeps DEF Open, TypeOK, ApiTypeOK
<1>3. ASSUME NEW page \in TabStates, tab' = [tab EXCEPT ![t] = page], UNCHANGED <<apiVars, slow, left>>,
             page.at = tab[t].at, page.call = tab[t].call, page.session = tab[t].session,
             page.fresh => tab[t].fresh, page.ticket = tab[t].ticket,
             page.signedOut = tab[t].signedOut, page.out = tab[t].out,
             page.queue = Delete => tab[t].queue = Delete,
             page.queue \in SessionIds => page.queue = tab[t].queue /\ cookie' = cookie,
             page.reported = tab[t].reported \/ page.reported = cookie,
             page.reported = cookie => page.reported # page.queue \/ page.queue \notin SessionIds,
             cookie' = cookie \/ cookie' = Nothing \/ cookie' = tab[t].queue,
             cookie' \in MaybeSession, IsPast(tab[t])'
      PROVE  SessionInv'
  <2>0. /\ IsPast(tab[t]) /\ IsOwn(t, tab[t]) /\ cookie \in MaybeSession
        /\ cookie # Nothing => document[cookie] # "none"
    BY DEF SessionInv, PastIsPast, WritesAreOwn, TypeOK, CookieIsKnown
  <2>1. tab'[t] = page /\ \A u \in Tabs \ {t} : tab'[u] = tab[u]
    BY <1>0, <1>3 DEF TypeOK
  <2>2. TypeOK'
    BY <1>0, <1>3 DEF TypeOK, ApiTypeOK, apiVars, TabStates, MaybeSession
  <2>3. (\A d \in Calls : HandlerIsWell(d)') /\ AsksFairly(t)
    BY <1>3 DEF SessionInv, HandlersAreWell, HandlerIsWell, AsksFairly, Busy, apiVars
  <2>4. \A s \in Known(page) : s \in Known(tab[t]) \/ s = cookie
    BY <1>3, <2>0, SessionsAssumption DEF Known
  <2>5. /\ InMind(page) = InMind(tab[t])
        /\ page.reported \in page.out => page.reported \in InMind(page)
        /\ IsDone(tab[t]) => IsDone(page)
    BY <1>0, <1>3, <2>0 DEF InMind, PageIsWell, IsPast, IsDone
  <2>6. PageIsWell(tab[t])'
    <3>1. \A s \in Known(page) : document[s] # "none"
      BY <1>0, <2>0, <2>4, SessionsAssumption DEF PageIsWell, Known
    <3>2. page.ticket # Nothing =>
            page.out = {} /\ page.queue # Delete /\ page.session = Nothing /\ page.at \notin {"check", "logout"}
      BY <1>0, <1>3 DEF PageIsWell
    <3>3. call' = call /\ document' = document /\ left' = left
      BY <1>3 DEF apiVars
    <3>4. PageIsWell(page)
      BY <1>0, <1>3, <2>5, <3>1, <3>2 DEF PageIsWell
    <3>. QED
      BY <2>1, <3>3, <3>4 DEF PageIsWell, IsDone, InMind, Known, Busy
  <2>7. LearnsFairly(t)
    BY <2>1, <2>4 DEF LearnsFairly, Known
  <2>8. page.queue \in SessionIds =>
          /\ cookie' # page.queue /\ page.reported # page.queue /\ page.queue \notin page.out
          /\ \A u \in Tabs \ {t} : page.queue \notin Holds(u)
    BY <1>3, <2>0 DEF IsOwn
  <2>. QED
    BY <1>3, <2>1, <2>2, <2>3, <2>6, <2>7, <2>8, PageKeeps DEF apiVars
<1>4. CASE Report(t)
  <2>. DEFINE page == [tab[t] EXCEPT !.reported = cookie]
  <2>0. cookie \in MaybeSession /\ IsPast(tab[t]) /\ IsOwn(t, tab[t])
    BY <1>0 DEF TypeOK, SessionInv, PastIsPast, WritesAreOwn
  <2>1. /\ page \in TabStates /\ page.reported = cookie /\ page.queue = tab[t].queue
        /\ page.at = tab[t].at /\ page.call = tab[t].call /\ page.session = tab[t].session
        /\ page.fresh = tab[t].fresh /\ page.ticket = tab[t].ticket
        /\ page.signedOut = tab[t].signedOut /\ page.out = tab[t].out
    BY <1>0, <2>0 DEF TabStates
  <2>2. tab' = [tab EXCEPT ![t] = page] /\ tab'[t] = page /\ UNCHANGED <<apiVars, cookie, slow, left>>
    BY <1>0, <1>4 DEF Report, TypeOK
  <2>. HIDE DEF page
  <2>3. IsPast(tab[t])'
    BY <2>0, <2>1, <2>2 DEF IsPast, InMind
  <2>. QED
    BY <1>3, <2>0, <2>1, <2>2, <2>3 DEF IsOwn
<1>5. CASE CarryOut(t)
  <2>. DEFINE page == [tab[t] EXCEPT !.queue = Nothing]
  <2>0. IsPast(tab[t]) /\ IsOwn(t, tab[t])
    BY DEF SessionInv, PastIsPast, WritesAreOwn
  <2>1. /\ page \in TabStates /\ page.reported = tab[t].reported /\ page.queue = Nothing
        /\ page.at = tab[t].at /\ page.call = tab[t].call /\ page.session = tab[t].session
        /\ page.fresh = tab[t].fresh /\ page.ticket = tab[t].ticket
        /\ page.signedOut = tab[t].signedOut /\ page.out = tab[t].out
    BY <1>0 DEF TabStates, MaybeSession
  <2>6. tab[t].queue \in MaybeSession \cup {Delete}
    BY <1>0 DEF TabStates
  <2>7. cookie' = Nothing \/ (cookie' = tab[t].queue /\ tab[t].queue \in SessionIds)
    BY <1>5, <2>6 DEF CarryOut, MaybeSession
  <2>2. /\ tab' = [tab EXCEPT ![t] = page] /\ tab'[t] = page /\ UNCHANGED <<apiVars, slow, left>>
        /\ cookie' = Nothing \/ (cookie' = tab[t].queue /\ tab[t].queue \in SessionIds)
    BY <1>0, <1>5, <2>7 DEF CarryOut, TypeOK
  <2>. HIDE DEF page
  <2>3. IsPast(tab[t])'
    BY <1>0, <2>0, <2>1, <2>2, SessionsAssumption DEF IsPast, IsOwn, TabStates
  <2>4. page.queue # Delete /\ page.queue \notin SessionIds
    BY <2>1, DeleteAssumption, SessionsAssumption
  <2>5. cookie' \in MaybeSession /\ (cookie' = cookie \/ cookie' = Nothing \/ cookie' = tab[t].queue)
    BY <2>2 DEF MaybeSession
  <2>. QED
    BY <1>3, <2>1, <2>2, <2>3, <2>4, <2>5
<1>6. CASE GrowStale(t)
  <2>. DEFINE page == [tab[t] EXCEPT !.fresh = FALSE]
  <2>0. IsPast(tab[t]) /\ IsOwn(t, tab[t]) /\ cookie \in MaybeSession
    BY DEF SessionInv, PastIsPast, WritesAreOwn, TypeOK
  <2>1. /\ page \in TabStates /\ page.reported = tab[t].reported /\ page.queue = tab[t].queue
        /\ page.at = tab[t].at /\ page.call = tab[t].call /\ page.session = tab[t].session
        /\ page.fresh = FALSE /\ page.ticket = tab[t].ticket
        /\ page.signedOut = tab[t].signedOut /\ page.out = tab[t].out
    BY <1>0 DEF TabStates
  <2>2. tab' = [tab EXCEPT ![t] = page] /\ tab'[t] = page /\ UNCHANGED <<apiVars, cookie, slow, left>>
    BY <1>0, <1>6 DEF GrowStale, TypeOK
  <2>. HIDE DEF page
  <2>3. IsPast(tab[t])'
    BY <2>0, <2>1, <2>2 DEF IsPast, InMind
  <2>. QED
    BY <1>3, <2>0, <2>1, <2>2, <2>3 DEF IsOwn
<1>. QED
  BY <1>1, <1>2, <1>4, <1>5, <1>6 DEF Browser

-----------------------------------------------------------------------------
(* The script.                                                              *)

\* What a script asks for: a ticket for a session, or a session it knows of.
Asks(op, d) ==
  /\ op \in {"exchange", "validate", "logout"}
  /\ IF op = "exchange" THEN d \in Tickets ELSE d \in SessionIds /\ document[d] # "none"
  /\ op = "logout" => d \in left'

\* A free thread takes a request.
LEMMA RequestIsWell ==
  ASSUME SessionInv, NEW c \in Calls, NEW op, NEW d, Request(c, op, d), Asks(op, d),
         UNCHANGED <<document, expired>>, left \subseteq left'
  PROVE  /\ ~Busy(c)
         /\ call' \in [Calls -> Handlers \cup {Idle}]
         /\ \A b \in Calls : b # c => call'[b] = call[b]
         /\ \A b \in Calls : HandlerIsWell(b)'
         /\ Busy(c)' /\ call'[c].awaited /\ call'[c].op = op /\ call'[c].on = d /\ ~Exchange(c)'
<1>. DEFINE handler == [op |-> op, on |-> d, at |-> "write", copy |-> "none", awaited |-> TRUE]
<1>0. d \in Documents /\ handler \in Handlers
  BY DEF Asks, Documents, Handlers, Stages
<1>1. ~Busy(c) /\ call \in [Calls -> Handlers \cup {Idle}] /\ document \in [Documents -> {"none", "live", "ended"}]
  BY DEF Request, Busy, Idle, SessionInv, TypeOK, ApiTypeOK
<1>2. /\ \A b \in Calls : b # c => call'[b] = call[b]
      /\ \/ call'[c] = handler /\ op # "validate"
         \/ call'[c] = [handler EXCEPT !.at = "reread"] /\ op = "validate"
         \/ /\ call'[c] = [handler EXCEPT !.at = "no", !.on = d, !.copy = "none"]
            /\ op # "logout" /\ ~(document[d] = "live" /\ d \notin expired)
  BY <1>1 DEF Request, Answered, Asks
<1>3. /\ call'[c] \in Handlers
      /\ call'[c].op = op /\ call'[c].on = d /\ call'[c].copy = "none" /\ call'[c].awaited
      /\ \/ call'[c].at = "write" /\ op # "validate"
         \/ call'[c].at = "reread" /\ op = "validate"
         \/ /\ call'[c].at = "no"
            /\ op # "logout" /\ ~(document[d] = "live" /\ d \notin expired)
  <2>1. /\ handler.op = op /\ handler.on = d /\ handler.at = "write" /\ handler.copy = "none"
        /\ handler.awaited /\ op \in {"exchange", "validate", "logout"}
    BY DEF Asks
  <2>. HIDE DEF handler
  <2>2. CASE call'[c] = handler /\ op # "validate"
    BY <1>0, <2>1, <2>2
  <2>3. CASE call'[c] = [handler EXCEPT !.at = "reread"] /\ op = "validate"
    BY <1>0, <2>1, <2>3 DEF Handlers, Stages
  <2>4. CASE /\ call'[c] = [handler EXCEPT !.at = "no", !.on = d, !.copy = "none"]
             /\ op # "logout" /\ ~(document[d] = "live" /\ d \notin expired)
    BY <1>0, <2>1, <2>4 DEF Handlers, Answers
  <2>. QED
    BY <1>2, <2>2, <2>3, <2>4
<1>4. d \in SessionIds /\ document[d] \in {"none", "live", "ended"} /\ document[d] = "ended" => d \in left
  BY DEF SessionInv, EndedIsLeft
<1>5. call' \in [Calls -> Handlers \cup {Idle}]
  BY <1>1, <1>3 DEF Request
<1>6. HandlerIsWell(c)'
  BY <1>0, <1>1, <1>3, <1>4, SessionsAssumption DEF HandlerIsWell, Busy, Asks
<1>7. \A b \in Calls : b # c => HandlerIsWell(b)'
  BY <1>2 DEF SessionInv, HandlersAreWell, HandlerIsWell, Busy
<1>. QED
  BY <1>1, <1>2, <1>3, <1>5, <1>6, <1>7 DEF Busy, Exchange

\* The page waits for the thread that has taken its request.
LEMMA AskKeeps ==
  ASSUME SessionInv, NEW t \in Tabs, NEW c \in Calls, NEW op, NEW d, NEW at,
         tab[t].call = Nothing, IsDone(tab[t]),
         Request(c, op, d), Asks(op, d), op = Awaits(at), at \in {"exchange", "check", "logout"},
         tab' = [tab EXCEPT ![t] = [tab[t] EXCEPT !.at = at, !.call = c]],
         d \notin tab[t].out \/ at = "logout", d \in Tickets \cup Known(tab[t]),
         at = "exchange" <=> tab[t].ticket # Nothing,
         at = "check" /\ tab[t].session # Nothing => d = tab[t].session,
         at = "logout" => tab[t].session \in left',
         left \subseteq left', left' \subseteq SessionIds,
         UNCHANGED <<document, expired, cookie, slow>>
  PROVE  SessionInv'
<1>. DEFINE page == [tab[t] EXCEPT !.at = at, !.call = c]
<1>0. /\ TypeOK /\ PageIsWell(tab[t]) /\ tab[t] \in TabStates
      /\ IsPast(tab[t]) /\ IsOwn(t, tab[t])
  BY OnePage DEF SessionInv, PagesAreWell, PastIsPast, WritesAreOwn
<1>1. /\ ~Busy(c)
      /\ call' \in [Calls -> Handlers \cup {Idle}]
      /\ \A b \in Calls : b # c => call'[b] = call[b]
      /\ \A b \in Calls : HandlerIsWell(b)'
      /\ Busy(c)' /\ call'[c].awaited /\ call'[c].op = op /\ call'[c].on = d /\ ~Exchange(c)'
  BY RequestIsWell
<1>2. /\ page \in TabStates
      /\ page.at = at /\ page.call = c /\ page.session = tab[t].session
      /\ page.fresh = tab[t].fresh /\ page.ticket = tab[t].ticket /\ page.queue = tab[t].queue
      /\ page.signedOut = tab[t].signedOut /\ page.out = tab[t].out
      /\ page.reported = tab[t].reported
  BY <1>0 DEF TabStates
<1>3. tab'[t] = page /\ (\A u \in Tabs \ {t} : tab'[u] = tab[u]) /\ tab' \in [Tabs -> TabStates]
  BY <1>0, <1>2 DEF TypeOK
<1>. HIDE DEF page
<1>4. TypeOK'
  BY <1>0, <1>1, <1>3 DEF TypeOK, ApiTypeOK
<1>5. Known(page) = Known(tab[t]) /\ InMind(page) = InMind(tab[t]) /\ IsDone(page)
  BY <1>2 DEF Known, InMind, IsDone
<1>6. PageIsWell(tab[t])'
  <2>1. \A s \in Known(page) : document'[s] # "none"
    BY <1>0, <1>5 DEF PageIsWell
  <2>2. /\ page.call # Nothing /\ Awaits(page.at) # "nothing"
        /\ page.ticket # Nothing => page.at \notin {"check", "logout"}
        /\ page.at # "logout" => d \notin page.out
    BY <1>2, SessionsAssumption DEF Awaits
  <2>3. /\ page.ticket # Nothing => page.out = {} /\ page.queue # Delete /\ page.session = Nothing
        /\ page.fresh => page.session # Nothing
        /\ page.session \notin page.out
        /\ page.reported \in page.out => page.reported \in InMind(page)
    BY <1>0, <1>2, <1>5 DEF PageIsWell
  <2>. QED
    BY <1>1, <1>2, <1>3, <1>5, <2>1, <2>2, <2>3 DEF PageIsWell, Busy, Known, InMind, IsDone
<1>7. LearnsFairly(t) /\ AsksFairly(t) /\ IsPast(tab[t])'
  <2>1. LearnsFairly(t)
    BY <1>3, <1>5 DEF LearnsFairly, Known
  <2>2. AsksFairly(t)
    BY <1>1 DEF AsksFairly, Busy
  <2>3. IsPast(tab[t])'
    BY <1>0, <1>2, <1>3, <1>5 DEF IsPast, InMind
  <2>. QED
    BY <2>1, <2>2, <2>3
<1>8. cookie' = cookie /\ \A b \in Calls : Busy(b) => b # c
  BY <1>1
<1>9. tab'[t].queue \in SessionIds =>
           /\ cookie' # tab'[t].queue /\ tab'[t].reported # tab'[t].queue
           /\ tab'[t].queue \notin tab'[t].out
           /\ \A u \in Tabs \ {t} : tab'[t].queue \notin Holds(u)
  BY <1>0, <1>2, <1>3, <1>8 DEF IsOwn
<1>. QED
  BY <1>1, <1>2, <1>3, <1>4, <1>6, <1>7, <1>8, <1>9, PageKeeps

\* A page that waits for nothing.
Rests(page) ==
  /\ page \in TabStates
  /\ page.call = Nothing /\ Awaits(page.at) = "nothing"
  /\ page.ticket # Nothing => page.out = {} /\ page.queue # Delete /\ page.session = Nothing
  /\ page.fresh => page.session # Nothing
  /\ page.session # Nothing => IsDone(page)
  /\ page.session \notin page.out
  /\ page.reported \in page.out => page.reported \in InMind(page)
  /\ IsPast(page)

\* A page goes on as one that rests, and knows at most one session more than
\* before, which it has to write if it is new.
GoesOnTo(page, next, learned, written) ==
  /\ Rests(next)
  /\ next.reported = page.reported
  /\ Known(next) \subseteq Known(page) \cup learned
  /\ next.queue \in SessionIds =>
       next.queue \notin next.out /\ (next.queue = page.queue \/ next.queue \in written)

\* The page goes on without its thread.
LEMMA GoOnKeeps ==
  ASSUME SessionInv, NEW t \in Tabs, tab[t].call # Nothing, NEW page,
         NEW learned \in SUBSET {call[tab[t].call].on}, NEW written \in SUBSET learned,
         GoesOnTo(tab[t], page, learned, written),
         \A s \in written : Exchange(tab[t].call),
         tab' = [tab EXCEPT ![t] = page],
         \/ call' = [call EXCEPT ![tab[t].call] = Released(tab[t].call)] /\ learned = {}
         \/ call' = [call EXCEPT ![tab[t].call] = Idle],
         UNCHANGED <<document, expired, cookie, slow, left>>
  PROVE  SessionInv'
<1>. DEFINE c == tab[t].call
<1>0. TypeOK /\ c \in Calls /\ Busy(c) /\ PageIsWell(tab[t]) /\ IsOwn(t, tab[t])
  BY OnePage DEF SessionInv, TabStates, PagesAreWell, PageIsWell, WritesAreOwn
<1>1. /\ call' \in [Calls -> Handlers \cup {Idle}]
      /\ \A d \in Calls : d # c => call'[d] = call[d]
      /\ \A d \in Calls : HandlerIsWell(d)'
      /\ AsksFairly(t)
  BY <1>0, ReleasedIsWell
<1>2. tab'[t] = page /\ (\A u \in Tabs \ {t} : tab'[u] = tab[u]) /\ tab' \in [Tabs -> TabStates]
  BY <1>0 DEF TypeOK, GoesOnTo, Rests
<1>3. TypeOK'
  BY <1>0, <1>1, <1>2 DEF TypeOK, ApiTypeOK
<1>4. \A s \in learned : s = call[c].on /\ call'[c] = Idle
  BY <1>0 DEF TypeOK, ApiTypeOK
<1>5. \A s \in Known(page) : document'[s] # "none"
  <2>1. HandlerIsWell(c)
    BY <1>0 DEF SessionInv, HandlersAreWell
  <2>. QED
    BY <1>0, <1>4, <2>1 DEF GoesOnTo, PageIsWell, HandlerIsWell, Known
<1>6. PageIsWell(tab[t])'
  <2>1. Rests(page) /\ page.at \notin {"check", "logout"}
    BY DEF GoesOnTo, Rests, Awaits
  <2>. QED
    BY <1>2, <1>5, <2>1 DEF PageIsWell, Known, IsDone, InMind, Rests
<1>7. LearnsFairly(t) /\ IsPast(tab[t])'
  <2>1. \A s \in Known(page) : s \in Known(tab[t]) \/ (s = call[c].on /\ call'[c].at = "idle")
    BY <1>4 DEF GoesOnTo, Idle
  <2>2. LearnsFairly(t)
    BY <1>0, <1>2, <2>1 DEF LearnsFairly, Known, Busy
  <2>3. IsPast(page)
    BY DEF GoesOnTo, Rests
  <2>4. IsPast(tab[t])'
    BY <1>2, <2>3 DEF IsPast, InMind
  <2>. QED
    BY <2>2, <2>4
<1>8. ASSUME page.queue \in SessionIds
      PROVE  /\ cookie # page.queue /\ page.reported # page.queue /\ page.queue \notin page.out
             /\ \A u \in Tabs \ {t} : page.queue \notin Holds(u)
  <2>1. page.queue \notin page.out /\ page.reported = tab[t].reported
    BY <1>8 DEF GoesOnTo
  <2>2. CASE page.queue = tab[t].queue
    BY <1>0, <1>8, <2>1, <2>2 DEF IsOwn
  <2>3. CASE page.queue \in written
    <3>1. Exchange(c) /\ page.queue = call[c].on /\ IsNobodys(c)
      BY <1>0, <1>4, <2>3 DEF SessionInv, NewIsNobodys
    <3>2. ASSUME NEW u \in Tabs \ {t}, NEW d \in Calls, d = tab[u].call PROVE call[d].on # page.queue
      <4>1. Busy(d) /\ d # Nothing
        BY <3>2, SessionsAssumption DEF SessionInv, PagesAreWell, PageIsWell
      <4>2. d # c
        BY <3>2, <4>1 DEF SessionInv, CallsAreApart
      <4>. QED
        BY <3>1, <4>1, <4>2 DEF IsNobodys
    <3>3. page.reported # page.queue
      BY <1>8, <2>1, <3>1 DEF IsNobodys, Known
    <3>. QED
      BY <2>1, <3>1, <3>2, <3>3 DEF IsNobodys, Holds
  <2>. QED
    BY <1>8, <2>2, <2>3 DEF GoesOnTo
<1>. QED
  BY <1>1, <1>2, <1>3, <1>6, <1>7, <1>8, PageKeeps DEF GoesOnTo, Rests

LEMMA RunKeeps ==
  ASSUME SessionInv, NEW t \in Tabs, Run(t)
  PROVE  SessionInv'
<1>. DEFINE candidate == Candidate(tab[t])
<1>0. /\ TypeOK /\ PageIsWell(tab[t]) /\ tab[t] \in TabStates
      /\ tab[t].call = Nothing /\ left \subseteq SessionIds
  BY OnePage DEF SessionInv, PagesAreWell, Run, PageIsWell, Awaits, TypeOK
<1>1. CASE tab[t].ticket # Nothing
  <2>1. PICK c \in Calls : /\ Request(c, "exchange", tab[t].ticket)
                           /\ tab' = [tab EXCEPT ![t].at = "exchange", ![t].call = c]
    BY <1>1 DEF Run
  <2>2. tab' = [tab EXCEPT ![t] = [tab[t] EXCEPT !.at = "exchange", !.call = c]]
    BY <1>0, <2>1 DEF TypeOK
  <2>3. tab[t].ticket \in Tickets /\ tab[t].ticket \notin tab[t].out /\ IsDone(tab[t])
    BY <1>0, <1>1, SessionsAssumption DEF TabStates, PageIsWell, IsDone
  <2>4. Asks("exchange", tab[t].ticket)
    BY <2>3 DEF Asks
  <2>5. UNCHANGED <<document, expired, cookie, slow, left>>
    BY DEF Run
  <2>6. "exchange" = Awaits("exchange")
    BY DEF Awaits
  <2>. QED
    BY <1>0, <1>1, <2>1, <2>2, <2>3, <2>4, <2>5, <2>6, AskKeeps
<1>2. CASE tab[t].ticket = Nothing /\ (tab[t].fresh \/ candidate = Nothing)
  <2>. DEFINE page == [tab[t] EXCEPT !.at = "ready"]
  <2>1. /\ tab' = [tab EXCEPT ![t] = page]
        /\ UNCHANGED <<document, expired, cookie, slow, left, call>>
    BY <1>2 DEF Run, Restore
  <2>2. /\ page \in TabStates /\ page.at = "ready" /\ page.call = Nothing
        /\ page.fresh = tab[t].fresh /\ page.session = tab[t].session
        /\ page.ticket = tab[t].ticket /\ page.queue = tab[t].queue
        /\ page.signedOut = tab[t].signedOut /\ page.out = tab[t].out
        /\ page.reported = tab[t].reported
    BY <1>0 DEF TabStates
  <2>3. tab'[t] = page /\ (\A u \in Tabs \ {t} : tab'[u] = tab[u]) /\ tab' \in [Tabs -> TabStates]
    BY <1>0, <2>1, <2>2 DEF TypeOK
  <2>. HIDE DEF page
  <2>4. TypeOK' /\ \A d \in Calls : HandlerIsWell(d)'
    BY <1>0, <2>1, <2>3 DEF TypeOK, ApiTypeOK, SessionInv, HandlersAreWell, HandlerIsWell, Busy
  <2>5. Known(page) = Known(tab[t]) /\ InMind(page) = InMind(tab[t])
    BY <2>2 DEF Known, InMind
  <2>6. PageIsWell(tab[t])'
    BY <1>0, <2>1, <2>2, <2>3, <2>5 DEF PageIsWell, Awaits, Known, InMind, IsDone
  <2>7. LearnsFairly(t) /\ AsksFairly(t)
    BY <2>1, <2>3, <2>5 DEF LearnsFairly, AsksFairly, Known, Busy
  <2>8. IsPast(tab[t])' /\ IsOwn(t, tab[t])
    BY <2>1, <2>2, <2>3, <2>5 DEF SessionInv, PastIsPast, WritesAreOwn, IsPast, InMind
  <2>. QED
    BY <2>1, <2>2, <2>3, <2>4, <2>6, <2>7, <2>8, PageKeeps DEF IsOwn
<1>3. CASE tab[t].ticket = Nothing /\ ~(tab[t].fresh \/ candidate = Nothing)
  <2>1. PICK c \in Calls : /\ Request(c, "validate", candidate)
                           /\ tab' = [tab EXCEPT ![t] = [tab[t] EXCEPT !.at = "check", !.call = c]]
    BY <1>3 DEF Run, Restore
  <2>2. /\ candidate \in Known(tab[t]) /\ candidate \in SessionIds
        /\ candidate \notin tab[t].out /\ IsDone(tab[t])
        /\ tab[t].session # Nothing => candidate = tab[t].session
    BY <1>0, <1>3 DEF Candidate, Readable, Known, PageIsWell, IsDone, TabStates, MaybeSession
  <2>3. Asks("validate", candidate)
    BY <1>0, <2>2 DEF Asks, PageIsWell
  <2>5. UNCHANGED <<document, expired, cookie, slow, left>>
    BY DEF Run
  <2>6. "validate" = Awaits("check")
    BY DEF Awaits
  <2>. HIDE DEF candidate
  <2>. QED
    BY <1>0, <1>3, <2>1, <2>2, <2>3, <2>5, <2>6, AskKeeps
<1>. QED
  BY <1>1, <1>2, <1>3

LEMMA LogoutKeeps ==
  ASSUME SessionInv, NEW t \in Tabs, Logout(t)
  PROVE  SessionInv'
<1>0. TypeOK /\ PageIsWell(tab[t]) /\ tab[t] \in TabStates
  BY OnePage DEF SessionInv, PagesAreWell
<1>1. /\ tab[t].call = Nothing /\ tab[t].session \in SessionIds /\ IsDone(tab[t])
      /\ tab[t].session \in Known(tab[t]) /\ tab[t].ticket = Nothing
  BY <1>0, SessionsAssumption DEF Logout, PageIsWell, Awaits, TabStates, MaybeSession, Known
<1>2. PICK c \in Calls : /\ Request(c, "logout", tab[t].session)
                         /\ tab' = [tab EXCEPT ![t].at = "logout", ![t].call = c]
  BY DEF Logout
<1>3. tab' = [tab EXCEPT ![t] = [tab[t] EXCEPT !.at = "logout", !.call = c]]
  BY <1>0, <1>2 DEF TypeOK
<1>4. /\ left' = left \cup {tab[t].session} /\ left' \subseteq SessionIds
      /\ UNCHANGED <<document, expired, cookie, slow>>
  BY <1>0, <1>1 DEF Logout, TypeOK
<1>5. Asks("logout", tab[t].session)
  BY <1>0, <1>1, <1>4 DEF Asks, PageIsWell, Known
<1>6. "logout" = Awaits("logout")
  BY DEF Awaits
<1>. QED
  BY <1>1, <1>2, <1>3, <1>4, <1>5, <1>6, AskKeeps

\* What was signed out from last is in mind.
LEMMA LatestInMind ==
  ASSUME NEW q \in Seq(SessionIds), NEW s \in SessionIds
  PROVE  /\ Latest(Append(q, s)) \in Seq(SessionIds)
         /\ \E i \in 1..Len(Latest(Append(q, s))) : Latest(Append(q, s))[i] = s
<1>. DEFINE r == Append(q, s)
<1>0. MaxSignedOut \in Nat /\ MaxSignedOut >= 1
  BY SignedOutAssumption
<1>1. r \in Seq(SessionIds) /\ Len(r) = Len(q) + 1 /\ r[Len(r)] = s /\ Len(q) \in Nat
  OBVIOUS
<1>. HIDE DEF r
<1>2. CASE Len(r) <= MaxSignedOut
  BY <1>1, <1>2 DEF Latest, r
<1>3. CASE ~(Len(r) <= MaxSignedOut)
  <2>. DEFINE m == Len(r) - MaxSignedOut + 1
  <2>1. m \in 1..Len(r) /\ Len(r) \in Nat
    BY <1>0, <1>1, <1>3
  <2>2. /\ SubSeq(r, m, Len(r)) \in Seq(SessionIds)
        /\ Len(SubSeq(r, m, Len(r))) = MaxSignedOut
        /\ SubSeq(r, m, Len(r))[MaxSignedOut] = r[Len(r)]
    BY <1>0, <1>1, <2>1
  <2>3. Latest(r) = SubSeq(r, m, Len(r))
    BY <1>3 DEF Latest
  <2>. QED
    <3>1. /\ Latest(r) \in Seq(SessionIds) /\ Len(Latest(r)) = MaxSignedOut
          /\ Latest(r)[MaxSignedOut] = s /\ MaxSignedOut \in 1..MaxSignedOut
      BY <1>0, <1>1, <2>2, <2>3
    <3>. QED
      BY <3>1 DEF r
<1>. QED
  BY <1>2, <1>3

\* The ways in which a page that has waited goes on.
LEMMA RestingPages ==
  ASSUME SessionInv, NEW t \in Tabs, tab[t].call # Nothing
  PROVE  /\ tab[t].at = "exchange" => GoesOnTo(tab[t], Exchanged(tab[t], "error", Nothing), {}, {})
         /\ tab[t].at = "check" => GoesOnTo(tab[t], Unanswered(tab[t]), {}, {})
         /\ tab[t].at = "logout" /\ tab[t].session \in SessionIds =>
              GoesOnTo(tab[t], LoggedOut(tab[t]), {}, {})
         /\ \A s \in SessionIds :
              /\ tab[t].at = "check" =>
                   /\ \A answer \in {"no", "error"} : GoesOnTo(tab[t], Checked(tab[t], answer, s), {s}, {})
                   /\ s \notin tab[t].out => GoesOnTo(tab[t], Checked(tab[t], "yes", s), {s}, {})
              /\ tab[t].at = "exchange" /\ s \notin tab[t].out =>
                   GoesOnTo(tab[t], Exchanged(tab[t], "yes", s), {s}, {s})
<1>. DEFINE page == tab[t]
<1>0. /\ TypeOK /\ PageIsWell(page) /\ page \in TabStates /\ page.call # Nothing
      /\ IsPast(page) /\ IsOwn(t, page) /\ IsDone(page)
  BY OnePage DEF SessionInv, PagesAreWell, PastIsPast, WritesAreOwn, PageIsWell
<1>. HIDE DEF page
<1>. USE SessionsAssumption, DeleteAssumption, RetriesAssumption
<1>1. GoesOnTo(page, Exchanged(page, "error", Nothing), {}, {})
  <2>. DEFINE next == [page EXCEPT !.ticket = Nothing, !.at = "restore", !.call = Nothing]
  <2>1. /\ next \in TabStates /\ next.at = "restore" /\ next.call = Nothing /\ next.ticket = Nothing
        /\ next.fresh = page.fresh /\ next.session = page.session /\ next.queue = page.queue
        /\ next.signedOut = page.signedOut /\ next.out = page.out /\ next.reported = page.reported
    BY <1>0 DEF TabStates
  <2>. HIDE DEF next
  <2>2. Known(next) = Known(page) /\ InMind(next) = InMind(page)
    BY <2>1 DEF Known, InMind
  <2>3. Rests(next)
    BY <1>0, <2>1, <2>2 DEF Rests, PageIsWell, Awaits, IsDone, IsPast
  <2>4. GoesOnTo(page, next, {}, {})
    BY <1>0, <2>1, <2>2, <2>3 DEF GoesOnTo, IsOwn
  <2>. QED
    BY <2>4 DEF next, Exchanged
<1>2. GoesOnTo(page, Unanswered(page), {}, {})
  <2>1. ASSUME NEW at \in {"again", "ready"}, NEW r \in 0..MaxRetries
        PROVE  GoesOnTo(page, [page EXCEPT !.retries = r, !.at = at, !.call = Nothing], {}, {})
    <3>. DEFINE next == [page EXCEPT !.retries = r, !.at = at, !.call = Nothing]
    <3>1. /\ next \in TabStates /\ next.at = at /\ next.call = Nothing /\ next.ticket = page.ticket
          /\ next.fresh = page.fresh /\ next.session = page.session /\ next.queue = page.queue
          /\ next.signedOut = page.signedOut /\ next.out = page.out /\ next.reported = page.reported
      BY <1>0 DEF TabStates
    <3>. HIDE DEF next
    <3>2. Known(next) = Known(page) /\ InMind(next) = InMind(page)
      BY <3>1 DEF Known, InMind
    <3>3. Rests(next)
      BY <1>0, <3>1, <3>2 DEF Rests, PageIsWell, Awaits, IsDone, IsPast
    <3>4. GoesOnTo(page, next, {}, {})
      BY <1>0, <3>1, <3>2, <3>3 DEF GoesOnTo, IsOwn
    <3>. QED
      BY <3>4 DEF next
  <2>2. CASE page.retries < MaxRetries
    <3>1. page.retries + 1 \in 0..MaxRetries
      BY <1>0, <2>2 DEF TabStates
    <3>2. Unanswered(page) = [page EXCEPT !.retries = page.retries + 1, !.at = "again", !.call = Nothing]
      BY <1>0, <2>2 DEF Unanswered, TabStates
    <3>. QED
      BY <2>1, <3>1, <3>2
  <2>3. CASE ~(page.retries < MaxRetries)
    <3>1. 0 \in 0..MaxRetries
      OBVIOUS
    <3>2. Unanswered(page) = [page EXCEPT !.retries = 0, !.at = "ready", !.call = Nothing]
      BY <2>3 DEF Unanswered
    <3>. QED
      BY <2>1, <3>1, <3>2
  <2>. QED
    BY <2>2, <2>3
<1>3. ASSUME NEW s \in SessionIds, page.ticket = Nothing
      PROVE  GoesOnTo(page, Cleared(page, s), {s}, {})
  <2>. DEFINE next == Cleared(page, s)
              q == Latest(Append(page.signedOut, s))
  <2>0. page.signedOut \in Seq(SessionIds)
    BY <1>0 DEF TabStates
  <2>1. q \in Seq(SessionIds) /\ \E i \in 1..Len(q) : q[i] = s
    BY <2>0, LatestInMind
  <2>. HIDE DEF q
  <2>2. /\ next \in TabStates /\ next.at = "ready" /\ next.call = Nothing /\ next.ticket = page.ticket
        /\ next.fresh = FALSE /\ next.session = Nothing /\ next.queue = Delete
        /\ next.signedOut = q /\ next.out = page.out \cup {s} /\ next.reported = page.reported
    <3>1. next = [page EXCEPT !.session = Nothing, !.fresh = FALSE, !.at = "ready", !.call = Nothing,
                              !.signedOut = q, !.queue = Delete, !.out = page.out \cup {s}]
      BY <1>0 DEF Cleared, TabStates, q
    <3>. HIDE DEF next
    <3>. QED
      BY <1>0, <2>1, <3>1 DEF TabStates, MaybeSession
  <2>. HIDE DEF next
  <2>3. s \in InMind(next) /\ Known(next) \subseteq Known(page) \cup {s}
    BY <2>1, <2>2 DEF InMind, Known
  <2>4. page.reported \notin page.out /\ page.queue # Delete /\ \A r \in page.out : cookie # r
    BY <1>0 DEF IsDone, IsPast
  <2>5. IsPast(next)
    BY <2>2, <2>3, <2>4 DEF IsPast
  <2>6. Nothing \notin next.out
    BY <1>0, <2>2 DEF TabStates
  <2>7. Rests(next)
    BY <1>3, <2>2, <2>3, <2>4, <2>5, <2>6 DEF Rests, Awaits
  <2>8. GoesOnTo(page, next, {s}, {})
    BY <2>2, <2>3, <2>7 DEF GoesOnTo
  <2>. QED
    BY <2>8 DEF next
<1>4. ASSUME NEW s \in SessionIds, s \notin page.out, page.ticket = Nothing
      PROVE  GoesOnTo(page, Remembered(page, s), {s}, {})
  <2>. DEFINE next == Remembered(page, s)
  <2>1. /\ next \in TabStates /\ next.at = "ready" /\ next.call = Nothing /\ next.ticket = page.ticket
        /\ next.session = s /\ next.queue = page.queue
        /\ next.signedOut = page.signedOut /\ next.out = page.out /\ next.reported = page.reported
    BY <1>0, <1>4 DEF Remembered, TabStates, MaybeSession
  <2>. HIDE DEF next
  <2>2. Known(next) \subseteq Known(page) \cup {s} /\ InMind(next) = InMind(page)
    BY <2>1 DEF Known, InMind
  <2>3. Rests(next)
    BY <1>0, <1>4, <2>1, <2>2 DEF Rests, PageIsWell, Awaits, IsDone, IsPast
  <2>4. GoesOnTo(page, next, {s}, {})
    BY <1>0, <2>1, <2>2, <2>3 DEF GoesOnTo, IsOwn
  <2>. QED
    BY <2>4 DEF next
<1>5. ASSUME NEW p, NEW L, GoesOnTo(page, p, L, {}) PROVE GoesOnTo(page, [p EXCEPT !.retries = 0], L, {})
  <2>. DEFINE next == [p EXCEPT !.retries = 0]
  <2>1. /\ next \in TabStates /\ next.at = p.at /\ next.call = p.call /\ next.ticket = p.ticket
        /\ next.fresh = p.fresh /\ next.session = p.session /\ next.queue = p.queue
        /\ next.signedOut = p.signedOut /\ next.out = p.out /\ next.reported = p.reported
    BY <1>5 DEF GoesOnTo, Rests, TabStates
  <2>. HIDE DEF next
  <2>2. Known(next) = Known(p) /\ InMind(next) = InMind(p)
    BY <2>1 DEF Known, InMind
  <2>3. Rests(next)
    BY <1>5, <2>1, <2>2 DEF GoesOnTo, Rests, IsDone, IsPast
  <2>4. GoesOnTo(page, next, L, {})
    BY <1>5, <2>1, <2>2, <2>3 DEF GoesOnTo
  <2>. QED
    BY <2>4 DEF next
<1>6. ASSUME NEW s \in SessionIds, s \notin page.out
      PROVE  GoesOnTo(page, Exchanged(page, "yes", s), {s}, {s})
  <2>. DEFINE next == [Remembered(page, s) EXCEPT !.ticket = Nothing, !.queue = s]
  <2>1. /\ next \in TabStates /\ next.at = "ready" /\ next.call = Nothing /\ next.ticket = Nothing
        /\ next.session = s /\ next.queue = s
        /\ next.signedOut = page.signedOut /\ next.out = page.out /\ next.reported = page.reported
    BY <1>0, <1>6 DEF Remembered, TabStates, MaybeSession
  <2>. HIDE DEF next
  <2>2. Known(next) \subseteq Known(page) \cup {s} /\ InMind(next) = InMind(page)
    BY <2>1 DEF Known, InMind
  <2>3. Rests(next)
    BY <1>0, <1>6, <2>1, <2>2 DEF Rests, PageIsWell, Awaits, IsDone, IsPast
  <2>4. GoesOnTo(page, next, {s}, {s})
    BY <1>6, <2>1, <2>2, <2>3 DEF GoesOnTo
  <2>. QED
    BY <2>4 DEF next, Exchanged
<1>7. page.at \in {"check", "logout"} => page.ticket = Nothing
  BY <1>0 DEF PageIsWell
<1>8. page.at = "logout" /\ page.session \in SessionIds => GoesOnTo(page, LoggedOut(page), {}, {})
  <2>. SUFFICES ASSUME page.at = "logout", page.session \in SessionIds
                PROVE  GoesOnTo(page, LoggedOut(page), {}, {})
    OBVIOUS
  <2>1. GoesOnTo(page, LoggedOut(page), {page.session}, {})
    BY <1>3, <1>5, <1>7 DEF LoggedOut
  <2>2. page.session \in Known(page)
    BY DEF Known
  <2>. QED
    BY <2>1, <2>2 DEF GoesOnTo
<1>9. ASSUME NEW s \in SessionIds, page.at = "check"
      PROVE  /\ \A answer \in {"no", "error"} : GoesOnTo(page, Checked(page, answer, s), {s}, {})
             /\ s \notin page.out => GoesOnTo(page, Checked(page, "yes", s), {s}, {})
  <2>1. GoesOnTo(page, Cleared(page, s), {s}, {})
    BY <1>3, <1>7, <1>9
  <2>2. s \notin page.out => GoesOnTo(page, Remembered(page, s), {s}, {})
    BY <1>4, <1>7, <1>9
  <2>3. Checked(page, "no", s) = [Cleared(page, s) EXCEPT !.retries = 0]
    BY DEF Checked
  <2>4. Checked(page, "yes", s) = [Remembered(page, s) EXCEPT !.retries = 0]
    BY DEF Checked
  <2>5. Checked(page, "error", s) = Cleared(page, s)
    BY DEF Checked
  <2>. QED
    BY <1>5, <2>1, <2>2, <2>3, <2>4, <2>5
<1>. QED
  BY <1>1, <1>2, <1>6, <1>8, <1>9 DEF page

\* What the thread of a page that waits for an answer holds.
LEMMA AnswerIsWell ==
  ASSUME SessionInv, NEW t \in Tabs, tab[t].call # Nothing
  PROVE  /\ tab[t].call \in Calls
         /\ tab[t].at \in {"exchange", "check", "logout"}
         /\ tab[t].at = "logout" => tab[t].session \in SessionIds
         /\ tab[t].at = "check" => call[tab[t].call].op = "validate"
         /\ tab[t].at = "exchange" /\ call[tab[t].call].at = "yes" => Exchange(tab[t].call)
         /\ tab[t].at = "check" \/ (tab[t].at = "exchange" /\ call[tab[t].call].at = "yes") =>
              call[tab[t].call].on \in SessionIds /\ call[tab[t].call].on \notin tab[t].out
<1>1. PageIsWell(tab[t]) /\ tab[t].call \in Calls /\ left \subseteq SessionIds
  BY OnePage DEF SessionInv, PagesAreWell, TabStates, TypeOK
<1>2. HandlerIsWell(tab[t].call) /\ Busy(tab[t].call)
  BY <1>1 DEF SessionInv, HandlersAreWell, PageIsWell
<1>3. tab[t].at \in {"exchange", "check", "logout"}
  BY <1>1 DEF PageIsWell, Awaits
<1>. QED
  BY <1>1, <1>2, <1>3 DEF PageIsWell, HandlerIsWell, Awaits, Exchange

LEMMA ReceiveKeeps ==
  ASSUME SessionInv, NEW t \in Tabs, Receive(t)
  PROVE  SessionInv'
<1>. DEFINE c == tab[t].call
            answer == call[c].at
            s == call[c].on
            page == CASE tab[t].at = "exchange" -> Exchanged(tab[t], answer, s)
                      [] tab[t].at = "check"    -> Checked(tab[t], answer, s)
                      [] tab[t].at = "logout"   -> LoggedOut(tab[t])
<1>1. c # Nothing /\ answer \in Answers
  BY DEF Receive
<1>2. /\ tab' = [tab EXCEPT ![t] = page]
      /\ call' = [call EXCEPT ![c] = Idle]
      /\ UNCHANGED <<document, expired, cookie, slow, left>>
  BY DEF Receive
<1>3. /\ tab[t].at \in {"exchange", "check", "logout"}
      /\ tab[t].at = "logout" => tab[t].session \in SessionIds
      /\ tab[t].at = "check" \/ (tab[t].at = "exchange" /\ answer = "yes") =>
           s \in SessionIds /\ s \notin tab[t].out
      /\ tab[t].at = "exchange" /\ answer = "yes" => Exchange(c)
  BY <1>1, AnswerIsWell
<1>4. \E learned \in SUBSET {s} : \E written \in SUBSET learned :
        GoesOnTo(tab[t], page, learned, written) /\ (written # {} => Exchange(c))
  <2>1. CASE tab[t].at = "exchange" /\ answer = "yes"
    <3>1. GoesOnTo(tab[t], page, {s}, {s})
      BY <1>1, <1>3, <2>1, RestingPages
    <3>. QED
      BY <1>3, <2>1, <3>1
  <2>2. CASE tab[t].at = "exchange" /\ answer # "yes"
    <3>1. page = Exchanged(tab[t], "error", Nothing)
      BY <2>2 DEF Exchanged
    <3>2. GoesOnTo(tab[t], page, {}, {})
      BY <1>1, <2>2, <3>1, RestingPages
    <3>. QED
      BY <3>2
  <2>3. CASE tab[t].at = "check"
    <3>1. GoesOnTo(tab[t], page, {s}, {})
      BY <1>1, <1>3, <2>3, RestingPages DEF Answers
    <3>. QED
      BY <3>1
  <2>4. CASE tab[t].at = "logout"
    <3>1. GoesOnTo(tab[t], page, {}, {})
      BY <1>1, <1>3, <2>4, RestingPages
    <3>. QED
      BY <3>1
  <2>. QED
    BY <1>3, <2>1, <2>2, <2>3, <2>4
<1>. HIDE DEF page
<1>. QED
  BY <1>1, <1>2, <1>4, GoOnKeeps

LEMMA MissKeeps ==
  ASSUME SessionInv, NEW t \in Tabs, Miss(t)
  PROVE  SessionInv'
<1>. DEFINE c == tab[t].call
            page == CASE tab[t].at = "exchange" -> Exchanged(tab[t], "error", Nothing)
                      [] tab[t].at = "check"    -> Unanswered(tab[t])
                      [] tab[t].at = "logout"   -> LoggedOut(tab[t])
<1>1. c # Nothing /\ c \in Calls /\ call \in [Calls -> Handlers \cup {Idle}]
  BY AnswerIsWell DEF Miss, SessionInv, TypeOK, ApiTypeOK
<1>2. /\ tab' = [tab EXCEPT ![t] = page]
      /\ call' = [call EXCEPT ![c] = Released(c)]
      /\ UNCHANGED <<document, expired, cookie, slow, left>>
  BY <1>1 DEF Miss, Released
<1>3. GoesOnTo(tab[t], page, {}, {}) /\ {} \in SUBSET {call[c].on} /\ {} \in SUBSET {}
  BY <1>1, RestingPages, AnswerIsWell
<1>. HIDE DEF page
<1>. QED
  BY <1>1, <1>2, <1>3, GoOnKeeps

-----------------------------------------------------------------------------
LEMMA SessionStep == SessionInv /\ [Next]_vars => SessionInv'
<1>. SUFFICES ASSUME SessionInv, [Next]_vars PROVE SessionInv'
  OBVIOUS
<1>1. ASSUME NEW c \in Calls, Api(c) PROVE SessionInv'
  BY <1>1, ApiKeeps
<1>2. ASSUME NEW d \in Documents, Expire(d), UNCHANGED <<tab, cookie, slow, left>> PROVE SessionInv'
  BY <1>2, ExpireKeeps
<1>3. ASSUME NEW t \in Tabs, Browser(t) \/ Script(t) PROVE SessionInv'
  BY <1>3, BrowserKeeps, RunKeeps, LogoutKeeps, ReceiveKeeps, MissKeeps DEF Script
<1>4. ASSUME UNCHANGED <<document, expired, call, tab, cookie, left>>, slow' \in BOOLEAN PROVE SessionInv'
  <2>1. TypeOK'
    BY <1>4 DEF SessionInv, TypeOK, ApiTypeOK
  <2>2. HandlersAreWell'
    BY <1>4 DEF SessionInv, HandlersAreWell, HandlerIsWell, Busy
  <2>3. PagesAreWell'
    BY <1>4 DEF SessionInv, PagesAreWell, PageIsWell, Known, Busy, IsDone, InMind
  <2>4. PastIsPast' /\ WritesAreOwn' /\ NewIsNobodys'
    BY <1>4 DEF SessionInv, PastIsPast, IsPast, InMind, WritesAreOwn, IsOwn, Holds, Known,
                NewIsNobodys, IsNobodys, Exchange, Busy
  <2>. QED
    BY <1>4, <2>1, <2>2, <2>3, <2>4 DEF SessionInv, CallsAreApart, CookieIsKnown, EndedIsLeft
<1>5. CASE Recover
  BY <1>4, <1>5 DEF Recover, apiVars
<1>6. CASE UNCHANGED vars
  BY <1>4, <1>6 DEF vars, apiVars, SessionInv, TypeOK
<1>. QED
  BY <1>1, <1>2, <1>3, <1>5, <1>6 DEF Next

\* In every reachable state the API's threads, the tabs and the cookie satisfy the
\* inductive invariant (ui/components/auth_widget.py, core/saas/services.py).
THEOREM SessionInvariance == Spec => []SessionInv
<1>. QED
  BY InitSessionInv, SessionStep, PTL DEF Spec

\* A tab, the cookie, its reports and the API's threads have the types that their
\* modules give them.
THEOREM TypeCorrect == Spec => []TypeOK
<1>1. SessionInv => TypeOK
  BY DEF SessionInv
<1>. QED
  BY <1>1, SessionInvariance, PTL

\* Over all tabs, cookies and documents, however calls fail or time out: a tab does
\* not take up again a session that it has signed out from, and its retries end.
THEOREM TabsStaySound == Spec => []TabsAreSound
<1>1. SessionInv => TabsAreSound
  BY DEF SessionInv, TabsAreSound, SignedOutStaysOut, PagesAreWell, PageIsWell
<1>. QED
  BY <1>1, SessionInvariance, PTL

-----------------------------------------------------------------------------
(* What a step may do to the session of a page.                             *)

\* The page of u stays, starts anew, or forgets for a reason.
SignOutHasReason(u) == Forgets(u) => ApiFailed(u) \/ tab[u].session \in left \cup expired

LEMMA AnswerHasReason ==
  ASSUME SessionInv, NEW t \in Tabs, Receive(t) \/ Miss(t)
  PROVE  SignOutHasReason(t)
<1>. DEFINE c == tab[t].call
<1>0. /\ TypeOK /\ PageIsWell(tab[t]) /\ tab[t] \in TabStates /\ c # Nothing /\ c \in Calls
      /\ HandlerIsWell(c) /\ Busy(c)
  BY OnePage, AnswerIsWell DEF SessionInv, PagesAreWell, HandlersAreWell, PageIsWell, Receive, Miss
<1>. SUFFICES ASSUME tab[t].session # Nothing, tab'[t].session = Nothing, ~ApiFailed(t)
              PROVE  tab[t].session \in left \cup expired
  BY DEF SignOutHasReason, Forgets
<1>1. CASE tab[t].at = "logout"
  BY <1>0, <1>1 DEF PageIsWell
<1>2. CASE tab[t].at = "check"
  <2>1. CASE Miss(t)
    <3>1. tab'[t] = Unanswered(tab[t])
      BY <1>0, <1>2, <2>1 DEF Miss, TypeOK
    <3>. QED
      BY <1>0, <3>1 DEF Unanswered, TabStates
  <2>2. CASE Receive(t)
    <3>1. tab'[t] = Checked(tab[t], call[c].at, call[c].on) /\ call[c].at \in {"yes", "no"}
      BY <1>0, <1>2, <2>2 DEF Receive, TypeOK, ApiFailed, Answers
    <3>2. call[c].on \in SessionIds /\ call[c].op = "validate" /\ tab[t].session = call[c].on
      BY <1>0, <1>2, AnswerIsWell DEF PageIsWell
    <3>3. CASE call[c].at = "yes"
      <4>1. tab'[t].session = call[c].on
        BY <1>0, <3>1, <3>2, <3>3 DEF Checked, Remembered, TabStates, MaybeSession
      <4>. QED
        BY <3>2, <4>1, SessionsAssumption
    <3>4. CASE call[c].at = "no"
      BY <1>0, <3>2, <3>4 DEF HandlerIsWell
    <3>. QED
      BY <3>1, <3>3, <3>4
  <2>. QED
    BY <2>1, <2>2
<1>3. CASE tab[t].at = "exchange"
  <2>1. PICK answer, s : /\ tab'[t] = Exchanged(tab[t], answer, s)
                         /\ answer = "yes" => s \in SessionIds
    <3>1. CASE Miss(t)
      BY <1>0, <1>3, <3>1 DEF Miss, TypeOK
    <3>2. CASE Receive(t)
      BY <1>0, <1>3, <3>2, AnswerIsWell DEF Receive, TypeOK
    <3>. QED
      BY <3>1, <3>2
  <2>2. CASE answer = "yes"
    <3>1. tab'[t].session = s
      BY <1>0, <2>1, <2>2 DEF Exchanged, Remembered, TabStates
    <3>. QED
      BY <2>1, <2>2, <3>1, SessionsAssumption
  <2>3. CASE answer # "yes"
    <3>1. tab'[t].session = tab[t].session
      BY <1>0, <2>1, <2>3 DEF Exchanged, TabStates
    <3>. QED
      BY <3>1
  <2>. QED
    BY <2>2, <2>3
<1>. QED
  BY <1>0, <1>1, <1>2, <1>3, AnswerIsWell

LEMMA SignOutsHaveReasons ==
  SessionInv /\ [Next]_vars => \A t \in Tabs : SignOutHasReason(t)
<1>. SUFFICES ASSUME SessionInv, [Next]_vars, NEW t \in Tabs PROVE SignOutHasReason(t)
  OBVIOUS
<1>0. TypeOK /\ tab[t] \in TabStates
  BY OnePage DEF SessionInv
<1>1. ASSUME tab'[t].session = tab[t].session PROVE SignOutHasReason(t)
  BY <1>1 DEF SignOutHasReason, Forgets
<1>2. ASSUME NEW u \in Tabs, Browser(u) \/ Script(u) PROVE SignOutHasReason(t)
  <2>1. ASSUME NEW ticket, Load(u, ticket) PROVE SignOutHasReason(t)
    <3>1. u = t => tab'[t] = Page("ready", ticket) /\ tab'[t].ticket = ticket
      BY <1>0, <2>1 DEF Load, TypeOK, Page
    <3>2. u # t => tab'[t] = tab[t]
      BY <1>0, <2>1 DEF Load, TypeOK
    <3>. QED
      BY <1>1, <3>1, <3>2 DEF SignOutHasReason, Forgets
  <2>2. CASE Report(u) \/ CarryOut(u) \/ GrowStale(u)
    BY <1>0, <1>1, <2>2 DEF Report, CarryOut, GrowStale, TypeOK, TabStates
  <2>3. CASE Run(u)
    <3>1. \/ \E c \in Calls : tab' = [tab EXCEPT ![u].at = "exchange", ![u].call = c]
          \/ tab' = [tab EXCEPT ![u] = [tab[u] EXCEPT !.at = "ready"]]
          \/ \E c \in Calls : tab' = [tab EXCEPT ![u] = [tab[u] EXCEPT !.at = "check", !.call = c]]
      BY <2>3 DEF Run, Restore
    <3>2. tab \in [Tabs -> TabStates] /\ tab[u] \in TabStates
      BY <1>0 DEF TypeOK
    <3>3. u # t => tab'[t] = tab[t]
      BY <3>1, <3>2
    <3>4. tab'[u].session = tab[u].session
      <4>1. CASE \E c \in Calls : tab' = [tab EXCEPT ![u].at = "exchange", ![u].call = c]
        BY <3>2, <4>1 DEF TabStates
      <4>2. CASE tab' = [tab EXCEPT ![u] = [tab[u] EXCEPT !.at = "ready"]]
        BY <3>2, <4>2 DEF TabStates
      <4>3. CASE \E c \in Calls : tab' = [tab EXCEPT ![u] = [tab[u] EXCEPT !.at = "check", !.call = c]]
        BY <3>2, <4>3 DEF TabStates
      <4>. QED
        BY <3>1, <4>1, <4>2, <4>3
    <3>. QED
      BY <1>1, <3>3, <3>4
  <2>4. CASE Logout(u)
    BY <1>0, <1>1, <2>4 DEF Logout, TypeOK, TabStates
  <2>5. CASE Receive(u) \/ Miss(u)
    <3>1. u # t => tab'[t] = tab[t]
      BY <1>0, <2>5 DEF Receive, Miss, TypeOK
    <3>. QED
      BY <1>1, <2>5, <3>1, AnswerHasReason
  <2>. QED
    BY <1>2, <2>1, <2>2, <2>3, <2>4, <2>5 DEF Browser, Script, SignIn, Open
<1>3. CASE UNCHANGED tab
  BY <1>1, <1>3
<1>. QED
  BY <1>2, <1>3 DEF Next, Api, Recover, vars

\* Short of an error of the API, a page forgets its session only when that session
\* expired or some page has logged out from it.
THEOREM NoNeedlessSignOutHolds == Spec => NoNeedlessSignOut
<1>1. SessionInv /\ [Next]_vars =>
        [\A t \in Tabs : Forgets(t) =>
           ApiFailed(t) \/ tab[t].session \in left \cup expired]_vars
  BY SignOutsHaveReasons DEF SignOutHasReason
<1>. QED
  BY <1>1, SessionInvariance, PTL DEF Spec, NoNeedlessSignOut
=============================================================================
