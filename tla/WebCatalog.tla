----------------------------- MODULE WebCatalog -----------------------------
(***************************************************************************)
(* The catalog page in the browser tabs of one session                     *)
(* (ui/pages/catalog.py) and the background threads that read the stream   *)
(* of details (ui/catalog_load.py).                                        *)
(*                                                                         *)
(* A tab runs one script at a time: a full run of the page, or, while the  *)
(* load goes on, its fragment every other second.  A load goes on when its *)
(* page is left, until its next line finds that it was stopped or that     *)
(* nobody has looked at it for IDLE_STOP_SECONDS.  A tab that was signed   *)
(* out is not used again.                                                  *)
(***************************************************************************)
EXTENDS Naturals

CONSTANTS
  Tabs, Loads, Forms,
  MaxChanges,
  Listing,     \* Listing[n]: the forms that Drive lists after n changes
  Nothing

ASSUME ListingAssumption ==
  MaxChanges \in Nat /\ Listing \in [0..MaxChanges -> SUBSET Forms]
ASSUME NothingAssumption == Nothing \notin Loads \cup (0..MaxChanges)

VARIABLES
  drive,  \* how often the list, as the web process knows it, has changed
  page,   \* page[t]: where the script of a tab stands, and what it shows
  load    \* load[l]: a CatalogLoad and its thread

webVars == <<drive, page, load>>

Versions == 0..MaxChanges
Got == {"nothing", "details", "finished"}
Errors == {"none", "revoked", "unavailable", "other"}

Pages == [
  at    : {"away", "run", "rerun", "bar", "look", "watch", "rest", "failed", "out"},
  list  : Versions \cup {Nothing},        \* forms_meta
  load  : Loads \cup {Nothing},           \* st.session_state["catalog_load"]
  click : BOOLEAN,                        \* the refresh button was clicked
  shown : [whole : BOOLEAN, error : Errors]]  \* the table, and a message

LoadStates == [
  at      : {"free", "reading", "closing", "over"},
  list    : Versions \cup {Nothing},      \* form_ids
  told    : [Forms -> Got],               \* what the stream has said
  got     : [Forms -> Got],               \* _summaries, _finished
  idle    : BOOLEAN,                      \* IDLE_STOP_SECONDS since _seen
  stop    : BOOLEAN,
  stopped : BOOLEAN,
  done    : BOOLEAN,
  error   : Errors]

Empty == [f \in Forms |-> "nothing"]
Blank == [whole |-> FALSE, error |-> "none"]
NewLoad(at, n) ==
  [at |-> at, list |-> n, told |-> Empty, got |-> Empty, idle |-> FALSE, stop |-> FALSE,
   stopped |-> FALSE, done |-> FALSE, error |-> "none"]

TypeOK ==
  /\ drive \in Versions
  /\ page \in [Tabs -> Pages]
  /\ load \in [Loads -> LoadStates]

Init ==
  /\ drive = 0
  /\ page = [t \in Tabs |-> [at |-> "away", list |-> Nothing, load |-> Nothing,
                             click |-> FALSE, shown |-> Blank]]
  /\ load = [l \in Loads |-> NewLoad("free", Nothing)]

\* Forms are created or deleted, and the cache of the list (WebDataCache) expires.
ListChanges ==
  /\ drive + 1 \in Versions
  /\ drive' = drive + 1
  /\ UNCHANGED <<page, load>>

-----------------------------------------------------------------------------
(* A load's thread.                                                         *)

\* Mutation: a load that nobody looks at goes on.
LetGoStopped(l) == load[l].stop

\* The next line of the stream is none when the load was stopped or left alone.
LetGo(l) == load[l].stop \/ load[l].idle

\* Mutation: the form of a count that failed is not over.
AppliedUnfinished(kind, ok) == IF ok = (kind = "stats") THEN "finished" ELSE "details"

\* _apply: what comes of a form with a line about it.
Applied(kind, ok) == IF kind = "summary" /\ ok THEN "details" ELSE "finished"

\* The stream says something of a form: its details, or its count once it has
\* said details that are ok (CatalogProgress).
FormLine(l, f, ok) ==
  LET kind == IF load[l].told[f] = "nothing" THEN "summary" ELSE "stats" IN
  /\ f \in Listing[load[l].list] /\ load[l].told[f] # "finished"
  /\ load' = [load EXCEPT ![l].told[f] = IF kind = "summary" /\ ok THEN "details" ELSE "finished",
                           ![l].got[f] = Applied(kind, ok)]

\* The thread leaves its loop; nobody asks it to stop any more.
Quit(old) == [old EXCEPT !.at = "closing", !.stop = FALSE, !.idle = FALSE]

ErrorLine(l, e) == load' = [load EXCEPT ![l] = [Quit(@) EXCEPT !.error = e]]

\* The stream says so only when nothing is missing (CatalogProgress!Done).
DoneLine(l) ==
  /\ \A f \in Listing[load[l].list] : load[l].told[f] = "finished"
  /\ load' = [load EXCEPT ![l] = [Quit(@) EXCEPT !.done = TRUE]]

\* A line comes; one that only says how long the stream waits changes nothing
\* that is kept here.
Line(l) ==
  /\ load[l].at = "reading" /\ ~LetGo(l)
  /\ \/ \E f \in Forms, ok \in BOOLEAN : FormLine(l, f, ok)
     \/ DoneLine(l)
     \/ \E e \in Errors \ {"none"} : ErrorLine(l, e)
  /\ UNCHANGED <<drive, page>>

\* The line after that is not read.
StopReading(l) ==
  /\ load[l].at = "reading" /\ LetGo(l)
  /\ load' = [load EXCEPT ![l] = [Quit(@) EXCEPT !.stopped = TRUE]]
  /\ UNCHANGED <<drive, page>>

Free == NewLoad("free", Nothing)

\* The generator is closed, and with it the stream.
Close(l) ==
  /\ load[l].at = "closing"
  /\ load' = [load EXCEPT ![l] = IF \E t \in Tabs : page[t].load = l
                                 THEN [@ EXCEPT !.at = "over", !.done = TRUE] ELSE Free]
  /\ UNCHANGED <<drive, page>>

\* A tab looks while it watches, and at once after it has taken a load;
\* otherwise IDLE_STOP_SECONDS may pass.
GrowIdle(l) ==
  /\ load[l].at = "reading" /\ ~load[l].idle
  /\ \A t \in Tabs : page[t].load = l => page[t].at \notin {"look", "watch"}
  /\ load' = [load EXCEPT ![l].idle = TRUE]
  /\ UNCHANGED <<drive, page>>

-----------------------------------------------------------------------------
(* A full run of the page.                                                  *)

\* The list, or an error and st.stop().
ReadList(t) ==
  /\ page[t].at \in {"run", "rerun"}
  /\ page' = [page EXCEPT ![t] = [@ EXCEPT !.at = "bar", !.list = drive]]
  /\ UNCHANGED <<drive, load>>

ListFails(t) ==
  /\ page[t].at \in {"run", "rerun"}
  /\ page' = [page EXCEPT ![t] = [@ EXCEPT !.at = "failed", !.click = FALSE]]
  /\ UNCHANGED <<drive, load>>

Visit(t) ==
  /\ page[t].at = "away"
  /\ page' = [page EXCEPT ![t].at = "run"]
  /\ UNCHANGED <<drive, load>>

\* A click somewhere on the page, or on the refresh button.
Interact(t, click) ==
  /\ page[t].at \in {"watch", "rest", "failed"}
  /\ click => page[t].at # "failed" /\ Listing[page[t].list] # {}
  /\ page' = [page EXCEPT ![t] = [@ EXCEPT !.at = "run", !.click = click]]
  /\ UNCHANGED <<drive, load>>

Leave(t) ==
  /\ page[t].at \in {"watch", "rest", "failed"}
  /\ page' = [page EXCEPT ![t].at = "away"]
  /\ UNCHANGED <<drive, load>>

\* A load that is over is gone with its session state.
Dropped(old, stop) == IF old.at = "over" THEN Free ELSE [old EXCEPT !.stop = @ \/ (stop /\ old.at = "reading")]

\* The button: the caches are cleared, the load is stopped and forgotten.
Refresh(t) ==
  /\ page[t].at = "bar" /\ page[t].click /\ Listing[page[t].list] # {}
  /\ load' = [l \in Loads |-> IF l = page[t].load THEN Dropped(load[l], TRUE) ELSE load[l]]
  /\ page' = [page EXCEPT ![t] = [@ EXCEPT !.at = "rerun", !.click = FALSE, !.load = Nothing]]
  /\ UNCHANGED drive

\* The load of this session is one of this list, and has not stopped.
Fits(t) ==
  LET l == page[t].load IN
  l # Nothing /\ Listing[load[l].list] = Listing[page[t].list] /\ ~load[l].stopped

\* _catalog_load.
TakeLoad(t) ==
  /\ page[t].at = "bar" /\ (page[t].click => Listing[page[t].list] = {})
  /\ IF Listing[page[t].list] = {}
     THEN page' = [page EXCEPT ![t] = [@ EXCEPT !.at = "rest", !.click = FALSE, !.shown = Blank]] /\ UNCHANGED load
     ELSE IF Fits(t)
     THEN page' = [page EXCEPT ![t].at = "look"] /\ UNCHANGED load
     ELSE LET l == CHOOSE k \in Loads : load[k].at = "free" IN
            /\ \E k \in Loads : load[k].at = "free"
            /\ load' = [k \in Loads |-> CASE k = l -> NewLoad("reading", page[t].list)
                                         [] k = page[t].load -> Dropped(load[k], FALSE)
                                         [] OTHER -> load[k]]
            /\ page' = [page EXCEPT ![t] = [@ EXCEPT !.at = "look", !.load = l]]
  /\ UNCHANGED drive

\* snapshot() notes that somebody looks.
Snapshot(l) ==
  [whole |-> \A f \in Listing[load[l].list] : load[l].got[f] = "finished",
   error |-> load[l].error]
Seen(l) == load' = [load EXCEPT ![l].idle = FALSE]

\* What an error of the load does to the page that draws it: signs out, or
\* stops the run behind a warning; another one is shown above the table.
Drawn(t, snapshot, at) ==
  [page[t] EXCEPT !.shown = snapshot,
                  !.at = IF snapshot.error = "revoked" THEN "out" ELSE at]

\* Mutation: the fragment draws also a load that is over.
DrawnAlwaysWithTimer(l) == "watch"

\* The page is drawn with its fragment's timer, or for good.
Timer(l) == IF load[l].done THEN "rest" ELSE "watch"
Look(t) ==
  LET snapshot == Snapshot(page[t].load) IN
  /\ page[t].at = "look"
  /\ page' = [page EXCEPT ![t] = Drawn(t, snapshot, Timer(page[t].load))]
  /\ Seen(page[t].load)
  /\ UNCHANGED drive

\* The fragment: a load that is over asks for a full run, unless a warning has
\* stopped the fragment before.
Tick(t) ==
  LET snapshot == Snapshot(page[t].load) IN
  /\ page[t].at = "watch"
  /\ page' = [page EXCEPT ![t] = Drawn(t, snapshot,
                IF load[page[t].load].done /\ snapshot.error # "unavailable" THEN "rerun" ELSE "watch")]
  /\ Seen(page[t].load)
  /\ UNCHANGED drive

-----------------------------------------------------------------------------

Thread(l) == Line(l) \/ StopReading(l) \/ Close(l)
Script(t) ==
  \/ ReadList(t) \/ ListFails(t) \/ Refresh(t) \/ TakeLoad(t) \/ Look(t) \/ Tick(t)
User(t) == Visit(t) \/ Leave(t) \/ \E click \in BOOLEAN : Interact(t, click)

Next ==
  \/ ListChanges
  \/ \E l \in Loads : Thread(l) \/ GrowIdle(l)
  \/ \E t \in Tabs : Script(t) \/ User(t)

Spec == Init /\ [][Next]_webVars

(***************************************************************************)
(* Scripts run on; a line comes at least every heartbeat, and the thread   *)
(* that is to stop does so then; time passes for a load that nobody looks  *)
(* at.  Nothing says that what a stream tells comes to an end.             *)
(***************************************************************************)
Fairness ==
  /\ \A l \in Loads : WF_webVars(StopReading(l)) /\ WF_webVars(Close(l)) /\ WF_webVars(GrowIdle(l))
  /\ \A t \in Tabs : WF_webVars(Script(t))
FairSpec == Spec /\ Fairness

-----------------------------------------------------------------------------
(* Properties.                                                              *)

\* A page whose timer is off shows its forms to the end: each one counted, or
\* with its failure, unless an error is shown with the button that starts anew.
\* (A load that stops between the two looks of a run is shown as it is.)
RestsOnWhole ==
  \A t \in Tabs :
    page[t].at = "rest" /\ Listing[page[t].list] # {} =>
      \/ page[t].shown.whole \/ page[t].shown.error # "none"
      \/ page[t].load # Nothing /\ load[page[t].load].stopped

\* "Its stream closes, and with it the API's Google calls, which would otherwise
\* eat the quota of the load that replaces it": a load that no tab shows any
\* more ends by itself, even if its stream would not.
AbandonedLoadsEnd ==
  \A l \in Loads :
    load[l].at = "reading" /\ (\A t \in Tabs : page[t].load # l) ~> load[l].at # "reading"

\* Drawing the page comes to an end: when every stream ends, and the user and
\* the list leave the page alone, no rerun asks for the next one for ever.
StreamsEnd == \A l \in Loads : load[l].at = "reading" ~> load[l].at # "reading"
LeftAlone == <>[][~ListChanges /\ \A t \in Tabs : ~User(t)]_webVars
Settled(t) == page[t].at \in {"away", "rest", "failed", "out"} \/ page[t].shown.error # "none"
PageSettles == StreamsEnd /\ LeftAlone => <>[](\A t \in Tabs : Settled(t))
=============================================================================
