------------------------------ MODULE ReportPage ------------------------------
(***************************************************************************)
(* The report page (ui/pages/export.py, ui/report_data.py) for one form in *)
(* one browser tab.  The PDF that a press of the button makes stays in the *)
(* tab's session and is offered until another takes its place.  What it    *)
(* says comes through caches: the web process's for the answers, their     *)
(* times and the tables of the sheet (ui/google_data.py), and one of the   *)
(* page's own (_load) over the first.                                      *)
(*                                                                         *)
(* Sections are told apart by what they are made of: the overview, the     *)
(* descriptive part and the associations of the page's answers.            *)
(***************************************************************************)
EXTENDS Integers

CONSTANTS
  Life,      \* Life[c]: ttl_seconds of each cache, in ticks
  MaxTime,   \* bound: ticks
  NoEntry,
  NoPdf

Caches == {"responses", "timestamps", "tables", "page"}
ReportSections == {"answers", "representativeness", "dynamics"}

ASSUME ReportPageAssumption ==
  /\ Life \in [Caches -> Nat \ {0}] /\ MaxTime \in Nat
  /\ NoEntry \notin [asked : Nat, until : Nat]
  /\ \A S \in SUBSET ReportSections : NoPdf \notin [S -> Nat]

VARIABLES
  time,
  kept,      \* kept[c]: an answer, known by when the API was asked for it
  pdf,       \* report_pdf_...: when what each section shows was asked for
  refreshed  \* history: when the refresh button was pressed last

reportVars == <<time, kept, pdf, refreshed>>

Entries == [asked : Nat, until : Nat]
ReportTypeOK ==
  /\ time \in 0..MaxTime /\ refreshed \in 0..MaxTime
  /\ kept \in [Caches -> Entries \cup {NoEntry}]
  /\ pdf = NoPdf \/ \E S \in SUBSET ReportSections : pdf \in [S -> Nat]

ReportInit ==
  /\ time = 0 /\ refreshed = 0 /\ pdf = NoPdf
  /\ kept = [c \in Caches |-> NoEntry]

TimePasses ==
  /\ time < MaxTime /\ time' = time + 1
  /\ UNCHANGED <<kept, pdf, refreshed>>

\* Mutation: what has been kept is good for ever.
ServedForEver(c) == kept[c] # NoEntry

Served(c) == kept[c] # NoEntry /\ kept[c].until > time
\* What a read of the cache gives when its loader asks at time t.
Read(c, t) == IF Served(c) THEN kept[c] ELSE [asked |-> t, until |-> time + Life[c]]

\* _load, through both caches.
Responses == Read("responses", time)
Page == Read("page", Responses.asked)
WithPage == IF Served("page") THEN kept ELSE [kept EXCEPT !["responses"] = Responses, !["page"] = Page]

\* A run of the page.
Draw ==
  /\ kept' = WithPage
  /\ UNCHANGED <<time, pdf, refreshed>>

\* Mutation: the page's own cache is forgotten.
ClearedByRefreshLess == {"responses", "timestamps"}

\* The refresh button: clear_form_cache, clear_responses_cache, _load.clear().
ClearedByRefresh == {"responses", "timestamps", "page"}
Refresh ==
  /\ kept' = [c \in Caches |-> IF c \in ClearedByRefresh THEN NoEntry ELSE kept[c]]
  /\ pdf' = NoPdf
  /\ refreshed' = time
  /\ UNCHANGED time

\* The button is pressed with sections ticked.  Without a table that fits, or
\* access to the sheet, and without the times, a section is left out; the tables
\* are kept when the sheet could be read.  A run that is cut short keeps the PDF
\* there was.
Press(ticked, readable, fits, timely, whole) ==
  LET sections == ticked \ ((IF readable /\ fits THEN {} ELSE {"representativeness"})
                            \cup (IF timely THEN {} ELSE {"dynamics"}))
      Asked(s) == CASE s = "answers" -> Page.asked
                    [] s = "representativeness" -> Read("tables", time).asked
                    [] s = "dynamics" -> Read("timestamps", time).asked
  IN
  /\ ticked # {}
  /\ kept' = [WithPage EXCEPT
                !["tables"] = IF "representativeness" \in ticked /\ readable THEN Read("tables", time) ELSE @,
                !["timestamps"] = IF "dynamics" \in ticked /\ timely THEN Read("timestamps", time) ELSE @]
  /\ pdf' = IF ~whole THEN pdf ELSE IF sections = {} THEN NoPdf ELSE [s \in sections |-> Asked(s)]
  /\ UNCHANGED <<time, refreshed>>

ReportNext ==
  \/ TimePasses \/ Draw \/ Refresh
  \/ \E ticked \in SUBSET ReportSections, readable, fits, timely, whole \in BOOLEAN :
       Press(ticked, readable, fits, timely, whole)
ReportSpec == ReportInit /\ [][ReportNext]_reportVars

-----------------------------------------------------------------------------
(* Properties.                                                              *)

\* What a new report says of the answers was asked of the API no longer ago than
\* the lives of the two caches together, which is more than either promises, and
\* the rest no longer than the life of its cache; and no report that is offered
\* has answers from before the last refresh, whatever the page's runs kept (the
\* tables of the sheet are not refreshed by the button).
NoneBeforeRefresh == pdf # NoPdf => \A s \in DOMAIN pdf \ {"representativeness"} : pdf[s] >= refreshed
Oldest(s) == CASE s = "answers" -> Life["responses"] + Life["page"] - 2
               [] s = "representativeness" -> Life["tables"] - 1
               [] s = "dynamics" -> Life["timestamps"] - 1
ReportIsFresh ==
  [][/\ NoneBeforeRefresh'
     /\ pdf' \notin {pdf, NoPdf} => \A s \in DOMAIN pdf' : time - pdf'[s] <= Oldest(s)]_reportVars
=============================================================================
