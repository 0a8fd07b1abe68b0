--------------------------- MODULE CatalogProgress ---------------------------
(***************************************************************************)
(* What the stream of POST /v1/google/forms/catalog/stream promises to its *)
(* reader, whatever happens behind it: every form's details are reported   *)
(* once, its response count once and only after details that are ok, and   *)
(* the stream says "done" only when nothing is missing.                    *)
(***************************************************************************)
CONSTANTS Forms, Statuses

VARIABLES
  summary,  \* summary[f]: the statuses reported for the details of f, in order
  stats,    \* stats[f]: those reported for its response count
  end       \* "open", "done" or "cut" (an error line, or a closed connection)

vars == <<summary, stats, end>>

Init ==
  /\ summary = [f \in Forms |-> <<>>]
  /\ stats = [f \in Forms |-> <<>>]
  /\ end = "open"

ReportSummary(f, status) ==
  /\ end = "open" /\ summary[f] = <<>>
  /\ summary' = [summary EXCEPT ![f] = <<status>>]
  /\ UNCHANGED <<stats, end>>

ReportStats(f, status) ==
  /\ end = "open" /\ summary[f] = <<"ok">> /\ stats[f] = <<>>
  /\ stats' = [stats EXCEPT ![f] = <<status>>]
  /\ UNCHANGED <<summary, end>>

Complete(f) == summary[f] # <<>> /\ (summary[f] = <<"ok">> => stats[f] # <<>>)

Done ==
  /\ end = "open" /\ \A f \in Forms : Complete(f)
  /\ end' = "done"
  /\ UNCHANGED <<summary, stats>>

Cut == end = "open" /\ end' = "cut" /\ UNCHANGED <<summary, stats>>

Next ==
  \/ Done \/ Cut
  \/ \E f \in Forms, s \in Statuses : ReportSummary(f, s) \/ ReportStats(f, s)

Spec == Init /\ [][Next]_vars
=============================================================================
