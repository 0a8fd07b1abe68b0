---------------------------- MODULE CatalogCounts ----------------------------
(***************************************************************************)
(* The two answers that a catalog line is made of, and how long the API    *)
(* keeps them (api/routes/google_forms.py): the details of a form, and its *)
(* response count, under one key while the form accepts responses and      *)
(* under another, for hours, when its details say that it does not.        *)
(*                                                                         *)
(* One form and one stream of lines after the other.  get_or_load is a     *)
(* single step here (module ApiDataCache has its steps); time passes in    *)
(* ticks.                                                                  *)
(***************************************************************************)
EXTENDS Naturals

CONSTANTS
  DetailsTTL, OpenTTL, ClosedTTL,   \* lifetimes of the three kinds of entries
  MaxCount,                         \* bound: responses in all
  NoEntry

ASSUME TTLAssumption ==
  /\ {DetailsTTL, OpenTTL, ClosedTTL} \subseteq Nat \ {0} /\ MaxCount \in Nat
  /\ NoEntry \notin Nat

VARIABLES
  form,    \* Google's: whether it accepts responses, and how many it has
  entry,   \* entry[k]: the cached value and its age
  stream,  \* where the stream stands with this form
  shown    \* the last count sent

countVars == <<form, entry, stream, shown>>

Kinds == {"form_summary", "response_stats", "response_stats_closed"}
TTL == [form_summary |-> DetailsTTL, response_stats |-> OpenTTL,
        response_stats_closed |-> ClosedTTL]

CountTypeOK ==
  /\ form \in [open : BOOLEAN, count : 0..MaxCount]
  /\ \A k \in Kinds : entry[k] = NoEntry \/ entry[k].age \in 0..TTL[k]
  /\ stream.at \in {"details", "count"} /\ stream.closed \in BOOLEAN
  /\ shown.count \in 0..MaxCount /\ shown.age \in Nat

CountInit ==
  /\ form = [open |-> TRUE, count |-> 0]
  /\ entry = [k \in Kinds |-> NoEntry]
  /\ stream = [at |-> "details", closed |-> FALSE]
  /\ shown = [count |-> 0, age |-> 0, open |-> TRUE]

-----------------------------------------------------------------------------

Respond ==
  /\ form.open /\ form.count < MaxCount
  /\ form' = [form EXCEPT !.count = @ + 1]
  /\ UNCHANGED <<entry, stream, shown>>

\* The owner opens or closes the form.
Switch ==
  /\ form' = [form EXCEPT !.open = ~@]
  /\ UNCHANGED <<entry, stream, shown>>

\* The ages count up to their lifetime; the entry is gone after it.
Older(e, k) == IF e = NoEntry \/ e.age = TTL[k] THEN NoEntry ELSE [e EXCEPT !.age = @ + 1]
GetOlder ==
  /\ entry' = [k \in Kinds |-> Older(entry[k], k)]
  /\ shown' = [shown EXCEPT !.age = IF @ < ClosedTTL THEN @ + 1 ELSE @]
  /\ UNCHANGED <<form, stream>>

\* get_or_load: a fresh entry, or what Google says now.
Answered(k, value) == IF entry[k] = NoEntry THEN [value |-> value, age |-> 0] ELSE entry[k]

\* _cached_form_summary; the forms that accept no responses are remembered.
Details ==
  LET got == Answered("form_summary", form.open) IN
  /\ stream.at = "details"
  /\ entry' = [entry EXCEPT !["form_summary"] = got]
  /\ stream' = [at |-> "count", closed |-> ~got.value]
  /\ UNCHANGED <<form, shown>>

\* Mutation: one key for the counts of all forms.
CountKeyOne(closed) == "response_stats_closed"

CountKey(closed) == IF closed THEN "response_stats_closed" ELSE "response_stats"

\* _cached_response_stats.
Count ==
  LET k == CountKey(stream.closed)
      got == Answered(k, form.count) IN
  /\ stream.at = "count"
  /\ entry' = [entry EXCEPT ![k] = got]
  /\ shown' = [count |-> got.value, age |-> got.age, open |-> ~stream.closed]
  /\ stream' = [at |-> "details", closed |-> FALSE]
  /\ UNCHANGED <<form>>

CountNext == Respond \/ Switch \/ GetOlder \/ Details \/ Count
CountSpec == CountInit /\ [][CountNext]_countVars

-----------------------------------------------------------------------------
(* Properties.                                                              *)

\* The count of a form that its line shows as open is at most as old as the
\* short lifetime when the line is sent, however often the form was closed and
\* opened, and whatever is kept for hours meanwhile.
OpenCountsAreFresh ==
  [][shown'.open /\ stream.at = "count" /\ stream'.at = "details" => shown'.age <= OpenTTL]_countVars
=============================================================================
