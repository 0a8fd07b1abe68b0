---------------------------- MODULE CatalogTable ----------------------------
(***************************************************************************)
(* The table of the catalog page and the form that is selected on every    *)
(* page (ui/pages/catalog.py, ui/components/form_picker.py): its filter,   *)
(* its marked row, and a click on a row.                                   *)
(*                                                                         *)
(* Streamlit knows a marked row by its number, and remembers it under the  *)
(* key of the table, which stands for the filter.  A run of the page or of *)
(* its fragment draws the table from what has come of the load; the        *)
(* browser shows it a moment later, and a click arrives a moment later.    *)
(***************************************************************************)
EXTENDS Sequences, SequencesExt

CONSTANTS
  FormOrder   \* the forms as Drive lists them, a sequence

ASSUME OrderAssumption == IsInjective(FormOrder) /\ FormOrder # <<>>

VARIABLES
  status,   \* PublicationStatus of each form, as far as it has come
  filter,   \* the filter that the user has set
  ids,      \* TABLE_FORM_IDS_KEY: the forms of the table as last drawn
  rows,     \* rows[k]: the selection of the table with filter k, or none yet
  current,  \* FORM_KEY
  browser,  \* the table that the browser shows
  click     \* a click on its way: the rows it marks

tableVars == <<status, filter, ids, rows, current, browser, click>>

ListedForms == Range(FormOrder)
Filters == {"all", "open", "closed"}
NoRows == <<0>>
NoTable == [filter |-> "all", ids |-> <<>>]
NoClick == <<0>>

TableInit ==
  /\ status = [f \in ListedForms |-> "loading"]
  /\ filter = "all" /\ ids = <<>>
  /\ rows = [k \in Filters |-> NoRows]
  /\ current = FormOrder[1]
  /\ browser = NoTable /\ click = NoClick

TableTypeOK ==
  /\ status \in [ListedForms -> {"loading", "open", "closed"}]
  /\ filter \in Filters /\ Range(ids) \subseteq ListedForms
  /\ \A k \in Filters : rows[k] = NoRows \/ rows[k] = <<>> \/ rows[k][1] \in DOMAIN FormOrder
  /\ current \in ListedForms

-----------------------------------------------------------------------------

\* Details of a form arrive in the load.
Arrives(f) ==
  /\ status[f] = "loading"
  /\ \E s \in {"open", "closed"} : status' = [status EXCEPT ![f] = s]
  /\ UNCHANGED <<filter, ids, rows, current, browser, click>>

\* _apply_filters keeps the order of the forms.
Filtered(k) == SelectSeq(FormOrder, LAMBDA f : k = "all" \/ status[f] = k)

\* The row of a form, which a table holds once.
RowOf(f, forms) == CHOOSE i \in DOMAIN forms : forms[i] = f
RowsOf(f, forms) == IF f \in Range(forms) THEN <<RowOf(f, forms)>> ELSE <<>>

\* Mutation: the mark stays at its row.
MarkedByRow(k, forms, f) == IF rows[k] = NoRows THEN RowsOf(f, forms) ELSE rows[k]

\* _mark_current_form, or selection_default of a new table.
Marked(k, forms, f) == RowsOf(f, forms)

\* _render_catalog draws the table; the browser gets it later.
Draw ==
  /\ ids' = Filtered(filter)
  /\ rows' = [rows EXCEPT ![filter] = Marked(filter, ids', current)]
  /\ UNCHANGED <<status, filter, current, browser, click>>

Deliver ==
  /\ rows[filter] # NoRows
  /\ browser' = [filter |-> filter, ids |-> ids]
  /\ UNCHANGED <<status, filter, ids, rows, current, click>>

\* The user clicks on a row that the browser shows; on the marked row, that takes
\* the mark away.
Click(i) ==
  /\ click = NoClick /\ browser.filter = filter
  /\ click' = IF browser.ids[i] = current THEN <<>> ELSE <<i>>
  /\ UNCHANGED <<status, filter, ids, rows, current, browser>>

\* _pick_form_from_table; the page is drawn right after it.
Pick(marked) == IF marked # <<>> /\ marked[1] \in DOMAIN ids THEN ids[marked[1]] ELSE current
PickFormFromTable ==
  /\ click # NoClick
  /\ current' = Pick(click)
  /\ ids' = Filtered(filter)
  /\ rows' = [rows EXCEPT ![filter] = Marked(filter, ids', current')]
  /\ click' = NoClick
  /\ UNCHANGED <<status, filter, browser>>

\* The filter is changed: a full run draws another table.
SetFilter(k) ==
  /\ click = NoClick /\ k # filter
  /\ filter' = k
  /\ ids' = Filtered(k)
  /\ rows' = [rows EXCEPT ![k] = Marked(k, ids', current)]
  /\ UNCHANGED <<status, current, browser, click>>

\* A form is selected above the table (sync_form_widget): a full run.
SelectAbove(f) ==
  /\ click = NoClick /\ f # current
  /\ current' = f
  /\ ids' = Filtered(filter)
  /\ rows' = [rows EXCEPT ![filter] = Marked(filter, ids', f)]
  /\ UNCHANGED <<status, filter, browser, click>>

TableNext ==
  \/ \E f \in ListedForms : Arrives(f) \/ SelectAbove(f)
  \/ Draw \/ Deliver \/ PickFormFromTable
  \/ \E i \in DOMAIN browser.ids : Click(i)
  \/ \E k \in Filters : SetFilter(k)

TableSpec == TableInit /\ [][TableNext]_tableVars

-----------------------------------------------------------------------------
(* Properties.                                                              *)

\* The mark of the table that was drawn last is on the form that every page
\* works with, also when rows came in above it, the filter was changed and
\* changed back, or the form was selected elsewhere; and there is none if the
\* form is not shown.
MarkIsOnCurrentForm ==
  rows[filter] # NoRows =>
    IF current \in Range(ids) THEN Len(rows[filter]) = 1 /\ ids[rows[filter][1]] = current
                              ELSE rows[filter] = <<>>
=============================================================================
