---------------------------- MODULE FramedViewer ----------------------------
(***************************************************************************)
(* ui/components/framed_viewer.py: a table in the terminal whose rows are  *)
(* filtered, sorted, reloaded, opened and copied.  Keys and clicks change  *)
(* the widgets at once; that the filter's text has changed reaches the     *)
(* application as a message, after other keys perhaps.  The rows and their *)
(* details are two parallel sequences.                                     *)
(*                                                                         *)
(* _row_index_map is the identity after every _repopulate_visible, the     *)
(* only place that writes it, and is left out.                             *)
(***************************************************************************)
EXTENDS Integers, Sequences, FiniteSets, SequencesExt

CONSTANTS
  Queries,          \* what may be typed into the filter
  Columns,          \* 1 .. number of columns
  MaxPending,       \* bound: messages not yet handled
  Matches(_, _),    \* the text of a row contains a query
  Before(_, _, _)   \* the cell of one row in a column precedes another's

ASSUME ColumnsAssumption ==
  IsFiniteSet(Columns) /\ Columns # {} /\ Columns = 1 .. Cardinality(Columns)

VARIABLE view

NoQuery == "no query"
Closed == [open |-> FALSE]

(* FramedViewer and _FramedApp.__init__ *)
Opened(dataset, details) ==
  [open |-> TRUE,
   dataset |-> dataset,            \* _viewer.rows
   dataDetails |-> details,        \* _viewer.row_details
   rows |-> dataset,               \* _live_rows
   details |-> details,            \* _live_details
   lastQuery |-> NoQuery,
   sortState |-> [c \in Columns |-> FALSE],
   nextSort |-> 1,
   value |-> NoQuery,              \* of the filter's Input
   shown |-> FALSE,                \* the filter bar is
   focus |-> "table",
   pending |-> <<>>,               \* Input.Changed not yet handled
   modal |-> <<>>,                 \* the row and the detail of an open _DetailModal
   reloaded |-> FALSE]             \* since the last change of the filter's text

-----------------------------------------------------------------------------
(* A modal takes the keys and the clicks; messages still arrive behind it. *)
OnTop == view.open /\ view.modal = <<>>

(* action_focus_filter *)
FocusFilter ==
  /\ OnTop /\ view.focus = "table"
  /\ view' = [view EXCEPT !.shown = TRUE, !.focus = "filter"]

(* The Input posts a message when its value changes. *)
WithValue(v, q) ==
  IF v.value = q THEN v
  ELSE [v EXCEPT !.value = q, !.pending = Append(@, q), !.reloaded = FALSE]

TypeQuery(q) ==
  /\ OnTop /\ view.focus = "filter"
  /\ q # view.value /\ Len(view.pending) < MaxPending
  /\ view' = WithValue(view, q)

(* The members of a set of indexes in their order: one sequence.               *)
Ascending(S) == {s \in SetToSeqs(S) : \A j, k \in DOMAIN s : j < k => s[j] < s[k]}

Picked(s, indexes) == [k \in DOMAIN indexes |-> s[indexes[k]]]

Hits(dataset, q) == {i \in DOMAIN dataset : q = NoQuery \/ Matches(dataset[i], q)}

(* on_input_changed: the query selects from the whole dataset, unsorted.       *)
FilterChanged ==
  /\ view.open /\ view.pending # <<>>
  /\ LET q == Head(view.pending)
     IN \/ /\ q = view.lastQuery
           /\ view' = [view EXCEPT !.pending = Tail(@)]
        \/ /\ q # view.lastQuery
           /\ \E hits \in Ascending(Hits(view.dataset, q)) :
                view' = [view EXCEPT !.pending = Tail(@), !.lastQuery = q,
                                     !.rows = Picked(view.dataset, hits),
                                     !.details = Picked(view.dataDetails, hits)]

(* on_input_submitted: the filter stays applied. *)
SubmitFilter ==
  /\ OnTop /\ view.focus = "filter"
  /\ view' = [view EXCEPT !.shown = FALSE, !.focus = "table"]

(* action_blur_filter: clears the filter, or quits. *)
BlurFilter ==
  /\ OnTop /\ Len(view.pending) < MaxPending
  /\ view' = IF view.focus = "filter" \/ view.shown
             THEN [WithValue(view, NoQuery) EXCEPT !.shown = FALSE, !.focus = "table"]
             ELSE Closed

-----------------------------------------------------------------------------
(* The order a stable sort puts the visible rows in: one.                      *)
Orders(rows, c, reverse) ==
  LET Less(i, j) == IF reverse THEN Before(rows[j], rows[i], c) ELSE Before(rows[i], rows[j], c)
  IN {s \in SetToSeqs(DOMAIN rows) :
        \A j, k \in DOMAIN s : j < k => Less(s[j], s[k]) \/ (~Less(s[k], s[j]) /\ s[j] < s[k])}

Toggled(state, c) == [state EXCEPT ![c] = ~@]

(* Variant: the rows are sorted and their details stay. *)
Sorted_RowsOnly(v, c, order) ==
  [v EXCEPT !.rows = Picked(v.rows, order), !.sortState = Toggled(@, c)]

(* _sort_by_column_index, after the direction of the column was toggled.       *)
Sorted(v, c, order) ==
  [v EXCEPT !.rows = Picked(v.rows, order), !.details = Picked(v.details, order),
            !.sortState = Toggled(@, c)]

(* action_sort_next_column *)
SortNextColumn ==
  /\ OnTop /\ view.focus = "table"
  /\ LET c == view.nextSort
     IN \E order \in Orders(view.rows, c, view.sortState[c]) :
          view' = [Sorted(view, c, order) EXCEPT !.nextSort = 1 + (c % Cardinality(Columns))]

(* on_data_table_header_selected: a click, wherever the focus is.              *)
SortColumn(c) ==
  /\ OnTop
  /\ \E order \in Orders(view.rows, c, view.sortState[c]) : view' = Sorted(view, c, order)

(* action_refresh: what the callback returned replaces everything, and the     *)
(* query is forgotten, but not what stands in the filter bar.                  *)
RefreshView(dataset, details) ==
  /\ OnTop /\ view.focus = "table"
  /\ view' = [view EXCEPT !.dataset = dataset, !.dataDetails = details, !.rows = dataset,
                          !.details = details, !.lastQuery = NoQuery, !.reloaded = TRUE]

(* _show_row_detail *)
ShowRowDetail(i) ==
  /\ OnTop
  /\ i \in DOMAIN view.rows \cap DOMAIN view.details
  /\ view' = [view EXCEPT !.modal = <<view.rows[i], view.details[i]>>]

(* action_dismiss *)
CloseDetail ==
  /\ view.open /\ view.modal # <<>>
  /\ view' = [view EXCEPT !.modal = <<>>]

(* action_quit *)
QuitView ==
  /\ OnTop
  /\ view' = Closed

-----------------------------------------------------------------------------
Visible == {view.rows[i] : i \in DOMAIN view.rows}

(* Whatever the order of keys, clicks, messages and reloads: each visible row  *)
(* stands beside its own detail, which is what Enter opens; the visible rows   *)
(* are those of the latest reading that match the query applied last, each     *)
(* once; and when every message was handled that query is what the filter      *)
(* says, unless the rows were reloaded since.                                  *)
RowsAreTrue(Tells(_, _)) ==
  view.open =>
    /\ DOMAIN view.details = DOMAIN view.rows
    /\ \A i \in DOMAIN view.rows :
         /\ Tells(view.rows[i], view.details[i])
         /\ \E j \in DOMAIN view.dataset :
              view.rows[i] = view.dataset[j] /\ view.details[i] = view.dataDetails[j]
    /\ view.modal # <<>> => Tells(view.modal[1], view.modal[2])
    /\ Visible = {view.dataset[i] : i \in Hits(view.dataset, view.lastQuery)}
    /\ Cardinality(Visible) = Len(view.rows)
    /\ view.pending = <<>> /\ ~view.reloaded => view.lastQuery = view.value
=============================================================================
