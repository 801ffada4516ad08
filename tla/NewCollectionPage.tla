------------------------- MODULE NewCollectionPage -------------------------
(***************************************************************************)
(* The form of a new collection.  Rows can be added, changed and removed   *)
(* while it is being submitted, too.  Name, mode and profile decide        *)
(* nothing here.                                                           *)
(***************************************************************************)
EXTENDS ApiCalls

CONSTANTS
  Rows,      \* what a row can be filled in with, but for its index
  MaxRows    \* bound: rows in the form

ASSUME NewCollectionPageAssumption ==
  Rows \subseteq Request /\ "GET" \in Text /\ MaxRows \in Nat \ {0}

VARIABLE form

Form == [requests : Seq(Request), submitting : BOOLEAN]
emptyRequest(index) == [index |-> index, method |-> "GET", url |-> "", timeoutMs |-> DefaultTimeout,
                        headers |-> {}, extract |-> {}]
NoForm == [requests |-> <<emptyRequest(0)>>, submitting |-> FALSE]
OpenForm == form' = NoForm

-----------------------------------------------------------------------------

\* The index of a row is not in the form.
updateRequest(i, row) ==
  /\ form' = [form EXCEPT !.requests[i] = [row EXCEPT !.index = form.requests[i].index]]
  /\ UNCHANGED calls

addRequest ==
  /\ Len(form.requests) < MaxRows
  /\ form' = [form EXCEPT !.requests = Append(@, emptyRequest(Len(@)))]
  /\ UNCHANGED calls

\* Bug kept for comparison: the rows that are left keep their indexes.
KeepIndexes(rows) == rows
Renumbered(rows) == [p \in 1..Len(rows) |-> [rows[p] EXCEPT !.index = p - 1]]

\* There is always one row left.
removeRequest(i) ==
  /\ Len(form.requests) > 1
  /\ form' = [form EXCEPT !.requests = Renumbered(RemoveAt(@, i))]
  /\ UNCHANGED calls

handleSubmit ==
  /\ ~form.submitting
  /\ Send([NoCall EXCEPT !.op = "createCollection", !.rows = form.requests])
  /\ form' = [form EXCEPT !.submitting = TRUE]

\* On success the router is told to leave, and on failure the error is shown;
\* the button works again at once.
SubmitAnswered(f) ==
  /\ Lands(f, "createCollection", "ok") \/ Lands(f, "createCollection", "failed")
  /\ form' = [form EXCEPT !.submitting = FALSE]

FormStep ==
  \/ \E i \in 1..Len(form.requests) : removeRequest(i) \/ \E row \in Rows : updateRequest(i, row)
  \/ addRequest \/ handleSubmit \/ \E f \in Calls : SubmitAnswered(f)

-----------------------------------------------------------------------------

\* Whatever rows were added and removed, also while an earlier submission was on
\* its way: a submission has a row, and its rows are numbered in the order on the
\* screen.  validateCollection refuses duplicate indexes, and executeJob finds
\* results by them.
RowsNumbered ==
  \A f \in Doing("createCollection") :
    /\ calls[f].rows # <<>>
    /\ \A p \in 1..Len(calls[f].rows) : calls[f].rows[p].index = p - 1

=============================================================================
