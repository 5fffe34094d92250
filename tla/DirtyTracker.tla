---------------------------- MODULE DirtyTracker ----------------------------
(***************************************************************************)
(* The damage tracker (damage.rs): the columns changed since the last      *)
(* take, as one merged span per row in a bounded list sorted by row, or    *)
(* "everything".  The grid marks, the renderer takes.                      *)
(*                                                                         *)
(* marked is history: the cells somebody marked since the last take.  The  *)
(* tracker keeps less than that, and the properties say how much less.     *)
(***************************************************************************)
EXTENDS Integers, Sequences, FiniteSets

CONSTANTS
  Rows,        (* the row numbers callers use                                *)
  ColMax,      (* u16::MAX: no column of any grid, "through grid width"      *)
  MaxTracked   (* MAX_TRACKED_DIRTY_ROWS                                     *)

ASSUME TrackerAssumption ==
  /\ Rows \subseteq Nat
  /\ ColMax \in Nat \ {0}
  /\ MaxTracked \in Nat \ {0}

VARIABLES
  rows,        (* DirtyRows: the spans in use                                *)
  all_dirty,   (* DirtyTracker.all_dirty                                     *)
  marked       (* history: cells marked since the last take                  *)

vars == <<rows, all_dirty, marked>>

Cols  == 0..ColMax-1
Cells == Rows \X Cols
DirtySpan == [row : Rows, start_col : Nat, end_col : Nat]

Init == rows = <<>> /\ all_dirty = FALSE /\ marked = {}

-----------------------------------------------------------------------------
(* Mutant: the merged span forgets where it began.                           *)
MergeEndOnly(span, start, end) ==
  [span EXCEPT !.end_col = IF end > @ THEN end ELSE @]

(* DirtySpan::merge: the hull of both.                                       *)
merge(span, start, end) ==
  [ row       |-> span.row,
    start_col |-> IF start < span.start_col THEN start ELSE span.start_col,
    end_col   |-> IF end > span.end_col THEN end ELSE span.end_col ]

contains(row) == \E i \in 1..Len(rows) : rows[i].row = row

(* What binary_search_by_key answers for a row that is not there: how many   *)
(* spans go before it.                                                       *)
insert_at(row, k) ==
  /\ k \in 0..Len(rows)
  /\ \A i \in 1..k : rows[i].row < row
  /\ \A i \in k+1..Len(rows) : rows[i].row > row

(* Mutant: the tail is not moved up, the new span goes behind it.            *)
InsertedAtEnd(k, span) == Append(rows, span)

(* copy_within from position k on, then the new span.                        *)
Inserted(k, span) ==
  [i \in 1..Len(rows)+1 |->
     IF i <= k THEN rows[i] ELSE IF i = k + 1 THEN span ELSE rows[i-1]]

(* The fixed array has no room for another row.                              *)
Full == Len(rows) = MaxTracked

(* What mark_all leaves: no row is tracked beside the flag.                  *)
Everything == rows' = <<>> /\ all_dirty' = TRUE

(* DirtyRows::push_or_merge, and mark_range's answer to its Err.             *)
push_or_merge(row, start, end) ==
  \/ /\ \E i \in 1..Len(rows) :
          /\ rows[i].row = row
          /\ rows' = [rows EXCEPT ![i] = merge(rows[i], start, end)]
     /\ UNCHANGED all_dirty
  \/ /\ ~contains(row) /\ Full
     /\ Everything
  \/ /\ ~contains(row) /\ ~Full
     /\ \E k \in 0..Len(rows) :
          /\ insert_at(row, k)
          /\ rows' = Inserted(k, [row |-> row, start_col |-> start, end_col |-> end])
     /\ UNCHANGED all_dirty

(* mark_range: nothing to do when all is dirty or the range is empty.        *)
mark_range(row, start, end) ==
  /\ marked' = marked \cup ({row} \X (start..end-1))
  /\ IF all_dirty \/ start >= end THEN UNCHANGED <<rows, all_dirty>>
     ELSE push_or_merge(row, start, end)

(* saturating_add: past the last column there is nothing to mark.            *)
mark_cell(row, col) == mark_range(row, col, IF col = ColMax THEN ColMax ELSE col + 1)

mark_row(row) == mark_range(row, 0, ColMax)

mark_all == Everything /\ marked' = Cells

resize == mark_all

(* take: All clears the flag, Rows moves the list out.                       *)
take ==
  /\ IF all_dirty THEN all_dirty' = FALSE /\ UNCHANGED rows
     ELSE rows' = <<>> /\ UNCHANGED all_dirty
  /\ marked' = {}

Next ==
  \/ \E row \in Rows, start, end \in 0..ColMax : mark_range(row, start, end)
  \/ \E row \in Rows, col \in 0..ColMax : mark_cell(row, col)
  \/ \E row \in Rows : mark_row(row)
  \/ mark_all
  \/ resize
  \/ take

Spec == Init /\ [][Next]_vars

-----------------------------------------------------------------------------
TypeOK ==
  /\ rows \in Seq(DirtySpan) /\ Len(rows) <= MaxTracked
  /\ all_dirty \in BOOLEAN
  /\ marked \subseteq Cells

(* The cells that the DirtySpans of a take would report now.                 *)
Reported(cell) ==
  all_dirty \/ \E i \in 1..Len(rows) :
                  /\ rows[i].row = cell[1]
                  /\ rows[i].start_col <= cell[2] /\ cell[2] < rows[i].end_col

(* No missed redraw: every cell marked since the last take is reported by    *)
(* the next one, through every order of merges, insertions and overflows of  *)
(* the bounded list.                                                         *)
DamageCovers == \A cell \in marked : Reported(cell)

(* Rows are reported in ascending order and once each, after any sequence of *)
(* insertions and merges.  The binary search of the next mark answers as     *)
(* contains and insert_at say only on a sorted list: this is what entitles   *)
(* the model to them.                                                        *)
SpansAscending ==
  \A i, j \in 1..Len(rows) : i < j => rows[i].row < rows[j].row

MarkedRows == {cell[1] : cell \in marked}

(* A span is the hull of marks of its row, and All needs everything marked   *)
(* or more rows than the list holds.                                         *)
ReportedWithCause ==
  /\ \A i \in 1..Len(rows) :
       /\ ~all_dirty
       /\ <<rows[i].row, rows[i].start_col>> \in marked
       /\ <<rows[i].row, rows[i].end_col - 1>> \in marked
  /\ all_dirty => marked = Cells \/ Cardinality(MarkedRows) > MaxTracked

(* No wasted redraw: no row is reported twice, and nothing without cause.    *)
(* The order that shows the first is what the next binary search needs to    *)
(* find the row it should merge into.                                        *)
DamageTight == SpansAscending /\ ReportedWithCause
=============================================================================
