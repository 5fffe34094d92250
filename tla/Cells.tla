------------------------------- MODULE Cells -------------------------------
(***************************************************************************)
(* Rows of terminal cells (cell.rs, grid/write.rs, width.rs).  A row is a  *)
(* function from the columns 0 .. cols-1 to cells.  A glyph two columns    *)
(* wide occupies a lead cell and a continuation cell to its right; every   *)
(* operation that moves, erases or overwrites cells has to keep the halves *)
(* together.  The operations map a row to the row they leave.              *)
(***************************************************************************)
EXTENDS Integers, Sequences, FiniteSetsExt

CONSTANTS
  CharWidth,    (* unicode-width of a scalar: a function to 0..2              *)
  ZWJ,          (* U+200D, the joiner: what follows it continues the cluster  *)
  VS15, VS16,   (* variation selectors: text (narrow), emoji (wide)           *)
  MaxJoiners    (* MAX_CLUSTER_JOINERS                                        *)

Glyph == DOMAIN CharWidth

ASSUME GlyphAssumption ==
  /\ CharWidth \in [Glyph -> 0..2]
  /\ {ZWJ, VS15, VS16} \subseteq Glyph
  /\ \A ch \in {ZWJ, VS15, VS16} : CharWidth[ch] = 0
  /\ MaxJoiners \in Nat

Lesser(a, b)  == IF a < b THEN a ELSE b
Greater(a, b) == IF a > b THEN a ELSE b

-----------------------------------------------------------------------------
(* Width.                                                                    *)

char_width(ch) == CharWidth[ch]

(* UnicodeWidthStr::width: the scalars' widths, a variation selector         *)
(* deciding the width of the scalar before it.                               *)
StrWidth(s) ==
  MapThenSumSet(LAMBDA i :
      IF i < Len(s) /\ s[i+1] = VS16 /\ CharWidth[s[i]] > 0 THEN 2
      ELSE IF i < Len(s) /\ s[i+1] = VS15 /\ CharWidth[s[i]] > 0 THEN 1
      ELSE CharWidth[s[i]], 1..Len(s))

cluster_width(s) == Lesser(StrWidth(s), 2)

-----------------------------------------------------------------------------
(* Cells.  attrs is the set of attributes that differ from the default (see  *)
(* Sgr), hyperlink is 0 when there is none.                                  *)

Cell(contents, wide, attrs, link) ==
  [ contents |-> contents, is_wide |-> wide, is_wide_continuation |-> FALSE,
    attrs |-> attrs, hyperlink |-> link ]

DefaultCell == Cell(<<>>, FALSE, {}, 0)

Continuation(attrs, link) ==
  [ contents |-> <<>>, is_wide |-> FALSE, is_wide_continuation |-> TRUE,
    attrs |-> attrs, hyperlink |-> link ]

has_contents(cell) == cell.contents # <<>>

ends_with_zwj(cell) == has_contents(cell) /\ cell.contents[Len(cell.contents)] = ZWJ

cell_width(cell) ==
  IF cell.is_wide THEN 2
  ELSE IF cell.is_wide_continuation \/ ~has_contents(cell) THEN 0 ELSE 1

blank_row(cols) == [c \in 0..cols-1 |-> DefaultCell]

-----------------------------------------------------------------------------
(* Row operations.                                                           *)

(* Mutant: widening over another wide lead forgets that lead's continuation. *)
WidenLeavesOrphan(row, col, width, attrs) ==
  [c \in DOMAIN row |->
     IF c = col THEN [row[c] EXCEPT !.is_wide = width > 1, !.is_wide_continuation = FALSE]
     ELSE IF c = col + 1 /\ width > 1 THEN Continuation(attrs, row[col].hyperlink)
     ELSE IF c = col + 1 /\ row[c].is_wide_continuation THEN DefaultCell
     ELSE row[c]]

(* set_cell_width: a widened cell takes the cell to its right, and the       *)
(* continuation of the lead that stood there; a narrowed one gives it back.  *)
set_cell_width(row, col, width, attrs) ==
  [c \in DOMAIN row |->
     IF c = col THEN [row[c] EXCEPT !.is_wide = width > 1, !.is_wide_continuation = FALSE]
     ELSE IF c = col + 1 /\ width > 1 THEN Continuation(attrs, row[col].hyperlink)
     ELSE IF c = col + 1 /\ row[c].is_wide_continuation THEN DefaultCell
     ELSE IF c = col + 2 /\ width > 1 /\ row[col+1].is_wide THEN DefaultCell
     ELSE row[c]]

(* The cells write_char_at_cursor leaves: the glyph, its continuation when   *)
(* there is room for one, and blanks for the halves it overwrote.            *)
write_cells(row, col, width, cell) ==
  [c \in DOMAIN row |->
     IF c = col THEN cell
     ELSE IF c = col + 1 /\ width > 1 THEN Continuation(cell.attrs, cell.hyperlink)
     ELSE IF c = col - 1 /\ row[col].is_wide_continuation THEN DefaultCell
     ELSE IF c = col + 1 /\ row[col].is_wide THEN DefaultCell
     ELSE IF c = col + 2 /\ width > 1 /\ row[col+1].is_wide THEN DefaultCell
     ELSE row[c]]

(* A lead in the last of len columns gets the continuation it lacked.        *)
complete_wide_lead(row, len) ==
  [c \in DOMAIN row |->
     IF c = len /\ len > 0 /\ row[len-1].is_wide
     THEN Continuation(row[len-1].attrs, row[len-1].hyperlink) ELSE row[c]]

(* RowStore::resize on one row of len cells.                                 *)
resize_row(row, len, cols) ==
  LET resized == [c \in 0..cols-1 |-> IF c < len THEN row[c] ELSE DefaultCell] IN
  IF cols > len THEN complete_wide_lead(resized, len)
  ELSE IF cols < len /\ resized[cols-1].is_wide
       THEN [resized EXCEPT ![cols-1] = DefaultCell]
  ELSE resized

(* erase_cells_bce: blanks start .. end-1 and the half of a pair left outside.*)
erase_cells_bce(row, start, end, blank) ==
  [c \in DOMAIN row |->
     IF \/ start <= c /\ c < end
        \/ c = start - 1 /\ start \in DOMAIN row /\ row[start].is_wide_continuation
        \/ c = end /\ end > start /\ row[end-1].is_wide
     THEN blank ELSE row[c]]

(* repair_wide_pairs, left to right in the code.  A lead is blanked there    *)
(* only when no continuation follows it, so no later verdict depends on an   *)
(* earlier one and all of them may be read off the row as it was.            *)
repair_wide_pairs(row, cols) ==
  LET orphan_continuation(c) ==
        row[c].is_wide_continuation /\ (c = 0 \/ ~row[c-1].is_wide)
      orphan_lead(c) ==
        row[c].is_wide /\ (c + 1 >= cols \/ ~row[c+1].is_wide_continuation)
  IN [c \in DOMAIN row |->
        IF orphan_continuation(c) \/ orphan_lead(c) THEN DefaultCell ELSE row[c]]

(* ICH: n blanks at col, the rest shifted right and off the end.             *)
insert_chars(row, col, n, cols) ==
  IF col >= cols THEN row
  ELSE repair_wide_pairs(
         [c \in DOMAIN row |-> IF c < col THEN row[c]
                               ELSE IF c < col + n THEN DefaultCell ELSE row[c-n]], cols)

(* DCH: the cells right of the cut move left, then the last n cells are      *)
(* filled, whether or not they are right of the cursor.                      *)
delete_chars(row, col, n, cols) ==
  repair_wide_pairs(
    [c \in DOMAIN row |->
       IF c >= cols - n THEN DefaultCell ELSE IF c >= col THEN row[c+n] ELSE row[c]], cols)

-----------------------------------------------------------------------------
(* The pair invariant of one row: a continuation has its lead on its left, a *)
(* lead its continuation on its right, save in the last column, where a wide *)
(* glyph is written without one.                                             *)
PairedRow(row, cols) ==
  \A c \in 0..cols-1 :
    /\ row[c].is_wide_continuation => c > 0 /\ row[c-1].is_wide /\ ~has_contents(row[c])
    /\ row[c].is_wide => /\ has_contents(row[c]) /\ ~row[c].is_wide_continuation
                         /\ c + 1 < cols => row[c+1].is_wide_continuation
=============================================================================
