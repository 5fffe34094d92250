----------------------------- MODULE GridProofs -----------------------------
(***************************************************************************)
(* The grid's invariants for every size, stream and history limit: what    *)
(* the code indexes with is in range, the cursor is parked exactly under a *)
(* pending wrap, no wide glyph is cut in half, and the flag that lets an   *)
(* erase skip saving the screen tells the truth.  Row operations first,    *)
(* then screens, then one lemma per control function; last the scroll      *)
(* operations and the damage each step records, and the pen's round trip.  *)
(***************************************************************************)
EXTENDS Terminal, SequenceTheorems, FiniteSetTheorems, WellFoundedInduction, TLAPS

(* A cell, alone: a lead has contents, a continuation has none.             *)
CellFields == {"contents", "is_wide", "is_wide_continuation", "attrs", "hyperlink"}
CellOK(cell) ==
  /\ DOMAIN cell = CellFields
  /\ cell.contents \in Seq(Glyph)
  /\ cell.is_wide \in BOOLEAN /\ cell.is_wide_continuation \in BOOLEAN
  /\ cell.is_wide => has_contents(cell) /\ ~cell.is_wide_continuation
  /\ cell.is_wide_continuation => ~has_contents(cell)

(* Neighbouring cells: a continuation follows its lead, a lead its          *)
(* continuation unless the row ends.                                        *)
CellsOK(row, cols) == DOMAIN row = 0..cols-1 /\ \A c \in 0..cols-1 : CellOK(row[c])
RowOK(row, cols) ==
  /\ CellsOK(row, cols)
  /\ \A c \in 0..cols-1 : row[c].is_wide_continuation => c > 0 /\ row[c-1].is_wide
  /\ \A c \in 0..cols-2 : row[c].is_wide => row[c+1].is_wide_continuation
BlankRow(row) == \A c \in DOMAIN row : ~has_contents(row[c])
Blank(cell) ==
  CellOK(cell) /\ ~has_contents(cell) /\ ~cell.is_wide /\ ~cell.is_wide_continuation

(* What the row operations fill in.                                         *)
LEMMA FillOK ==
  ASSUME NEW attrs, NEW link
  PROVE  /\ Blank(DefaultCell) /\ Blank(Cell(<<>>, FALSE, attrs, 0))
         /\ CellOK(Continuation(attrs, link)) /\ Continuation(attrs, link).is_wide_continuation
         /\ ~Continuation(attrs, link).is_wide /\ ~has_contents(Continuation(attrs, link))
BY DEF Blank, CellOK, CellFields, DefaultCell, Continuation, Cell, has_contents

(* A blank row.                                                             *)
LEMMA BlankRowOK ==
  ASSUME NEW cols \in Nat
  PROVE  RowOK(blank_row(cols), cols) /\ BlankRow(blank_row(cols))
<1> USE FillOK
<1>1. \A c \in 0..cols-2 : c \in 0..cols-1
  OBVIOUS
<1> QED
  BY <1>1 DEF RowOK, CellsOK, BlankRow, Blank, blank_row

(* repair_wide_pairs puts together any row of cells.                        *)
LEMMA RepairOK ==
  ASSUME NEW cols \in Nat, NEW row, CellsOK(row, cols)
  PROVE  /\ RowOK(repair_wide_pairs(row, cols), cols)
         /\ BlankRow(row) => BlankRow(repair_wide_pairs(row, cols))
<1> DEFINE new_row == repair_wide_pairs(row, cols)
           Cont(c) == row[c].is_wide_continuation
           Wide(c) == row[c].is_wide
<1>1. \A c \in 0..cols-1 : CellOK(row[c]) /\ (Wide(c) => ~Cont(c))
  BY DEF CellsOK, CellOK
<1>2. /\ DOMAIN new_row = 0..cols-1
      /\ \A c \in 0..cols-1 :
           new_row[c] = IF \/ Cont(c) /\ (c = 0 \/ ~Wide(c-1))
                           \/ Wide(c) /\ (c + 1 >= cols \/ ~Cont(c+1))
                        THEN DefaultCell ELSE row[c]
  BY DEF repair_wide_pairs, CellsOK
<1>3. CellOK(DefaultCell) /\ ~has_contents(DefaultCell) /\ ~DefaultCell.is_wide
      /\ ~DefaultCell.is_wide_continuation
  BY FillOK DEF Blank
<1> HIDE DEF new_row
<1>4. CellsOK(new_row, cols)
  BY <1>1, <1>2, <1>3 DEF CellsOK
<1>5. ASSUME NEW c \in 0..cols-1, new_row[c].is_wide_continuation
      PROVE  c > 0 /\ new_row[c-1].is_wide
  <2>1. Cont(c) /\ c > 0 /\ Wide(c-1)
    BY <1>2, <1>3, <1>5
  <2>2. c - 1 \in 0..cols-1 /\ ~(c - 1 + 1 >= cols) /\ (c - 1) + 1 = c
    BY <2>1
  <2>3. ~Cont(c-1)
    BY <1>1, <2>1, <2>2
  <2>4. new_row[c-1] = row[c-1]
    BY <1>2, <2>1, <2>2, <2>3
  <2> QED
    BY <2>1, <2>4
<1>6. ASSUME NEW c \in 0..cols-2, new_row[c].is_wide
      PROVE  new_row[c+1].is_wide_continuation
  <2>0. c \in 0..cols-1 /\ c + 1 \in 0..cols-1 /\ c + 1 # 0 /\ (c + 1) - 1 = c
    OBVIOUS
  <2>1. Wide(c) /\ Cont(c+1)
    BY <1>2, <1>3, <1>6, <2>0
  <2>2. ~Wide(c+1)
    BY <1>1, <2>0, <2>1
  <2>3. new_row[c+1] = row[c+1]
    BY <1>2, <2>0, <2>1, <2>2
  <2> QED
    BY <2>1, <2>3
<1>7. BlankRow(row) => BlankRow(new_row)
  BY <1>2, <1>3 DEF BlankRow, CellsOK
<1> QED
  BY <1>4, <1>5, <1>6, <1>7 DEF RowOK, new_row
(* ICH and DCH move cells anywhere and repair.                              *)
LEMMA InsertOK ==
  ASSUME NEW cols \in Nat, NEW row, RowOK(row, cols), NEW col \in Nat, NEW n \in Nat \ {0}
  PROVE  /\ RowOK(insert_chars(row, col, n, cols), cols)
         /\ BlankRow(row) => BlankRow(insert_chars(row, col, n, cols))
<1> DEFINE moved == [c \in DOMAIN row |-> IF c < col THEN row[c]
                                          ELSE IF c < col + n THEN DefaultCell ELSE row[c-n]]
<1>1. DOMAIN row = 0..cols-1 /\ \A c \in 0..cols-1 : CellOK(row[c])
  BY DEF RowOK, CellsOK
<1>2. Blank(DefaultCell)
  BY FillOK
<1>3. \A c \in 0..cols-1 : ~(c < col) /\ ~(c < col + n) => c - n \in 0..cols-1
  OBVIOUS
<1>4. CellsOK(moved, cols)
  BY <1>1, <1>2, <1>3 DEF CellsOK, Blank
<1>5. BlankRow(row) => BlankRow(moved)
  BY <1>1, <1>2, <1>3 DEF BlankRow, Blank
<1> HIDE DEF moved
<1>6. RowOK(repair_wide_pairs(moved, cols), cols)
      /\ (BlankRow(moved) => BlankRow(repair_wide_pairs(moved, cols)))
  BY <1>4, RepairOK
<1> QED
  BY <1>5, <1>6 DEF insert_chars, moved

(* DCH, with a cut wider than what is right of it.                          *)
LEMMA DeleteOK ==
  ASSUME NEW cols \in Nat, NEW row, RowOK(row, cols), NEW col \in Nat, NEW n \in Nat \ {0}
  PROVE  /\ RowOK(delete_chars(row, col, n, cols), cols)
         /\ BlankRow(row) => BlankRow(delete_chars(row, col, n, cols))
<1> DEFINE moved == [c \in DOMAIN row |-> IF c >= cols - n THEN DefaultCell
                                          ELSE IF c >= col THEN row[c+n] ELSE row[c]]
<1>1. DOMAIN row = 0..cols-1 /\ \A c \in 0..cols-1 : CellOK(row[c])
  BY DEF RowOK, CellsOK
<1>2. Blank(DefaultCell)
  BY FillOK
<1>3. \A c \in 0..cols-1 : ~(c >= cols - n) => c + n \in 0..cols-1
  OBVIOUS
<1>4. CellsOK(moved, cols)
  BY <1>1, <1>2, <1>3 DEF CellsOK, Blank
<1>5. BlankRow(row) => BlankRow(moved)
  BY <1>1, <1>2, <1>3 DEF BlankRow, Blank
<1> HIDE DEF moved
<1>6. RowOK(repair_wide_pairs(moved, cols), cols)
      /\ (BlankRow(moved) => BlankRow(repair_wide_pairs(moved, cols)))
  BY <1>4, RepairOK
<1> QED
  BY <1>5, <1>6 DEF delete_chars, moved

(* An erase takes the half outside its range along.  An empty range must be  *)
(* past the row: anywhere else it would blank a lead and leave the other half.*)
LEMMA EraseOK ==
  ASSUME NEW cols \in Nat, NEW row, RowOK(row, cols),
         NEW range \in (0..cols) \X (0..cols), range[1] < range[2] \/ range[1] = cols,
         NEW blank, Blank(blank)
  PROVE  LET erased == erase_cells_bce(row, range[1], range[2], blank) IN
         /\ RowOK(erased, cols)
         /\ BlankRow(row) => BlankRow(erased)
         /\ range = <<0, cols>> => BlankRow(erased)
<1> DEFINE start == range[1]
           end == range[2]
           erased == erase_cells_bce(row, start, end, blank)
           Gone(c) == \/ start <= c /\ c < end
                      \/ c = start - 1 /\ start \in DOMAIN row /\ row[start].is_wide_continuation
                      \/ c = end /\ end > start /\ row[end-1].is_wide
<1>0. /\ DOMAIN row = 0..cols-1 /\ \A c \in 0..cols-1 : CellOK(row[c])
      /\ \A c \in 0..cols-1 : row[c].is_wide_continuation => c > 0 /\ row[c-1].is_wide
      /\ \A c \in 0..cols-2 : row[c].is_wide => row[c+1].is_wide_continuation
      /\ \A c \in 0..cols-1 : row[c].is_wide => ~row[c].is_wide_continuation
  BY DEF RowOK, CellsOK, CellOK
<1>1. start \in 0..cols /\ end \in 0..cols /\ (start < end \/ start = cols)
  OBVIOUS
<1>2. /\ DOMAIN erased = 0..cols-1
      /\ \A c \in 0..cols-1 : erased[c] = IF Gone(c) THEN blank ELSE row[c]
  BY <1>0 DEF erase_cells_bce
<1>3. CellOK(blank) /\ ~has_contents(blank) /\ ~blank.is_wide /\ ~blank.is_wide_continuation
  BY DEF Blank
<1>4. BlankRow(row) => BlankRow(erased)
  BY <1>0, <1>2, <1>3 DEF BlankRow
<1>5. range = <<0, cols>> => BlankRow(erased)
  BY <1>2, <1>3 DEF BlankRow
<1> HIDE DEF erased, start, end
<1>6. CellsOK(erased, cols)
  BY <1>0, <1>2, <1>3 DEF CellsOK
<1>7. ASSUME NEW c \in 0..cols-1, erased[c].is_wide_continuation
      PROVE  c > 0 /\ erased[c-1].is_wide
  <2>1. ~Gone(c) /\ row[c].is_wide_continuation /\ erased[c] = row[c]
    BY <1>2, <1>3, <1>7
  <2>2. c > 0 /\ row[c-1].is_wide
    BY <1>0, <2>1
  <2>3. c - 1 \in 0..cols-1 /\ (c - 1) + 1 = c
    BY <2>2
  <2>4. ~row[c-1].is_wide_continuation
    BY <1>0, <2>2, <2>3
  <2>5. ~Gone(c-1)
    <3> SUFFICES ASSUME Gone(c-1) PROVE FALSE
      OBVIOUS
    <3>1. CASE start <= c - 1 /\ c - 1 < end
      <4>1. c < end \/ c = end
        BY <1>1, <3>1
      <4>2. c = end => end > start /\ row[end-1].is_wide
        BY <1>1, <2>2, <3>1
      <4> QED
        BY <1>1, <2>1, <3>1, <4>1, <4>2
    <3>2. CASE c - 1 = start - 1 /\ start \in DOMAIN row /\ row[start].is_wide_continuation
      <4>1. c = start
        BY <1>1, <3>2
      <4>2. start < end
        BY <1>1, <4>1
      <4> QED
        BY <2>1, <4>1, <4>2
    <3>3. CASE c - 1 = end /\ end > start /\ row[end-1].is_wide
      <4>1. end - 1 \in 0..cols-2 /\ (end - 1) + 1 = end
        BY <1>1, <2>3, <3>3
      <4>2. row[end].is_wide_continuation
        BY <1>0, <3>3, <4>1
      <4> QED
        BY <2>4, <3>3, <4>2
    <3> QED
      BY <3>1, <3>2, <3>3
  <2> QED
    BY <1>2, <2>2, <2>3, <2>5
<1>8. ASSUME NEW c \in 0..cols-2, erased[c].is_wide
      PROVE  erased[c+1].is_wide_continuation
  <2>0. c \in 0..cols-1 /\ c + 1 \in 0..cols-1 /\ (c + 1) - 1 = c
    OBVIOUS
  <2>1. ~Gone(c) /\ row[c].is_wide /\ row[c+1].is_wide_continuation
    BY <1>0, <1>2, <1>3, <1>8, <2>0
  <2>2. ~Gone(c+1)
    <3> SUFFICES ASSUME Gone(c+1) PROVE FALSE
      OBVIOUS
    <3>1. CASE start <= c + 1 /\ c + 1 < end
      <4>1. c + 1 = start
        BY <1>1, <2>1, <3>1
      <4>2. start \in DOMAIN row /\ row[start].is_wide_continuation /\ c = start - 1
        BY <1>0, <2>0, <2>1, <4>1
      <4> QED
        BY <2>1, <4>2
    <3>2. CASE c + 1 = start - 1 /\ start \in DOMAIN row /\ row[start].is_wide_continuation
      <4>1. start \in 0..cols-1 /\ row[start-1].is_wide
        BY <1>0, <3>2
      <4>2. row[c+1].is_wide
        BY <3>2, <4>1
      <4> QED
        BY <1>0, <2>0, <2>1, <4>2
    <3>3. CASE c + 1 = end /\ end > start /\ row[end-1].is_wide
      <4>1. start <= c /\ c < end
        BY <1>1, <3>3
      <4> QED
        BY <2>1, <4>1
    <3> QED
      BY <3>1, <3>2, <3>3
  <2> QED
    BY <1>2, <2>0, <2>1, <2>2
<1>9. RowOK(erased, cols)
  BY <1>6, <1>7, <1>8 DEF RowOK
<1> QED
  BY <1>4, <1>5, <1>9 DEF erased, start, end
(* A cluster that changes width takes the cell to its right or gives it back.*)
LEMMA WidthOK ==
  ASSUME NEW cols \in Nat, NEW row, RowOK(row, cols), NEW col \in 0..cols-1,
         ~row[col].is_wide_continuation, has_contents(row[col]),
         NEW width \in Int, NEW attrs
  PROVE  RowOK(set_cell_width(row, col, width, attrs), cols)
<1> DEFINE new_row == set_cell_width(row, col, width, attrs)
           link == row[col].hyperlink
<1>0. /\ DOMAIN row = 0..cols-1 /\ \A c \in 0..cols-1 : CellOK(row[c])
      /\ \A c \in 0..cols-1 : row[c].is_wide_continuation => c > 0 /\ row[c-1].is_wide
      /\ \A c \in 0..cols-2 : row[c].is_wide => row[c+1].is_wide_continuation
      /\ \A c \in 0..cols-1 : row[c].is_wide => ~row[c].is_wide_continuation
  BY DEF RowOK, CellsOK, CellOK
<1>1. PICK lead : lead = [row[col] EXCEPT !.is_wide = width > 1, !.is_wide_continuation = FALSE]
  OBVIOUS
<1>2. CellOK(lead) /\ (lead.is_wide <=> width > 1) /\ ~lead.is_wide_continuation
  <2>1. PICK cell : cell = row[col]
    OBVIOUS
  <2>2. CellOK(cell) /\ has_contents(cell) /\ ~cell.is_wide_continuation
    BY <1>0, <2>1
  <2>3. (width > 1) \in BOOLEAN
    OBVIOUS
  <2>4. /\ DOMAIN lead = CellFields /\ lead.contents = cell.contents
        /\ lead.is_wide = (width > 1) /\ lead.is_wide_continuation = FALSE
    BY <1>1, <2>1, <2>2 DEF CellOK, CellFields
  <2> QED
    BY <2>2, <2>3, <2>4 DEF CellOK, has_contents
<1>3. PICK cont : cont = Continuation(attrs, link)
  OBVIOUS
<1>4. CellOK(cont) /\ cont.is_wide_continuation /\ ~cont.is_wide
  BY <1>3, FillOK
<1>5. PICK blank : blank = DefaultCell
  OBVIOUS
<1>6. CellOK(blank) /\ ~blank.is_wide /\ ~blank.is_wide_continuation
  BY <1>5, FillOK DEF Blank
<1>7. /\ DOMAIN new_row = 0..cols-1
      /\ \A c \in 0..cols-1 : new_row[c] =
           IF c = col THEN lead
           ELSE IF c = col + 1 /\ width > 1 THEN cont
           ELSE IF c = col + 1 /\ row[c].is_wide_continuation THEN blank
           ELSE IF c = col + 2 /\ width > 1 /\ row[col+1].is_wide THEN blank
           ELSE row[c]
  BY <1>0, <1>1, <1>3, <1>5 DEF set_cell_width
<1> HIDE DEF new_row, link
<1>8. CellsOK(new_row, cols)
  BY <1>0, <1>2, <1>4, <1>6, <1>7 DEF CellsOK
<1>9. ASSUME NEW c \in 0..cols-1, new_row[c].is_wide_continuation
      PROVE  c > 0 /\ new_row[c-1].is_wide
  <2>1. CASE c = col + 1
    <3>1. width > 1
      BY <1>6, <1>7, <1>9, <2>1
    <3>2. c > 0 /\ c - 1 = col
      BY <2>1
    <3> QED
      BY <1>2, <1>7, <3>1, <3>2
  <2>2. CASE c # col + 1
    <3>1. c # col /\ row[c].is_wide_continuation
      BY <1>2, <1>6, <1>7, <1>9, <2>2
    <3>2. c > 0 /\ row[c-1].is_wide /\ c - 1 \in 0..cols-1
      BY <1>0, <3>1
    <3>3. c - 1 # col /\ ~row[c-1].is_wide_continuation /\ (c - 1 = col + 1 <=> c = col + 2)
      BY <1>0, <2>2, <3>2
    <3>4. ~(c = col + 2 /\ width > 1 /\ row[col+1].is_wide)
      BY <1>6, <1>7, <1>9, <3>1
    <3>5. c - 1 = col + 2 => row[col+2].is_wide
      BY <3>2
    <3>6. ~(c - 1 = col + 1 /\ width > 1)
      BY <3>2, <3>3, <3>4
    <3>7. ~(c - 1 = col + 2 /\ width > 1 /\ row[col+1].is_wide)
      <4> SUFFICES ASSUME c - 1 = col + 2, row[col+1].is_wide PROVE FALSE
        OBVIOUS
      <4>1. col + 1 \in 0..cols-2 /\ (col + 1) + 1 = col + 2
        OBVIOUS
      <4>2. row[col+2].is_wide_continuation
        BY <1>0, <4>1
      <4> QED
        BY <3>3, <4>2
    <3>8. new_row[c-1] = row[c-1]
      BY <1>7, <3>2, <3>3, <3>6, <3>7
    <3> QED
      BY <3>2, <3>8
  <2> QED
    BY <2>1, <2>2
<1>10. ASSUME NEW c \in 0..cols-2, new_row[c].is_wide
       PROVE  new_row[c+1].is_wide_continuation
  <2>0. c \in 0..cols-1 /\ c + 1 \in 0..cols-1
    OBVIOUS
  <2>1. CASE c = col
    BY <1>2, <1>4, <1>7, <1>10, <2>0, <2>1
  <2>2. CASE c # col
    <3>1. row[c].is_wide /\ ~(c = col + 1 /\ width > 1)
          /\ ~(c = col + 2 /\ width > 1 /\ row[col+1].is_wide)
      BY <1>4, <1>6, <1>7, <1>10, <2>0, <2>2
    <3>2. row[c+1].is_wide_continuation
      BY <1>0, <3>1
    <3>3. c + 1 # col
      BY <3>2
    <3>4. c + 1 # col + 1 /\ (c + 1 = col + 2 => c = col + 1)
      BY <2>2
    <3>5. new_row[c+1] = row[c+1]
      BY <1>7, <2>0, <3>1, <3>3, <3>4
    <3> QED
      BY <3>2, <3>5
  <2> QED
    BY <2>1, <2>2
<1> QED
  BY <1>8, <1>9, <1>10 DEF RowOK, new_row

(* A glyph written over a row takes the halves it overwrote along.           *)
LEMMA WriteOK ==
  ASSUME NEW cols \in Nat, NEW row, RowOK(row, cols), NEW col \in 0..cols-1,
         NEW width \in Int, NEW cell, CellOK(cell), ~cell.is_wide_continuation,
         cell.is_wide <=> width > 1
  PROVE  RowOK(write_cells(row, col, width, cell), cols)
<1> DEFINE new_row == write_cells(row, col, width, cell)
<1>0. /\ DOMAIN row = 0..cols-1 /\ \A c \in 0..cols-1 : CellOK(row[c])
      /\ \A c \in 0..cols-1 : row[c].is_wide_continuation => c > 0 /\ row[c-1].is_wide
      /\ \A c \in 0..cols-2 : row[c].is_wide => row[c+1].is_wide_continuation
      /\ \A c \in 0..cols-1 : row[c].is_wide => ~row[c].is_wide_continuation
  BY DEF RowOK, CellsOK, CellOK
<1>3. PICK cont : cont = Continuation(cell.attrs, cell.hyperlink)
  OBVIOUS
<1>4. CellOK(cont) /\ cont.is_wide_continuation /\ ~cont.is_wide
  BY <1>3, FillOK
<1>5. PICK blank : blank = DefaultCell
  OBVIOUS
<1>6. CellOK(blank) /\ ~blank.is_wide /\ ~blank.is_wide_continuation
  BY <1>5, FillOK DEF Blank
<1>7. /\ DOMAIN new_row = 0..cols-1
      /\ \A c \in 0..cols-1 : new_row[c] =
           IF c = col THEN cell
           ELSE IF c = col + 1 /\ width > 1 THEN cont
           ELSE IF c = col - 1 /\ row[col].is_wide_continuation THEN blank
           ELSE IF c = col + 1 /\ row[col].is_wide THEN blank
           ELSE IF c = col + 2 /\ width > 1 /\ row[col+1].is_wide THEN blank
           ELSE row[c]
  BY <1>0, <1>3, <1>5 DEF write_cells
<1> HIDE DEF new_row
<1>8. CellsOK(new_row, cols)
  BY <1>0, <1>4, <1>6, <1>7 DEF CellsOK
<1>9. ASSUME NEW c \in 0..cols-1, new_row[c].is_wide_continuation
      PROVE  c > 0 /\ new_row[c-1].is_wide
  <2>1. CASE c = col + 1 /\ width > 1
    <3>2. c > 0 /\ c - 1 = col
      BY <2>1
    <3> QED
      BY <1>7, <2>1, <3>2
  <2>2. CASE ~(c = col + 1 /\ width > 1)
    <3>1. c # col /\ row[c].is_wide_continuation /\ ~(c = col + 1 /\ row[col].is_wide)
          /\ ~(c = col + 2 /\ width > 1 /\ row[col+1].is_wide)
      BY <1>6, <1>7, <1>9, <2>2
    <3>2. c > 0 /\ row[c-1].is_wide /\ c - 1 \in 0..cols-1
      BY <1>0, <3>1
    <3>3. c - 1 # col /\ ~row[c-1].is_wide_continuation
      BY <1>0, <3>1, <3>2
    <3>4. ~(c - 1 = col - 1 /\ row[col].is_wide_continuation)
      BY <3>1
    <3>5. ~(c - 1 = col + 1 /\ width > 1)
      BY <3>1, <3>2
    <3>6. ~(c - 1 = col + 1 /\ row[col].is_wide)
      <4> SUFFICES ASSUME c - 1 = col + 1, row[col].is_wide PROVE FALSE
        OBVIOUS
      <4>1. col \in 0..cols-2
        OBVIOUS
      <4>2. row[col+1].is_wide_continuation
        BY <1>0, <4>1
      <4> QED
        BY <3>3, <4>2
    <3>7. ~(c - 1 = col + 2 /\ width > 1 /\ row[col+1].is_wide)
      <4> SUFFICES ASSUME c - 1 = col + 2, row[col+1].is_wide PROVE FALSE
        OBVIOUS
      <4>1. col + 1 \in 0..cols-2 /\ (col + 1) + 1 = col + 2
        OBVIOUS
      <4>2. row[col+2].is_wide_continuation
        BY <1>0, <4>1
      <4> QED
        BY <3>3, <4>2
    <3>8. new_row[c-1] = row[c-1]
      BY <1>7, <3>2, <3>3, <3>4, <3>5, <3>6, <3>7
    <3> QED
      BY <3>2, <3>8
  <2> QED
    BY <2>1, <2>2
<1>10. ASSUME NEW c \in 0..cols-2, new_row[c].is_wide
       PROVE  new_row[c+1].is_wide_continuation
  <2>0. c \in 0..cols-1 /\ c + 1 \in 0..cols-1
    OBVIOUS
  <2>1. CASE c = col
    BY <1>4, <1>7, <1>10, <2>0, <2>1
  <2>2. CASE c # col
    <3>1. row[c].is_wide /\ ~(c = col + 1 /\ width > 1)
          /\ ~(c = col - 1 /\ row[col].is_wide_continuation)
          /\ ~(c = col + 2 /\ width > 1 /\ row[col+1].is_wide)
      BY <1>4, <1>6, <1>7, <1>10, <2>0, <2>2
    <3>2. row[c+1].is_wide_continuation
      BY <1>0, <3>1
    <3>3. c + 1 # col
      BY <3>1, <3>2
    <3>4. c + 1 # col - 1 \/ ~row[col].is_wide_continuation
      <4> SUFFICES ASSUME c + 1 = col - 1, row[col].is_wide_continuation PROVE FALSE
        OBVIOUS
      <4>1. row[col-1].is_wide /\ col - 1 \in 0..cols-1
        BY <1>0
      <4> QED
        BY <1>0, <3>2, <4>1
    <3>5. c + 1 # col + 1 /\ (c + 1 = col + 2 => c = col + 1)
      BY <2>2
    <3>6. new_row[c+1] = row[c+1]
      BY <1>7, <2>0, <3>1, <3>3, <3>4, <3>5
    <3> QED
      BY <3>2, <3>6
  <2> QED
    BY <2>1, <2>2
<1> QED
  BY <1>8, <1>9, <1>10 DEF RowOK, new_row
(* A joined scalar changes what a cell shows, not how wide it is.            *)
LEMMA ContentsOK ==
  ASSUME NEW cols \in Nat, NEW row, RowOK(row, cols), NEW col \in 0..cols-1,
         ~row[col].is_wide_continuation, NEW cell,
         CellOK(cell), cell.is_wide = row[col].is_wide, ~cell.is_wide_continuation
  PROVE  RowOK([row EXCEPT ![col] = cell], cols)
<1> DEFINE new_row == [row EXCEPT ![col] = cell]
<1>0. /\ DOMAIN row = 0..cols-1 /\ \A c \in 0..cols-1 : CellOK(row[c])
      /\ \A c \in 0..cols-1 : row[c].is_wide_continuation => c > 0 /\ row[c-1].is_wide
      /\ \A c \in 0..cols-2 : row[c].is_wide => row[c+1].is_wide_continuation
  BY DEF RowOK, CellsOK, CellOK
<1>1. DOMAIN new_row = 0..cols-1 /\ \A c \in 0..cols-1 : new_row[c] = IF c = col THEN cell ELSE row[c]
  BY <1>0
<1> HIDE DEF new_row
<1>2. \A c \in 0..cols-1 : /\ new_row[c].is_wide = row[c].is_wide
                           /\ new_row[c].is_wide_continuation <=> row[c].is_wide_continuation
  BY <1>1
<1>3. \A c \in 0..cols-1 : c > 0 => c - 1 \in 0..cols-1
  OBVIOUS
<1>4. \A c \in 0..cols-2 : c \in 0..cols-1 /\ c + 1 \in 0..cols-1
  OBVIOUS
<1>5. CellsOK(new_row, cols)
  BY <1>0, <1>1 DEF CellsOK
<1>6. \A c \in 0..cols-1 : new_row[c].is_wide_continuation => c > 0 /\ new_row[c-1].is_wide
  BY <1>0, <1>2, <1>3
<1>7. \A c \in 0..cols-2 : new_row[c].is_wide => new_row[c+1].is_wide_continuation
  BY <1>0, <1>2, <1>4
<1> QED
  BY <1>5, <1>6, <1>7 DEF RowOK, new_row

(* A row filled with one blank.                                             *)
LEMMA FilledOK ==
  ASSUME NEW cols \in Nat, NEW blank, Blank(blank)
  PROVE  RowOK([c \in 0..cols-1 |-> blank], cols) /\ BlankRow([c \in 0..cols-1 |-> blank])
<1>1. \A c \in 0..cols-2 : c \in 0..cols-1
  OBVIOUS
<1> QED
  BY <1>1 DEF RowOK, CellsOK, BlankRow, Blank

(* A row that grows completes a lead in its last column, a row that shrinks  *)
(* blanks the lead it cuts.                                                  *)
LEMMA ResizeRowOK ==
  ASSUME NEW len \in Nat \ {0}, NEW cols \in Nat \ {0}, NEW row, RowOK(row, len)
  PROVE  /\ RowOK(resize_row(row, len, cols), cols)
         /\ BlankRow(row) => BlankRow(resize_row(row, len, cols))
<1> DEFINE new_row == resize_row(row, len, cols)
<1>0. /\ DOMAIN row = 0..len-1 /\ \A c \in 0..len-1 : CellOK(row[c])
      /\ \A c \in 0..len-1 : row[c].is_wide_continuation => c > 0 /\ row[c-1].is_wide
      /\ \A c \in 0..len-2 : row[c].is_wide => row[c+1].is_wide_continuation
      /\ \A c \in 0..len-1 : row[c].is_wide => ~row[c].is_wide_continuation
  BY DEF RowOK, CellsOK, CellOK
<1>3. PICK cont : cont = Continuation(row[len-1].attrs, row[len-1].hyperlink)
  OBVIOUS
<1>4. CellOK(cont) /\ cont.is_wide_continuation /\ ~cont.is_wide /\ ~has_contents(cont)
  BY <1>3, FillOK
<1>5. PICK blank : blank = DefaultCell
  OBVIOUS
<1>6. CellOK(blank) /\ ~blank.is_wide /\ ~blank.is_wide_continuation /\ ~has_contents(blank)
  BY <1>5, FillOK DEF Blank
<1>7. /\ DOMAIN new_row = 0..cols-1
      /\ \A c \in 0..cols-1 : new_row[c] =
           IF c = len /\ row[len-1].is_wide THEN cont
           ELSE IF c >= len THEN blank
           ELSE IF cols < len /\ c = cols - 1 /\ row[cols-1].is_wide THEN blank
           ELSE row[c]
  <2> DEFINE resized == [c \in 0..cols-1 |-> IF c < len THEN row[c] ELSE DefaultCell]
  <2>1. CASE cols > len
    <3>1. new_row = complete_wide_lead(resized, len)
      BY <2>1 DEF resize_row
    <3>2. resized[len-1] = row[len-1]
      BY <2>1
    <3> QED
      BY <1>3, <1>5, <2>1, <3>1, <3>2 DEF complete_wide_lead
  <2>2. CASE ~(cols > len)
    <3>1. resized[cols-1] = row[cols-1] /\ \A c \in 0..cols-1 : c < len /\ c # len
      BY <2>2
    <3>2. CASE cols < len /\ row[cols-1].is_wide
      BY <1>5, <2>2, <3>1, <3>2 DEF resize_row
    <3>3. CASE ~(cols < len /\ row[cols-1].is_wide)
      BY <1>5, <2>2, <3>1, <3>3 DEF resize_row
    <3> QED
      BY <3>2, <3>3
  <2> QED
    BY <2>1, <2>2
<1> HIDE DEF new_row
<1>8. \A c \in 0..cols-1 : ~(c >= len) => c \in 0..len-1
  OBVIOUS
<1>9. CellsOK(new_row, cols)
  BY <1>0, <1>4, <1>6, <1>7, <1>8 DEF CellsOK
<1>10. BlankRow(row) => BlankRow(new_row)
  BY <1>0, <1>4, <1>6, <1>7, <1>8 DEF BlankRow
<1>11. ASSUME NEW c \in 0..cols-1, new_row[c].is_wide_continuation
       PROVE  c > 0 /\ new_row[c-1].is_wide
  <2>1. CASE c = len /\ row[len-1].is_wide
    <3>1. c > 0 /\ c - 1 = len - 1 /\ len - 1 \in 0..cols-1 /\ len - 1 # len
          /\ ~(len - 1 >= len) /\ ~(cols < len)
      BY <2>1
    <3> QED
      BY <1>7, <2>1, <3>1
  <2>2. CASE ~(c = len /\ row[len-1].is_wide)
    <3>1. c < len /\ row[c].is_wide_continuation
      BY <1>6, <1>7, <1>11, <2>2
    <3>2. c > 0 /\ row[c-1].is_wide /\ c - 1 \in 0..cols-1
      BY <1>0, <3>1
    <3>3. c - 1 # len /\ ~(c - 1 >= len) /\ c - 1 # cols - 1
      BY <3>1
    <3>4. new_row[c-1] = row[c-1]
      BY <1>7, <3>2, <3>3
    <3> QED
      BY <3>2, <3>4
  <2> QED
    BY <2>1, <2>2
<1>12. ASSUME NEW c \in 0..cols-2, new_row[c].is_wide
       PROVE  new_row[c+1].is_wide_continuation
  <2>0. c \in 0..cols-1 /\ c + 1 \in 0..cols-1
    OBVIOUS
  <2>1. c < len /\ row[c].is_wide
    BY <1>4, <1>6, <1>7, <1>12, <2>0
  <2>2. CASE c + 1 = len
    <3>1. len - 1 = c
      BY <2>2
    <3> QED
      BY <1>4, <1>7, <2>0, <2>1, <2>2, <3>1
  <2>3. CASE c + 1 < len
    <3>1. row[c+1].is_wide_continuation /\ c + 1 \in 0..len-1 /\ c + 1 # len /\ ~(c + 1 >= len)
      BY <1>0, <2>1, <2>3
    <3>2. ~(c + 1 = cols - 1 /\ row[cols-1].is_wide)
      BY <1>0, <3>1
    <3>3. new_row[c+1] = row[c+1]
      BY <1>7, <2>0, <3>1, <3>2
    <3> QED
      BY <3>1, <3>3
  <2> QED
    BY <2>1, <2>2, <2>3
<1> QED
  BY <1>9, <1>10, <1>11, <1>12 DEF RowOK, new_row

-----------------------------------------------------------------------------
(* Screens.                                                                  *)

(* A screen of the given <<rows, columns>>.                                  *)
ScreenOK(screen, size) ==
  /\ DOMAIN screen = {"cells", "wraps"}
  /\ DOMAIN screen.cells = 0..size[1]-1 /\ DOMAIN screen.wraps = 0..size[1]-1
  /\ \A r \in 0..size[1]-1 : RowOK(screen.cells[r], size[2])
BlankScreen(screen) == \A r \in DOMAIN screen.cells : BlankRow(screen.cells[r])
Sizes == (Nat \ {0}) \X (Nat \ {0})

(* A new screen.                                                             *)
LEMMA BlankScreenOK ==
  ASSUME NEW size \in Sizes
  PROVE  LET screen == blank_screen(size[1], size[2]) IN
         ScreenOK(screen, size) /\ BlankScreen(screen)
<1>1. RowOK(blank_row(size[2]), size[2]) /\ BlankRow(blank_row(size[2]))
  BY BlankRowOK DEF Sizes
<1> QED
  BY <1>1 DEF ScreenOK, BlankScreen, blank_screen

(* Rows shifted up or down between two margins.                              *)
LEMMA ShiftUpOK ==
  ASSUME NEW size \in Sizes, NEW screen, ScreenOK(screen, size),
         NEW span \in Nat \X (0..size[1]-1), NEW n \in Nat, NEW wrap
  PROVE  LET moved == shift_up(screen, span[1], span[2], n, size[2], wrap) IN
         ScreenOK(moved, size) /\ (BlankScreen(screen) => BlankScreen(moved))
<1> DEFINE moved == shift_up(screen, span[1], span[2], n, size[2], wrap)
<1>1. RowOK(blank_row(size[2]), size[2]) /\ BlankRow(blank_row(size[2]))
  BY BlankRowOK DEF Sizes
<1>2. DOMAIN moved = {"cells", "wraps"} /\ DOMAIN moved.wraps = 0..size[1]-1
  BY DEF ScreenOK, shift_up
<1>3. /\ DOMAIN moved.cells = 0..size[1]-1
      /\ \A r \in 0..size[1]-1 : moved.cells[r] =
           IF r < span[1] \/ r > span[2] THEN screen.cells[r]
           ELSE IF r + n <= span[2] THEN screen.cells[r+n] ELSE blank_row(size[2])
  BY DEF ScreenOK, shift_up
<1>4. \A r \in 0..size[1]-1 : r + n <= span[2] => r + n \in 0..size[1]-1
  BY DEF Sizes
<1> HIDE DEF moved
<1> QED
  BY <1>1, <1>2, <1>3, <1>4 DEF ScreenOK, BlankScreen, moved

(* The same downwards.                                                       *)
LEMMA ShiftDownOK ==
  ASSUME NEW size \in Sizes, NEW screen, ScreenOK(screen, size),
         NEW span \in Nat \X (0..size[1]-1), NEW n \in Nat
  PROVE  LET moved == shift_down(screen, span[1], span[2], n, size[2]) IN
         ScreenOK(moved, size) /\ (BlankScreen(screen) => BlankScreen(moved))
<1> DEFINE moved == shift_down(screen, span[1], span[2], n, size[2])
<1>1. RowOK(blank_row(size[2]), size[2]) /\ BlankRow(blank_row(size[2]))
  BY BlankRowOK DEF Sizes
<1>2. DOMAIN moved = {"cells", "wraps"} /\ DOMAIN moved.wraps = 0..size[1]-1
  BY DEF ScreenOK, shift_down
<1>3. /\ DOMAIN moved.cells = 0..size[1]-1
      /\ \A r \in 0..size[1]-1 : moved.cells[r] =
           IF r < span[1] \/ r > span[2] THEN screen.cells[r]
           ELSE IF r - n >= span[1] THEN screen.cells[r-n] ELSE blank_row(size[2])
  BY DEF ScreenOK, shift_down
<1>4. \A r \in 0..size[1]-1 : r - n >= span[1] => r - n \in 0..size[1]-1
  BY DEF Sizes
<1> HIDE DEF moved
<1> QED
  BY <1>1, <1>2, <1>3, <1>4 DEF ScreenOK, BlankScreen, moved

(* One row replaced.                                                         *)
LEMMA SetRowOK ==
  ASSUME NEW size \in Sizes, NEW screen, ScreenOK(screen, size),
         NEW r \in 0..size[1]-1, NEW row, RowOK(row, size[2])
  PROVE  LET changed == [screen EXCEPT !.cells = [@ EXCEPT ![r] = row]] IN
         /\ ScreenOK(changed, size)
         /\ BlankScreen(screen) /\ BlankRow(row) => BlankScreen(changed)
         /\ changed.cells[r] = row
         /\ \A q \in 0..size[1]-1 : q # r => changed.cells[q] = screen.cells[q]
BY DEF ScreenOK, BlankScreen

(* Whole rows blanked: if the others were blank, so is the screen.           *)
LEMMA BlankRowsOK ==
  ASSUME NEW size \in Sizes, NEW screen, ScreenOK(screen, size),
         NEW rows, NEW row, RowOK(row, size[2]), BlankRow(row)
  PROVE  LET changed == [screen EXCEPT
               !.cells = [r \in DOMAIN @ |-> IF r \in rows THEN row ELSE @[r]]] IN
         /\ ScreenOK(changed, size)
         /\ (\A r \in 0..size[1]-1 : r \in rows \/ BlankRow(screen.cells[r])) => BlankScreen(changed)
BY DEF ScreenOK, BlankScreen

(* A screen that changes size.                                               *)
LEMMA ResizeScreenOK ==
  ASSUME NEW old \in Sizes, NEW size \in Sizes, NEW screen, ScreenOK(screen, old)
  PROVE  LET resized == resize_screen(screen, old[1], old[2], size[1], size[2]) IN
         ScreenOK(resized, size) /\ (BlankScreen(screen) => BlankScreen(resized))
<1> DEFINE resized == resize_screen(screen, old[1], old[2], size[1], size[2])
<1>1. CASE size[1] = old[1] /\ size[2] = old[2]
  <2>1. resized = screen /\ size = old
    BY <1>1 DEF resize_screen, Sizes
  <2> QED
    BY <2>1
<1>2. CASE ~(size[1] = old[1] /\ size[2] = old[2])
  <2>1. RowOK(blank_row(size[2]), size[2]) /\ BlankRow(blank_row(size[2]))
    BY BlankRowOK DEF Sizes
  <2>2. DOMAIN resized = {"cells", "wraps"} /\ DOMAIN resized.wraps = 0..size[1]-1
    BY <1>2 DEF ScreenOK, resize_screen
  <2>3. /\ DOMAIN resized.cells = 0..size[1]-1
        /\ \A r \in 0..size[1]-1 : resized.cells[r] =
             IF r < old[1] THEN resize_row(screen.cells[r], old[2], size[2]) ELSE blank_row(size[2])
    BY <1>2 DEF resize_screen
  <2>4. \A r \in 0..size[1]-1 : r < old[1] => r \in 0..old[1]-1
    BY DEF Sizes
  <2>5. \A r \in 0..old[1]-1 :
          /\ RowOK(resize_row(screen.cells[r], old[2], size[2]), size[2])
          /\ BlankRow(screen.cells[r]) => BlankRow(resize_row(screen.cells[r], old[2], size[2]))
    BY ResizeRowOK DEF ScreenOK, Sizes
  <2> HIDE DEF resized
  <2> QED
    BY <2>1, <2>2, <2>3, <2>4, <2>5 DEF ScreenOK, BlankScreen, resized
<1> QED
  BY <1>1, <1>2

-----------------------------------------------------------------------------
(* History.                                                                  *)

(* A sequence of saved rows, each put together at the width it was saved at. *)
LineOK(line) == \E cols \in Nat \ {0} : RowOK(line.cells, cols)
Lines(q) == (\E S : q \in Seq(S)) /\ \A i \in 1..Len(q) : LineOK(q[i])

(* The newest rows of the old history and the rows pushed onto it.           *)
LEMMA NewestOK ==
  ASSUME NEW p, Lines(p), NEW q, Lines(q), NEW limit \in Nat
  PROVE  LET all  == p \o q
             kept == SubSeq(all, Greater(Len(all) - limit, 0) + 1, Len(all))
         IN /\ Lines(kept) /\ Len(kept) \in Nat /\ Len(kept) <= limit
            /\ Len(p) <= limit => Len(p) <= Len(kept)
<1>1. PICK S : p \in Seq(S)
  BY DEF Lines
<1>2. PICK T : q \in Seq(T)
  BY DEF Lines
<1>3. PICK U : U = S \cup T
  OBVIOUS
<1>4. p \in Seq(U) /\ q \in Seq(U)
  BY <1>1, <1>2, <1>3
<1>5. PICK all : all = p \o q
  OBVIOUS
<1>6. /\ all \in Seq(U) /\ Len(all) = Len(p) + Len(q) /\ Len(p) \in Nat /\ Len(q) \in Nat
      /\ \A i \in 1..Len(all) : all[i] = IF i <= Len(p) THEN p[i] ELSE q[i - Len(p)]
  <2>1. /\ p \o q \in Seq(U) /\ Len(p \o q) = Len(p) + Len(q)
        /\ \A i \in 1..Len(p) + Len(q) : (p \o q)[i] = IF i <= Len(p) THEN p[i] ELSE q[i - Len(p)]
    BY <1>4, ConcatProperties
  <2>2. Len(p) \in Nat /\ Len(q) \in Nat
    BY <1>4, LenProperties
  <2> QED
    BY <1>5, <2>1, <2>2
<1>7. \A i \in 1..Len(all) : LineOK(all[i])
  <2> SUFFICES ASSUME NEW i \in 1..Len(all) PROVE LineOK(all[i])
    OBVIOUS
  <2>1. CASE i <= Len(p)
    <3>1. i \in 1..Len(p) /\ all[i] = p[i]
      BY <1>6, <2>1
    <3> QED
      BY <3>1 DEF Lines
  <2>2. CASE ~(i <= Len(p))
    <3>1. PICK j : j = i - Len(p)
      OBVIOUS
    <3>2. j \in 1..Len(q) /\ all[i] = q[j]
      BY <1>6, <2>2, <3>1
    <3> QED
      BY <3>2 DEF Lines
  <2> QED
    BY <2>1, <2>2
<1>8. PICK first : first = Greater(Len(all) - limit, 0) + 1
  OBVIOUS
<1>9. first \in Nat \ {0} /\ first <= Len(all) + 1 /\ Len(all) - first + 1 <= limit
      /\ (Len(p) <= limit => Len(p) <= Len(all) - first + 1)
  BY <1>6, <1>8 DEF Greater
<1>10. PICK kept : kept = SubSeq(all, first, Len(all))
  OBVIOUS
<1>11. /\ kept \in Seq(U) /\ Len(kept) = Len(all) - first + 1
       /\ \A i \in 1..Len(kept) : kept[i] = all[first + i - 1]
  <2>1. PICK last : last = Len(all)
    OBVIOUS
  <2>2. last \in Nat /\ \A i \in first..last : all[i] \in U
    BY <1>6, <1>9, <2>1
  <2>3. /\ SubSeq(all, first, last) \in Seq(U)
        /\ Len(SubSeq(all, first, last)) = IF first <= last THEN last - first + 1 ELSE 0
        /\ \A i \in 1..last - first + 1 : SubSeq(all, first, last)[i] = all[first + i - 1]
    BY <1>9, <2>2, SubSeqProperties
  <2>4. kept = SubSeq(all, first, last)
    BY <1>10, <2>1
  <2>5. (IF first <= last THEN last - first + 1 ELSE 0) = last - first + 1
    BY <1>9, <2>1, <2>2
  <2> QED
    BY <2>1, <2>3, <2>4, <2>5
<1>12. \A i \in 1..Len(kept) : first + i - 1 \in 1..Len(all)
  BY <1>6, <1>9, <1>11
<1>13. Lines(kept)
  BY <1>7, <1>11, <1>12 DEF Lines
<1> QED
  BY <1>5, <1>6, <1>8, <1>9, <1>10, <1>11, <1>13

-----------------------------------------------------------------------------
(* The grid: its sizes agree and what it indexes with is in range, the       *)
(* cursor is parked exactly under a pending wrap, no glyph is cut in half.    *)
Fields ==
  { "rows", "cols", "primary", "alternate", "alt", "scrollback", "scrollback_limit",
    "scrollback_offset", "last_preserved_block", "mutated", "erase_policy", "row", "col",
    "saved_row", "saved_col", "pending_wrap", "no_autowrap", "last_print", "scroll_top",
    "scroll_bottom", "pen", "hyperlink", "modes", "cursor_style", "kitty", "dirty",
    "scroll_ops", "events" }

SizeOf(h) == <<h.rows, h.cols>>
CursorOK(h) ==
  /\ h.row \in 0..h.rows-1 /\ h.col \in 0..h.cols /\ h.saved_row \in Nat /\ h.saved_col \in Nat
  /\ h.pending_wrap \in BOOLEAN /\ (h.pending_wrap <=> h.col = h.cols)
MarginsOK(h) ==
  h.scroll_top \in Nat /\ h.scroll_bottom \in 0..h.rows-1 /\ h.scroll_top <= h.scroll_bottom
ScreensOK(h) == ScreenOK(h.primary, SizeOf(h)) /\ ScreenOK(h.alternate, SizeOf(h))
HistoryOK(h) ==
  /\ Lines(h.scrollback) /\ h.scrollback_limit \in Nat /\ Len(h.scrollback) <= h.scrollback_limit
  /\ h.scrollback_offset \in Nat /\ h.scrollback_offset <= Len(h.scrollback)
Shape(h) ==
  /\ DOMAIN h = Fields /\ SizeOf(h) \in Sizes
  /\ CursorOK(h) /\ MarginsOK(h) /\ ScreensOK(h) /\ HistoryOK(h)

(* Without the flag the primary screen holds nothing.                        *)
Clean(h) == h.mutated \/ BlankScreen(h.primary)
Good(h) == Shape(h) /\ Clean(h)

(* The fields Good is about, in its parts.                                   *)
CursorFields == {"row", "col", "saved_row", "saved_col", "pending_wrap"}
Structure ==
  CursorFields \cup {"rows", "cols", "primary", "alternate", "mutated", "scroll_top",
    "scroll_bottom", "scrollback", "scrollback_limit", "scrollback_offset"}

(* Any other field may change.                                               *)
LEMMA FrameOK ==
  ASSUME NEW h, Good(h), NEW k, DOMAIN k = Fields, \A x \in Structure : k[x] = h[x]
  PROVE  Good(k)
<1>1. /\ k.rows = h.rows /\ k.cols = h.cols /\ k.primary = h.primary /\ k.alternate = h.alternate
      /\ k.mutated = h.mutated /\ k.scroll_top = h.scroll_top /\ k.scroll_bottom = h.scroll_bottom
      /\ k.scrollback = h.scrollback /\ k.scrollback_limit = h.scrollback_limit
      /\ k.scrollback_offset = h.scrollback_offset
      /\ k.row = h.row /\ k.col = h.col /\ k.saved_row = h.saved_row /\ k.saved_col = h.saved_col
      /\ k.pending_wrap = h.pending_wrap
  BY DEF Structure, CursorFields
<1> QED
  BY <1>1 DEF Good, Shape, Clean, SizeOf, CursorOK, MarginsOK, ScreensOK, HistoryOK

(* k is h but for the fields of X.                                           *)
Same(h, k, X) == DOMAIN k = Fields /\ \A x \in Fields \ X : k[x] = h[x]

(* What that says of each field the operations read.                         *)
LEMMA SameReads ==
  ASSUME NEW h, NEW k, NEW X, Same(h, k, X)
  PROVE  /\ "rows" \notin X => k.rows = h.rows
         /\ "cols" \notin X => k.cols = h.cols
         /\ "primary" \notin X => k.primary = h.primary
         /\ "alternate" \notin X => k.alternate = h.alternate
         /\ "alt" \notin X => k.alt = h.alt
         /\ "mutated" \notin X => k.mutated = h.mutated
         /\ "row" \notin X => k.row = h.row
         /\ "col" \notin X => k.col = h.col
         /\ "saved_row" \notin X => k.saved_row = h.saved_row
         /\ "saved_col" \notin X => k.saved_col = h.saved_col
         /\ "pending_wrap" \notin X => k.pending_wrap = h.pending_wrap
         /\ "no_autowrap" \notin X => k.no_autowrap = h.no_autowrap
         /\ "scroll_top" \notin X => k.scroll_top = h.scroll_top
         /\ "scroll_bottom" \notin X => k.scroll_bottom = h.scroll_bottom
         /\ "scrollback" \notin X => k.scrollback = h.scrollback
         /\ "scrollback_limit" \notin X => k.scrollback_limit = h.scrollback_limit
         /\ "scrollback_offset" \notin X => k.scrollback_offset = h.scrollback_offset
BY DEF Same, Fields

(* One after the other.                                                      *)
LEMMA SameChain ==
  ASSUME NEW h, NEW k, NEW m, NEW X, NEW Y, Same(h, k, X) /\ Same(k, m, Y)
  PROVE  Same(h, m, X \cup Y)
BY DEF Same

(* One field that Good is not about.                                         *)
LEMMA OtherOK ==
  ASSUME NEW h, Good(h), NEW f \in Fields \ Structure, NEW v
  PROVE  LET k == [h EXCEPT ![f] = v] IN Good(k) /\ Same(h, k, {f})
<1> DEFINE k == [h EXCEPT ![f] = v]
<1>1. DOMAIN h = Fields
  BY DEF Good, Shape
<1>2. Same(h, k, {f})
  BY <1>1 DEF Same
<1>3. Structure \subseteq Fields \ {f}
  BY DEF Structure, CursorFields, Fields
<1> QED
  BY <1>2, <1>3, FrameOK DEF Same

(* Damage, recorded operations and events.                                   *)
LEMMA RecordsOK ==
  ASSUME NEW h, Good(h)
  PROVE  /\ Good(mark_all(h)) /\ Same(h, mark_all(h), {"dirty"})
         /\ \A e : Good(emit(h, e)) /\ Same(h, emit(h, e), {"events"})
         /\ \A o : Good(record_scroll(h, o)) /\ Same(h, record_scroll(h, o), {"scroll_ops"})
         /\ \A d : Good([h EXCEPT !.dirty = d]) /\ Same(h, [h EXCEPT !.dirty = d], {"dirty"})
<1>1. {"dirty", "events", "scroll_ops"} \subseteq Fields \ Structure
  BY DEF Fields, Structure, CursorFields
<1>2. Good(mark_all(h)) /\ Same(h, mark_all(h), {"dirty"})
  BY <1>1, OtherOK DEF mark_all
<1>3. ASSUME NEW e PROVE Good(emit(h, e)) /\ Same(h, emit(h, e), {"events"})
  BY <1>1, OtherOK DEF emit
<1>4. ASSUME NEW o PROVE Good(record_scroll(h, o)) /\ Same(h, record_scroll(h, o), {"scroll_ops"})
  BY <1>1, OtherOK DEF record_scroll
<1>5. ASSUME NEW d PROVE Good([h EXCEPT !.dirty = d]) /\ Same(h, [h EXCEPT !.dirty = d], {"dirty"})
  BY <1>1, OtherOK
<1> QED
  BY <1>2, <1>3, <1>4, <1>5

(* mark_range, which reads the grid's width.                                 *)
LEMMA MarkRangeOK ==
  ASSUME NEW h, Good(h), NEW row, NEW start, NEW end
  PROVE  Good(mark_range(h, row, start, end)) /\ Same(h, mark_range(h, row, start, end), {"dirty"})
<1>1. PICK d : d = h.dirty \cup ({row} \X (start..Lesser(end, h.cols)-1))
  OBVIOUS
<1>2. mark_range(h, row, start, end) = [h EXCEPT !.dirty = d]
  BY <1>1 DEF mark_range
<1> QED
  BY <1>2, RecordsOK

(* A new cursor.                                                             *)
LEMMA CursorFrameOK ==
  ASSUME NEW h, Good(h), NEW k, NEW X, Same(h, k, X), X \cap (Structure \ CursorFields) = {},
         CursorOK(k)
  PROVE  Good(k)
<1>1. /\ k.rows = h.rows /\ k.cols = h.cols /\ k.primary = h.primary /\ k.alternate = h.alternate
      /\ k.mutated = h.mutated /\ k.scroll_top = h.scroll_top /\ k.scroll_bottom = h.scroll_bottom
      /\ k.scrollback = h.scrollback /\ k.scrollback_limit = h.scrollback_limit
      /\ k.scrollback_offset = h.scrollback_offset
  <2>1. {"rows", "cols", "primary", "alternate", "mutated", "scroll_top", "scroll_bottom",
         "scrollback", "scrollback_limit", "scrollback_offset"} \cap X = {}
    BY DEF Structure, CursorFields
  <2> QED
    BY <2>1, SameReads
<1> QED
  BY <1>1 DEF Good, Shape, Clean, SizeOf, MarginsOK, ScreensOK, HistoryOK, Same
(* The parts of Good spelled out for a grid at hand.                         *)
LEMMA GoodReads ==
  ASSUME NEW h, Good(h)
  PROVE  /\ DOMAIN h = Fields /\ SizeOf(h) \in Sizes
         /\ h.rows \in Nat \ {0} /\ h.cols \in Nat \ {0}
         /\ h.row \in 0..h.rows-1 /\ h.col \in 0..h.cols
         /\ h.saved_row \in Nat /\ h.saved_col \in Nat
         /\ h.pending_wrap \in BOOLEAN /\ (h.pending_wrap <=> h.col = h.cols)
         /\ h.scroll_top \in Nat /\ h.scroll_bottom \in 0..h.rows-1 /\ h.scroll_top <= h.scroll_bottom
BY DEF Good, Shape, SizeOf, Sizes, CursorOK, MarginsOK

(* A column and the wrap that goes with it.                                  *)
LEMMA PlaceOK ==
  ASSUME NEW h, Good(h), NEW col \in 0..h.cols, NEW wrap \in BOOLEAN, wrap <=> col = h.cols
  PROVE  LET k == [h EXCEPT !.pending_wrap = wrap, !.col = col] IN
         /\ Good(k) /\ Same(h, k, {"col", "pending_wrap"})
         /\ k.col = col /\ k.pending_wrap = wrap
<1> DEFINE k == [h EXCEPT !.pending_wrap = wrap, !.col = col]
           X == {"col", "pending_wrap"}
<1>1. Same(h, k, X) /\ k.col = col /\ k.pending_wrap = wrap
  BY GoodReads DEF Same, Fields
<1> HIDE DEF k
<1>2. k.rows = h.rows /\ k.cols = h.cols /\ k.row = h.row
      /\ k.saved_row = h.saved_row /\ k.saved_col = h.saved_col
  <2>1. {"rows", "cols", "row", "saved_row", "saved_col"} \cap X = {}
    OBVIOUS
  <2> QED
    BY <1>1, <2>1, SameReads
<1>3. CursorOK(k)
  BY <1>1, <1>2, GoodReads DEF CursorOK
<1>4. X \cap (Structure \ CursorFields) = {}
  BY DEF Structure, CursorFields
<1>5. Good(k)
  BY <1>1, <1>3, <1>4, CursorFrameOK
<1> QED
  BY <1>1, <1>5 DEF k

(* A wrap that is dropped leaves the cursor in the last column.              *)
LEMMA ClearWrapOK ==
  ASSUME NEW h, Good(h)
  PROVE  LET k == clear_pending_wrap(h) IN
         /\ Good(k) /\ Same(h, k, {"col", "pending_wrap", "last_print"})
         /\ k.col \in 0..h.cols-1 /\ k.pending_wrap = FALSE
<1> DEFINE k == clear_pending_wrap(h)
           X == {"col", "pending_wrap", "last_print"}
<1>1. Same(h, k, X) /\ k.col = Lesser(h.col, h.cols - 1) /\ k.pending_wrap = FALSE
  BY GoodReads DEF Same, Fields, clear_pending_wrap
<1> HIDE DEF k
<1>2. k.rows = h.rows /\ k.cols = h.cols /\ k.row = h.row
      /\ k.saved_row = h.saved_row /\ k.saved_col = h.saved_col
  <2>1. {"rows", "cols", "row", "saved_row", "saved_col"} \cap X = {}
    OBVIOUS
  <2> QED
    BY <1>1, <2>1, SameReads
<1>3. k.col \in 0..h.cols-1
  BY <1>1, GoodReads DEF Lesser
<1>4. CursorOK(k)
  <2>1. k.col # k.cols /\ k.col \in 0..k.cols
    BY <1>2, <1>3, GoodReads
  <2> QED
    BY <1>1, <1>2, <2>1, GoodReads DEF CursorOK
<1>5. X \cap (Structure \ CursorFields) = {}
  BY DEF Structure, CursorFields
<1>6. Good(k)
  BY <1>1, <1>4, <1>5, CursorFrameOK
<1> QED
  BY <1>1, <1>3, <1>6 DEF k

(* A cursor moved inside the grid.                                           *)
LEMMA MoveOK ==
  ASSUME NEW h, Good(h), ~h.pending_wrap, NEW row \in Nat, NEW col \in Nat
  PROVE  /\ Good(move_to(h, row, col))
         /\ row < h.rows /\ col < h.cols => Good([h EXCEPT !.row = row, !.col = col])
         /\ row < h.rows => Good([h EXCEPT !.row = row])
         /\ col < h.cols => Good([h EXCEPT !.col = col])
<1> DEFINE X == {"row", "col"}
<1>1. ASSUME NEW k, Same(h, k, X), k.row \in 0..h.rows-1, k.col \in 0..h.cols-1
      PROVE  Good(k)
  <2>1. k.rows = h.rows /\ k.cols = h.cols /\ k.pending_wrap = h.pending_wrap
        /\ k.saved_row = h.saved_row /\ k.saved_col = h.saved_col
    <3>1. {"rows", "cols", "pending_wrap", "saved_row", "saved_col"} \cap X = {}
      OBVIOUS
    <3> QED
      BY <1>1, <3>1, SameReads
  <2>2. CursorOK(k)
    BY <1>1, <2>1, GoodReads DEF CursorOK
  <2>3. X \cap (Structure \ CursorFields) = {}
    BY DEF Structure, CursorFields
  <2> QED
    BY <1>1, <2>2, <2>3, CursorFrameOK
<1>2. h.col \in 0..h.cols-1 /\ h.row \in 0..h.rows-1
  BY GoodReads
<1>3. \A r, c : LET k == [h EXCEPT !.row = r, !.col = c] IN
        Same(h, k, X) /\ k.row = r /\ k.col = c
  BY GoodReads DEF Same, Fields
<1>4. \A r : LET k == [h EXCEPT !.row = r] IN Same(h, k, X) /\ k.row = r /\ k.col = h.col
  BY GoodReads DEF Same, Fields
<1>5. \A c : LET k == [h EXCEPT !.col = c] IN Same(h, k, X) /\ k.row = h.row /\ k.col = c
  BY GoodReads DEF Same, Fields
<1> HIDE DEF X
<1>6. ASSUME NEW r \in 0..h.rows-1, NEW c \in 0..h.cols-1
      PROVE  Good([h EXCEPT !.row = r, !.col = c])
  <2>1. PICK k : k = [h EXCEPT !.row = r, !.col = c]
    OBVIOUS
  <2>2. Same(h, k, X) /\ k.row = r /\ k.col = c
    BY <1>3, <2>1
  <2> QED
    BY <1>1, <2>1, <2>2
<1>7. ASSUME NEW r \in 0..h.rows-1 PROVE Good([h EXCEPT !.row = r])
  <2>1. PICK k : k = [h EXCEPT !.row = r]
    OBVIOUS
  <2>2. Same(h, k, X) /\ k.row = r /\ k.col = h.col
    BY <1>4, <2>1
  <2> QED
    BY <1>1, <1>2, <2>1, <2>2
<1>8. ASSUME NEW c \in 0..h.cols-1 PROVE Good([h EXCEPT !.col = c])
  <2>1. PICK k : k = [h EXCEPT !.col = c]
    OBVIOUS
  <2>2. Same(h, k, X) /\ k.row = h.row /\ k.col = c
    BY <1>5, <2>1
  <2> QED
    BY <1>1, <1>2, <2>1, <2>2
<1>9. Lesser(row, h.rows - 1) \in 0..h.rows-1 /\ Lesser(col, h.cols - 1) \in 0..h.cols-1
  BY GoodReads DEF Lesser
<1>10. Good(move_to(h, row, col))
  BY <1>6, <1>9 DEF move_to
<1>11. (row < h.rows => row \in 0..h.rows-1) /\ (col < h.cols => col \in 0..h.cols-1)
  BY GoodReads
<1> QED
  BY <1>6, <1>7, <1>8, <1>10, <1>11

(* A saved cursor comes back on the grid, or parked with its wrap armed.     *)
LEMMA SaveRestoreOK ==
  ASSUME NEW h, Good(h)
  PROVE  /\ Good(save_cursor(h)) /\ Same(h, save_cursor(h), {"saved_row", "saved_col"})
         /\ Good(restore_saved_cursor(h))
         /\ Good([h EXCEPT !.saved_row = 0, !.saved_col = 0])
<1>1. ASSUME NEW sr \in Nat, NEW sc \in Nat
      PROVE  LET k == [h EXCEPT !.saved_row = sr, !.saved_col = sc] IN
             Good(k) /\ Same(h, k, {"saved_row", "saved_col"})
  <2> DEFINE k == [h EXCEPT !.saved_row = sr, !.saved_col = sc]
             X == {"saved_row", "saved_col"}
  <2>1. Same(h, k, X) /\ k.saved_row = sr /\ k.saved_col = sc
    BY GoodReads DEF Same, Fields
  <2> HIDE DEF k
  <2>2. k.rows = h.rows /\ k.cols = h.cols /\ k.pending_wrap = h.pending_wrap
        /\ k.row = h.row /\ k.col = h.col
    <3>1. {"rows", "cols", "pending_wrap", "row", "col"} \cap X = {}
      OBVIOUS
    <3> QED
      BY <2>1, <3>1, SameReads
  <2>3. CursorOK(k)
    BY <2>1, <2>2, GoodReads DEF CursorOK
  <2>4. X \cap (Structure \ CursorFields) = {}
    BY DEF Structure, CursorFields
  <2>5. Good(k)
    BY <2>1, <2>3, <2>4, CursorFrameOK
  <2> QED
    BY <2>1, <2>5 DEF k
<1>2. Good(save_cursor(h)) /\ Same(h, save_cursor(h), {"saved_row", "saved_col"})
  <2>1. h.row \in Nat /\ h.col \in Nat
    BY GoodReads
  <2> QED
    BY <1>1, <2>1 DEF save_cursor
<1>3. Good(restore_saved_cursor(h))
  <2> DEFINE k == restore_saved_cursor(h)
             X == {"row", "col", "pending_wrap", "last_print"}
  <2>1. /\ Same(h, k, X) /\ k.row = Lesser(h.saved_row, h.rows - 1)
        /\ k.col = Lesser(h.saved_col, h.cols) /\ k.pending_wrap = (h.saved_col >= h.cols)
    BY GoodReads DEF Same, Fields, restore_saved_cursor
  <2> HIDE DEF k
  <2>2. k.rows = h.rows /\ k.cols = h.cols /\ k.saved_row = h.saved_row /\ k.saved_col = h.saved_col
    <3>1. {"rows", "cols", "saved_row", "saved_col"} \cap X = {}
      OBVIOUS
    <3> QED
      BY <2>1, <3>1, SameReads
  <2>3. k.row \in 0..k.rows-1 /\ k.col \in 0..k.cols
    BY <2>1, <2>2, GoodReads DEF Lesser
  <2>4. k.pending_wrap \in BOOLEAN
    BY <2>1
  <2>5. k.pending_wrap <=> k.col = k.cols
    <3>1. h.saved_col \in Nat /\ h.cols \in Nat
      BY GoodReads
    <3>2. Lesser(h.saved_col, h.cols) = h.cols <=> h.saved_col >= h.cols
      BY <3>1 DEF Lesser
    <3> QED
      BY <2>1, <2>2, <3>2
  <2>6. CursorOK(k)
    BY <2>2, <2>3, <2>4, <2>5, GoodReads DEF CursorOK
  <2>7. X \cap (Structure \ CursorFields) = {}
    BY DEF Structure, CursorFields
  <2> QED
    BY <2>1, <2>6, <2>7, CursorFrameOK DEF k
<1> QED
  BY <1>1, <1>2, <1>3
-----------------------------------------------------------------------------
(* The screen the program sees.                                              *)

(* Shape alone, for the grid between the save and the erase it precedes.     *)
LEMMA ShapeReads ==
  ASSUME NEW h, Shape(h)
  PROVE  /\ DOMAIN h = Fields /\ SizeOf(h) \in Sizes
         /\ h.rows \in Nat \ {0} /\ h.cols \in Nat \ {0}
         /\ h.row \in 0..h.rows-1 /\ h.col \in 0..h.cols
         /\ h.scroll_top \in Nat /\ h.scroll_bottom \in 0..h.rows-1 /\ h.scroll_top <= h.scroll_bottom
         /\ SizeOf(h)[1] = h.rows /\ SizeOf(h)[2] = h.cols
         /\ ScreenOK(h.primary, SizeOf(h)) /\ ScreenOK(active_grid(h), SizeOf(h))
         /\ RowOK(CursorCells(h), h.cols)
<1>1. ScreenOK(active_grid(h), SizeOf(h)) /\ ScreenOK(h.primary, SizeOf(h))
  BY DEF Shape, ScreensOK, active_grid
<1>2. SizeOf(h)[1] = h.rows /\ SizeOf(h)[2] = h.cols
  BY DEF SizeOf
<1>3. h.row \in 0..h.rows-1
  BY DEF Shape, CursorOK
<1>4. RowOK(CursorCells(h), h.cols)
  BY <1>1, <1>2, <1>3 DEF CursorCells, ScreenOK
<1> QED
  BY <1>1, <1>2, <1>3, <1>4 DEF Shape, SizeOf, Sizes, CursorOK, MarginsOK

(* Any field outside Structure may change, and the flag.                     *)
LEMMA ShapeFrameOK ==
  ASSUME NEW h, Shape(h), NEW k, NEW X, Same(h, k, X), X \cap (Structure \ {"mutated"}) = {}
  PROVE  Shape(k)
<1>1. /\ k.rows = h.rows /\ k.cols = h.cols /\ k.primary = h.primary /\ k.alternate = h.alternate
      /\ k.scroll_top = h.scroll_top /\ k.scroll_bottom = h.scroll_bottom
      /\ k.scrollback = h.scrollback /\ k.scrollback_limit = h.scrollback_limit
      /\ k.scrollback_offset = h.scrollback_offset
      /\ k.row = h.row /\ k.col = h.col /\ k.saved_row = h.saved_row /\ k.saved_col = h.saved_col
      /\ k.pending_wrap = h.pending_wrap
  <2>1. {"rows", "cols", "primary", "alternate", "scroll_top", "scroll_bottom", "scrollback",
         "scrollback_limit", "scrollback_offset", "row", "col", "saved_row", "saved_col",
         "pending_wrap"} \cap X = {}
    BY DEF Structure, CursorFields
  <2> QED
    BY <2>1, SameReads
<1> QED
  BY <1>1 DEF Shape, SizeOf, CursorOK, MarginsOK, ScreensOK, HistoryOK, Same

(* Replacing it.                                                             *)
LEMMA SetActiveOK ==
  ASSUME NEW h, Shape(h), NEW screen, ScreenOK(screen, SizeOf(h))
  PROVE  LET k == SetActive(h, screen) IN
         /\ Shape(k) /\ Same(h, k, {"primary", "alternate"}) /\ active_grid(k) = screen
         /\ k.primary = IF h.alt THEN h.primary ELSE screen
         /\ h.mutated \/ (h.alt /\ Clean(h)) \/ (~h.alt /\ BlankScreen(screen)) => Clean(k)
<1> DEFINE k == SetActive(h, screen)
           X == {"primary", "alternate"}
<1>1. Same(h, k, X) /\ k.primary = (IF h.alt THEN h.primary ELSE screen)
      /\ k.alternate = (IF h.alt THEN screen ELSE h.alternate)
  BY ShapeReads DEF Same, Fields, SetActive
<1> HIDE DEF k
<1>2. /\ k.rows = h.rows /\ k.cols = h.cols /\ k.alt = h.alt /\ k.mutated = h.mutated
      /\ k.scroll_top = h.scroll_top /\ k.scroll_bottom = h.scroll_bottom
      /\ k.scrollback = h.scrollback /\ k.scrollback_limit = h.scrollback_limit
      /\ k.scrollback_offset = h.scrollback_offset
      /\ k.row = h.row /\ k.col = h.col /\ k.saved_row = h.saved_row /\ k.saved_col = h.saved_col
      /\ k.pending_wrap = h.pending_wrap
  <2>1. {"rows", "cols", "alt", "mutated", "scroll_top", "scroll_bottom", "scrollback",
         "scrollback_limit", "scrollback_offset", "row", "col", "saved_row", "saved_col",
         "pending_wrap"} \cap X = {}
    OBVIOUS
  <2> QED
    BY <1>1, <2>1, SameReads
<1>3. ScreensOK(k)
  BY <1>1, <1>2 DEF Shape, ScreensOK, SizeOf
<1>4. Shape(k)
  BY <1>1, <1>2, <1>3 DEF Shape, SizeOf, CursorOK, MarginsOK, HistoryOK, Same
<1>5. active_grid(k) = screen
  BY <1>1, <1>2 DEF active_grid
<1>6. h.mutated \/ (h.alt /\ Clean(h)) \/ (~h.alt /\ BlankScreen(screen)) => Clean(k)
  BY <1>1, <1>2 DEF Clean
<1> QED
  BY <1>1, <1>4, <1>5, <1>6 DEF k

(* Replacing the cursor's row.                                               *)
LEMMA SetCursorCellsOK ==
  ASSUME NEW h, Shape(h), NEW row, RowOK(row, h.cols)
  PROVE  LET k == SetCursorCells(h, row) IN
         /\ Shape(k) /\ Same(h, k, {"primary", "alternate"})
         /\ CursorCells(k) = row
         /\ \A r \in 0..h.rows-1 : r # h.row => active_grid(k).cells[r] = active_grid(h).cells[r]
         /\ h.mutated => Clean(k)
         /\ Clean(h) /\ (BlankRow(CursorCells(h)) => BlankRow(row)) => Clean(k)
<1> DEFINE k == SetCursorCells(h, row)
<1>1. PICK screen : screen = active_grid(h)
  OBVIOUS
<1>2. PICK changed : changed = [screen EXCEPT !.cells = [@ EXCEPT ![h.row] = row]]
  OBVIOUS
<1>3. /\ ScreenOK(changed, SizeOf(h))
      /\ BlankScreen(screen) /\ BlankRow(row) => BlankScreen(changed)
      /\ changed.cells[h.row] = row
      /\ \A q \in 0..h.rows-1 : q # h.row => changed.cells[q] = screen.cells[q]
  <2>1. PICK size : size = SizeOf(h)
    OBVIOUS
  <2>2. /\ size \in Sizes /\ ScreenOK(screen, size) /\ h.row \in 0..size[1]-1
        /\ RowOK(row, size[2]) /\ size[1] = h.rows
    BY <1>1, <2>1, ShapeReads
  <2>3. PICK at : at = h.row
    OBVIOUS
  <2>4. at \in 0..size[1]-1
    BY <2>2, <2>3
  <2> DEFINE c == [screen EXCEPT !.cells = [@ EXCEPT ![at] = row]]
  <2>5. /\ ScreenOK(c, size) /\ (BlankScreen(screen) /\ BlankRow(row) => BlankScreen(c))
        /\ c.cells[at] = row /\ \A q \in 0..size[1]-1 : q # at => c.cells[q] = screen.cells[q]
    BY <2>2, <2>4, SetRowOK
  <2>6. changed = c
    BY <1>2, <2>3
  <2> HIDE DEF c
  <2> QED
    BY <2>1, <2>2, <2>3, <2>5, <2>6
<1>4. k = SetActive(h, changed)
  BY <1>1, <1>2 DEF SetCursorCells
<1>5. /\ Shape(k) /\ Same(h, k, {"primary", "alternate"}) /\ active_grid(k) = changed
      /\ h.mutated \/ (h.alt /\ Clean(h)) \/ (~h.alt /\ BlankScreen(changed)) => Clean(k)
  BY <1>3, <1>4, SetActiveOK
<1> HIDE DEF k
<1>6. k.row = h.row
  BY <1>5, SameReads
<1>7. CursorCells(k) = row
  BY <1>3, <1>5, <1>6 DEF CursorCells
<1>8. ASSUME Clean(h), BlankRow(CursorCells(h)) => BlankRow(row), ~h.mutated, ~h.alt
      PROVE  BlankScreen(changed)
  <2>1. screen = h.primary /\ BlankScreen(screen)
    BY <1>1, <1>8 DEF Clean, active_grid
  <2>2. h.row \in DOMAIN screen.cells
    BY <1>1, ShapeReads DEF ScreenOK
  <2>3. BlankRow(CursorCells(h))
    BY <1>1, <2>1, <2>2 DEF BlankScreen, CursorCells
  <2> QED
    BY <1>3, <1>8, <2>1, <2>3
<1> QED
  BY <1>1, <1>3, <1>5, <1>7, <1>8 DEF k
-----------------------------------------------------------------------------
(* Scrolling.                                                                *)

(* The flag may always be set.                                               *)
LEMMA MutatedOK ==
  ASSUME NEW h, Shape(h), NEW flag
  PROVE  LET k == [h EXCEPT !.mutated = flag] IN
         Shape(k) /\ Same(h, k, {"mutated"}) /\ k.mutated = flag /\ (flag => Clean(k))
<1> DEFINE k == [h EXCEPT !.mutated = flag]
<1>1. Same(h, k, {"mutated"}) /\ k.mutated = flag
  BY ShapeReads DEF Same, Fields
<1> HIDE DEF k
<1>2. Shape(k)
  <2>1. {"mutated"} \cap (Structure \ {"mutated"}) = {}
    OBVIOUS
  <2> QED
    BY <1>1, <2>1, ShapeFrameOK
<1> QED
  BY <1>1, <1>2 DEF k, Clean

(* A grid that differs in the history alone.                                 *)
LEMMA HistoryFrameOK ==
  ASSUME NEW h, Shape(h), NEW k, NEW X, Same(h, k, X),
         X \cap (Structure \ {"mutated", "scrollback", "scrollback_offset"}) = {}, HistoryOK(k)
  PROVE  Shape(k)
<1>1. /\ k.rows = h.rows /\ k.cols = h.cols /\ k.primary = h.primary /\ k.alternate = h.alternate
      /\ k.scroll_top = h.scroll_top /\ k.scroll_bottom = h.scroll_bottom
      /\ k.row = h.row /\ k.col = h.col /\ k.saved_row = h.saved_row /\ k.saved_col = h.saved_col
      /\ k.pending_wrap = h.pending_wrap
  <2>1. {"rows", "cols", "primary", "alternate", "scroll_top", "scroll_bottom",
         "row", "col", "saved_row", "saved_col", "pending_wrap"} \cap X = {}
    BY DEF Structure, CursorFields
  <2> QED
    BY <2>1, SameReads
<1> QED
  BY <1>1 DEF Shape, SizeOf, CursorOK, MarginsOK, ScreensOK, Same

(* Rows pushed onto the history; what scrolls out at its far end is dropped, *)
(* and a view into it stays inside.                                          *)
LEMMA PushOK ==
  ASSUME NEW h, Shape(h), NEW rows, Lines(rows)
  PROVE  Shape(push_scrollback(h, rows)) /\ Same(h, push_scrollback(h, rows), {"scrollback"})
<1> DEFINE k == push_scrollback(h, rows)
<1>0. HistoryOK(h)
  BY DEF Shape
<1>1. PICK p, limit : p = h.scrollback /\ limit = h.scrollback_limit
  OBVIOUS
<1>2. Lines(p) /\ limit \in Nat /\ Len(p) <= limit
  BY <1>0, <1>1 DEF HistoryOK
<1>3. PICK kept : LET all == p \o rows IN
        kept = SubSeq(all, Greater(Len(all) - limit, 0) + 1, Len(all))
  OBVIOUS
<1>4. Lines(kept) /\ Len(kept) \in Nat /\ Len(kept) <= limit /\ Len(p) <= Len(kept)
  BY <1>2, <1>3, NewestOK
<1>5. k = [h EXCEPT !.scrollback = kept]
  BY <1>1, <1>3 DEF push_scrollback
<1>6. Same(h, k, {"scrollback"}) /\ k.scrollback = kept
  BY <1>5, ShapeReads DEF Same, Fields
<1> HIDE DEF k
<1>7. k.scrollback_limit = h.scrollback_limit /\ k.scrollback_offset = h.scrollback_offset
  <2>1. {"scrollback_limit", "scrollback_offset"} \cap {"scrollback"} = {}
    OBVIOUS
  <2> QED
    BY <1>6, <2>1, SameReads
<1>8. Len(p) \in Nat
  BY <1>2, LenProperties DEF Lines
<1>9. h.scrollback_offset \in Nat /\ h.scrollback_offset <= Len(p)
  BY <1>0, <1>1 DEF HistoryOK
<1>10. h.scrollback_offset <= Len(kept)
  BY <1>4, <1>8, <1>9
<1>11. HistoryOK(k)
  BY <1>1, <1>2, <1>4, <1>6, <1>7, <1>9, <1>10 DEF HistoryOK
<1>12. {"scrollback"} \cap (Structure \ {"mutated", "scrollback", "scrollback_offset"}) = {}
  OBVIOUS
<1> QED
  BY <1>6, <1>11, <1>12, HistoryFrameOK DEF k

(* The history forgotten, or looked at from elsewhere.                       *)
LEMMA ViewOK ==
  ASSUME NEW h, Good(h)
  PROVE  /\ Good(clear_scrollback(h))
         /\ Same(h, clear_scrollback(h), {"scrollback", "scrollback_offset"})
         /\ \A offset \in Nat : Good(set_scrollback(h, offset))
<1>0. Shape(h) /\ HistoryOK(h) /\ Len(h.scrollback) \in Nat
  BY LenProperties DEF Good, Shape, HistoryOK, Lines
<1>1. ASSUME NEW k, Same(h, k, {"scrollback", "scrollback_offset"}), HistoryOK(k) PROVE Good(k)
  <2>1. {"scrollback", "scrollback_offset"} \cap
          (Structure \ {"mutated", "scrollback", "scrollback_offset"}) = {}
    OBVIOUS
  <2>2. Shape(k)
    BY <1>0, <1>1, <2>1, HistoryFrameOK
  <2>3. {"primary", "mutated"} \cap {"scrollback", "scrollback_offset"} = {}
    OBVIOUS
  <2>4. k.primary = h.primary /\ k.mutated = h.mutated
    BY <1>1, <2>3, SameReads
  <2> QED
    BY <2>2, <2>4 DEF Good, Clean
<1>2. Good(clear_scrollback(h)) /\ Same(h, clear_scrollback(h), {"scrollback", "scrollback_offset"})
  <2> DEFINE k == clear_scrollback(h)
  <2>1. Same(h, k, {"scrollback", "scrollback_offset"})
        /\ k.scrollback = <<>> /\ k.scrollback_offset = 0
    BY <1>0, ShapeReads DEF Same, Fields, clear_scrollback
  <2> HIDE DEF k
  <2>2. k.scrollback_limit = h.scrollback_limit
    <3>1. "scrollback_limit" \notin {"scrollback", "scrollback_offset"}
      OBVIOUS
    <3> QED
      BY <2>1, <3>1, SameReads
  <2>3. <<>> \in Seq({}) /\ Len(<<>>) = 0
    OBVIOUS
  <2>4. HistoryOK(k)
    BY <1>0, <2>1, <2>2, <2>3 DEF HistoryOK, Lines
  <2> QED
    BY <1>1, <2>1, <2>4 DEF k
<1>3. ASSUME NEW offset \in Nat PROVE Good(set_scrollback(h, offset))
  <2> DEFINE k == set_scrollback(h, offset)
  <2>1. Same(h, k, {"scrollback", "scrollback_offset"})
        /\ k.scrollback = h.scrollback /\ k.scrollback_offset = Lesser(offset, Len(h.scrollback))
    BY <1>0, ShapeReads DEF Same, Fields, set_scrollback
  <2> HIDE DEF k
  <2>2. k.scrollback_limit = h.scrollback_limit
    <3>1. "scrollback_limit" \notin {"scrollback", "scrollback_offset"}
      OBVIOUS
    <3> QED
      BY <2>1, <3>1, SameReads
  <2>3. k.scrollback_offset \in Nat /\ k.scrollback_offset <= Len(h.scrollback)
    BY <1>0, <2>1 DEF Lesser
  <2>4. HistoryOK(k)
    BY <1>0, <2>1, <2>2, <2>3 DEF HistoryOK
  <2> QED
    BY <1>1, <2>1, <2>4 DEF k
<1> QED
  BY <1>2, <1>3
(* A set of naturals has a least element, a bounded one a greatest.          *)
LEMMA LeastNatural ==
  ASSUME NEW T, T \subseteq Nat, T # {}
  PROVE  \E x \in T : \A y \in T : x <= y
<1> DEFINE R == OpToRel(<, Nat)
<1>1. IsWellFoundedOn(R, Nat)
  BY NatLessThanWellFounded
<1>2. \A x \in Nat, y \in Nat : <<y, x>> \in R <=> y < x
  BY DEF OpToRel
<1> HIDE DEF R
<1>3. PICK x \in T : \A y \in T : <<y, x>> \notin R
  BY <1>1, WFMin
<1>4. \A y \in T : x \in Nat /\ y \in Nat /\ ~(y < x)
  BY <1>2, <1>3
<1> QED
  BY <1>4

(* The first and the last row of a set of rows.                              *)
LEMMA ExtremesOK ==
  ASSUME NEW n \in Nat, NEW T, T \subseteq 0..n, T # {}
  PROVE  Min(T) \in T /\ Max(T) \in T /\ \A x \in T : Min(T) <= x /\ x <= Max(T)
<1>1. \E x \in T : \A y \in T : x <= y
  <2>1. T \subseteq Nat
    OBVIOUS
  <2> QED
    BY <2>1, LeastNatural
<1>2. \E x \in T : \A y \in T : x >= y
  <2> DEFINE U == {n - x : x \in T}
  <2>1. U \subseteq Nat /\ U # {}
    <3>1. \A x \in T : n - x \in Nat
      OBVIOUS
    <3>2. U \subseteq Nat
      BY <3>1
    <3>3. PICK x \in T : TRUE
      OBVIOUS
    <3>4. n - x \in U
      OBVIOUS
    <3> QED
      BY <3>2, <3>4
  <2> HIDE DEF U
  <2>2. PICK u \in U : \A v \in U : u <= v
    BY <2>1, LeastNatural
  <2>3. PICK x \in T : u = n - x
    BY DEF U
  <2>4. \A y \in T : n - y \in U
    BY DEF U
  <2>5. \A y \in T : y \in 0..n /\ n - x <= n - y
    BY <2>2, <2>3, <2>4
  <2>6. \A y \in T : x >= y
    BY <2>5
  <2> QED
    BY <2>6
<1> QED
  BY <1>1, <1>2 DEF Min, Max

(* Rows of the screen, as history.                                           *)
LEMMA SpanLines ==
  ASSUME NEW size \in Sizes, NEW screen, ScreenOK(screen, size), NEW span \in Nat \X Nat,
         span[1] + span[2] <= size[1], NEW wraps
  PROVE  Lines([i \in 1..span[2] |-> [cells |-> screen.cells[span[1] + i - 1], wrap |-> wraps[i]]])
<1> DEFINE line(i) == [cells |-> screen.cells[span[1] + i - 1], wrap |-> wraps[i]]
           q == [i \in 1..span[2] |-> line(i)]
           S == {line(i) : i \in 1..span[2]}
<1>1. q \in Seq(S) /\ Len(q) = span[2]
  <2>1. PICK n : n = span[2]
    OBVIOUS
  <2>2. n \in Nat /\ q = [i \in 1..n |-> line(i)] /\ \A i \in 1..n : line(i) \in S
    BY <2>1
  <2> HIDE DEF line, S, q
  <2> QED
    BY <2>1, <2>2
<1>2. \A i \in 1..span[2] : span[1] + i - 1 \in 0..size[1]-1
  BY DEF Sizes
<1>3. size[2] \in Nat \ {0} /\ \A r \in 0..size[1]-1 : RowOK(screen.cells[r], size[2])
  BY DEF Sizes, ScreenOK
<1>4. \A i \in 1..span[2] : line(i).cells = screen.cells[span[1] + i - 1]
  OBVIOUS
<1>5. \A i \in 1..span[2] : LineOK(q[i])
  BY <1>2, <1>3, <1>4 DEF LineOK
<1> HIDE DEF q, S
<1>6. Lines(q)
  BY <1>1, <1>5 DEF Lines
<1> QED
  BY <1>6 DEF q

(* The block a full-screen erase saves: empty exactly for a blank screen.    *)
LEMMA BlockOK ==
  ASSUME NEW h, Shape(h)
  PROVE  /\ visible_block(h) = <<>> <=> BlankScreen(h.primary)
         /\ LET block == visible_block(h) IN
              Lines([i \in 1..Len(block) |-> [cells |-> block[i], wrap |-> Hard]])
<1> DEFINE full == {r \in 0..h.rows-1 : \E c \in 0..h.cols-1 : has_contents(h.primary.cells[r][c])}
           block == visible_block(h)
<1>1. ScreenOK(h.primary, SizeOf(h)) /\ SizeOf(h)[1] = h.rows /\ SizeOf(h)[2] = h.cols
      /\ SizeOf(h) \in Sizes /\ h.rows \in Nat \ {0} /\ h.cols \in Nat \ {0}
  BY ShapeReads
<1>2. full = {} <=> BlankScreen(h.primary)
  <2>1. DOMAIN h.primary.cells = 0..h.rows-1
        /\ \A r \in 0..h.rows-1 : DOMAIN h.primary.cells[r] = 0..h.cols-1
    BY <1>1 DEF ScreenOK, RowOK, CellsOK
  <2> QED
    BY <2>1 DEF BlankScreen, BlankRow
<1>3. full \subseteq 0..h.rows-1
  OBVIOUS
<1>4. block = IF full = {} THEN <<>>
              ELSE [i \in 1..(Max(full) - Min(full) + 1) |-> h.primary.cells[Min(full) + i - 1]]
  BY DEF visible_block
<1> HIDE DEF full, block
<1>5. CASE full = {}
  <2>1. block = <<>> /\ Len(block) = 0
    BY <1>4, <1>5
  <2>2. Lines([i \in 1..0 |-> [cells |-> block[i], wrap |-> Hard]])
    <3> DEFINE q == [i \in 1..0 |-> [cells |-> block[i], wrap |-> Hard]]
    <3>1. q \in Seq({}) /\ Len(q) = 0
      OBVIOUS
    <3> QED
      BY <3>1 DEF Lines
  <2> QED
    BY <1>2, <1>5, <2>1, <2>2 DEF block
<1>6. CASE full # {}
  <2>1. PICK lo, n : lo = Min(full) /\ n = Max(full) - Min(full) + 1
    OBVIOUS
  <2>2. h.rows - 1 \in Nat
    BY <1>1
  <2>3. Min(full) \in full /\ Max(full) \in full /\ Min(full) <= Max(full)
    BY <1>3, <1>6, <2>2, ExtremesOK
  <2>4. lo \in Nat /\ n \in Nat \ {0} /\ lo + n <= h.rows
    <3>1. PICK hi, last : hi = Max(full) /\ last = h.rows - 1
      OBVIOUS
    <3>2. lo \in 0..last /\ hi \in 0..last /\ lo <= hi /\ n = hi - lo + 1
      BY <1>3, <2>1, <2>3, <3>1
    <3>3. last \in Nat /\ h.rows = last + 1
      BY <1>1, <3>1
    <3> QED
      BY <3>2, <3>3
  <2>5. block = [i \in 1..n |-> h.primary.cells[lo + i - 1]]
    BY <1>4, <1>6, <2>1
  <2>6. Len(block) = n /\ block # <<>>
    BY <2>4, <2>5
  <2>7. Lines([i \in 1..n |-> [cells |-> h.primary.cells[lo + i - 1], wrap |-> Hard]])
    <3>1. PICK span, size : span = <<lo, n>> /\ size = SizeOf(h)
      OBVIOUS
    <3>2. span \in Nat \X Nat /\ span[1] = lo /\ span[2] = n /\ span[1] + span[2] <= size[1]
          /\ size \in Sizes /\ ScreenOK(h.primary, size)
      BY <1>1, <2>4, <3>1
    <3>3. PICK wraps : wraps = [i \in 1..n |-> Hard]
      OBVIOUS
    <3>4. Lines([i \in 1..span[2] |->
                   [cells |-> h.primary.cells[span[1] + i - 1], wrap |-> wraps[i]]])
      BY <3>2, SpanLines
    <3>5. [i \in 1..span[2] |-> [cells |-> h.primary.cells[span[1] + i - 1], wrap |-> wraps[i]]]
            = [i \in 1..n |-> [cells |-> h.primary.cells[lo + i - 1], wrap |-> Hard]]
      BY <3>2, <3>3
    <3> QED
      BY <3>4, <3>5
  <2>8. [i \in 1..Len(block) |-> [cells |-> block[i], wrap |-> Hard]]
          = [i \in 1..n |-> [cells |-> h.primary.cells[lo + i - 1], wrap |-> Hard]]
    BY <2>5, <2>6
  <2> QED
    BY <1>2, <1>6, <2>6, <2>7, <2>8 DEF block
<1> QED
  BY <1>5, <1>6
(* The save before a full-screen erase.  Between the two the flag may be     *)
(* down with the screen still full, on the primary screen only.              *)
LEMMA PreserveOK ==
  ASSUME NEW h, Good(h)
  PROVE  LET k == preserve_visible_rows(h) IN
         /\ Shape(k) /\ Same(h, k, {"mutated", "scrollback", "last_preserved_block"})
         /\ h.alt => Clean(k)
<1> DEFINE k == preserve_visible_rows(h)
           X == {"mutated", "scrollback", "last_preserved_block"}
<1>0. Shape(h) /\ DOMAIN h = Fields /\ Clean(h)
  BY DEF Good, Shape
<1>1. PICK block : block = visible_block(h)
  OBVIOUS
<1>2. PICK clean : clean = [h EXCEPT !.mutated = FALSE]
  OBVIOUS
<1>3. Shape(clean) /\ Same(h, clean, {"mutated"})
  BY <1>0, <1>2, MutatedOK
<1>4. PICK rows : rows = [i \in 1..Len(block) |-> [cells |-> block[i], wrap |-> Hard]]
  OBVIOUS
<1>5. Lines(rows)
  BY <1>0, <1>1, <1>4, BlockOK
<1>6. PICK pushed : pushed = push_scrollback(clean, rows)
  OBVIOUS
<1>7. Shape(pushed) /\ Same(clean, pushed, {"scrollback"})
  BY <1>3, <1>5, <1>6, PushOK
<1>8. PICK saved : saved = [pushed EXCEPT !.last_preserved_block = block]
  OBVIOUS
<1>9. Same(pushed, saved, {"last_preserved_block"})
  <2>1. DOMAIN pushed = Fields
    BY <1>7 DEF Same
  <2> QED
    BY <1>8, <2>1 DEF Same
<1>10. Shape(saved)
  <2>1. {"last_preserved_block"} \cap (Structure \ {"mutated"}) = {}
    BY DEF Structure, CursorFields
  <2> QED
    BY <1>7, <1>9, <2>1, ShapeFrameOK
<1>11. Same(h, saved, X)
  BY <1>3, <1>7, <1>9 DEF Same
<1>12. Same(h, h, X) /\ Same(h, clean, X)
  BY <1>0, <1>3 DEF Same
<1>13. k = h \/ (~h.alt /\ (k = clean \/ k = saved))
  <2>1. k = IF h.erase_policy = "Discard" \/ h.alt \/ h.scrollback_limit = 0 \/ ~h.mutated \/ block = <<>>
            THEN h ELSE IF block = h.last_preserved_block THEN clean ELSE saved
    BY <1>1, <1>2, <1>4, <1>6, <1>8 DEF preserve_visible_rows
  <2> HIDE DEF k
  <2> QED
    BY <2>1
<1> HIDE DEF k, X
<1>14. Shape(k) /\ Same(h, k, X) /\ (h.alt => Clean(k))
  BY <1>0, <1>3, <1>10, <1>11, <1>12, <1>13
<1> QED
  BY <1>14 DEF k, X

(* Rows that shift between two margins of the screen, in either direction.   *)
LEMMA ShiftOK ==
  ASSUME NEW h, Good(h), NEW top \in Nat, NEW n \in Nat, NEW wrap
  PROVE  LET up   == SetActive(h, shift_up(active_grid(h), top, h.scroll_bottom, n, h.cols, wrap))
             down == SetActive(h, shift_down(active_grid(h), top, h.scroll_bottom, n, h.cols))
         IN /\ Good(up) /\ Same(h, up, {"primary", "alternate"})
            /\ Good(down) /\ Same(h, down, {"primary", "alternate"})
<1>0. Shape(h) /\ Clean(h)
  BY DEF Good
<1>1. PICK screen, size, span : screen = active_grid(h) /\ size = SizeOf(h)
                                /\ span = <<top, h.scroll_bottom>>
  OBVIOUS
<1>2. /\ ScreenOK(screen, size) /\ size \in Sizes /\ size[1] = h.rows /\ size[2] = h.cols
      /\ span \in Nat \X (0..size[1]-1) /\ span[1] = top /\ span[2] = h.scroll_bottom
  BY <1>0, <1>1, ShapeReads
<1>3. PICK up, down : /\ up = shift_up(screen, span[1], span[2], n, size[2], wrap)
                      /\ down = shift_down(screen, span[1], span[2], n, size[2])
  OBVIOUS
<1>4. ScreenOK(up, size) /\ (BlankScreen(screen) => BlankScreen(up))
  BY <1>2, <1>3, ShiftUpOK
<1>5. ScreenOK(down, size) /\ (BlankScreen(screen) => BlankScreen(down))
  BY <1>2, <1>3, ShiftDownOK
<1>6. ASSUME NEW s, ScreenOK(s, size), BlankScreen(screen) => BlankScreen(s)
      PROVE  Good(SetActive(h, s)) /\ Same(h, SetActive(h, s), {"primary", "alternate"})
  <2>1. h.mutated \/ (h.alt /\ Clean(h)) \/ (~h.alt /\ BlankScreen(s))
    BY <1>0, <1>1, <1>6 DEF Clean, active_grid
  <2> QED
    BY <1>0, <1>1, <1>6, <2>1, SetActiveOK DEF Good
<1>7. /\ up = shift_up(active_grid(h), top, h.scroll_bottom, n, h.cols, wrap)
      /\ down = shift_down(active_grid(h), top, h.scroll_bottom, n, h.cols)
  BY <1>1, <1>2, <1>3
<1> QED
  BY <1>4, <1>5, <1>6, <1>7

(* A record leaves the screen as it is.                                      *)
LEMMA RecordReads ==
  ASSUME NEW h, Good(h), NEW op
  PROVE  LET k == record_scroll(h, op) IN
         /\ Good(k) /\ Same(h, k, {"scroll_ops"})
         /\ active_grid(k) = active_grid(h) /\ k.scroll_bottom = h.scroll_bottom /\ k.cols = h.cols
<1> DEFINE k == record_scroll(h, op)
<1>1. Good(k) /\ Same(h, k, {"scroll_ops"})
  BY RecordsOK
<1> HIDE DEF k
<1>2. {"primary", "alternate", "alt", "scroll_bottom", "cols"} \cap {"scroll_ops"} = {}
  OBVIOUS
<1>3. k.primary = h.primary /\ k.alternate = h.alternate /\ k.alt = h.alt
      /\ k.scroll_bottom = h.scroll_bottom /\ k.cols = h.cols
  BY <1>1, <1>2, SameReads
<1> QED
  BY <1>1, <1>3 DEF k, active_grid

(* IL, DL, SD and RI.                                                        *)
LEMMA RegionOK ==
  ASSUME NEW h, Good(h), NEW p0 \in Nat
  PROVE  Good(il(h, p0)) /\ Good(dl(h, p0)) /\ Good(sd(h, p0))
<1>1. ASSUME NEW op, NEW top \in Nat, NEW n \in Nat
      PROVE  LET r == record_scroll(h, op) IN
        /\ Good(mark_all(SetActive(r, shift_up(active_grid(h), top, h.scroll_bottom, n, h.cols, Hard))))
        /\ Good(mark_all(SetActive(r, shift_down(active_grid(h), top, h.scroll_bottom, n, h.cols))))
  <2>1. PICK r : r = record_scroll(h, op)
    OBVIOUS
  <2>2. Good(r) /\ active_grid(r) = active_grid(h) /\ r.scroll_bottom = h.scroll_bottom /\ r.cols = h.cols
    BY <2>1, RecordReads
  <2>3. /\ Good(SetActive(r, shift_up(active_grid(r), top, r.scroll_bottom, n, r.cols, Hard)))
        /\ Good(SetActive(r, shift_down(active_grid(r), top, r.scroll_bottom, n, r.cols)))
    BY <2>2, ShiftOK
  <2>4. /\ Good(SetActive(r, shift_up(active_grid(h), top, h.scroll_bottom, n, h.cols, Hard)))
        /\ Good(SetActive(r, shift_down(active_grid(h), top, h.scroll_bottom, n, h.cols)))
    BY <2>2, <2>3
  <2> QED
    BY <2>1, <2>4, RecordsOK
<1>2. h.row \in Nat /\ h.scroll_top \in Nat /\ h.scroll_bottom \in Nat /\ h.scroll_top <= h.scroll_bottom
  BY GoodReads
<1>3. ASSUME NEW top \in Nat, top <= h.scroll_bottom
      PROVE  Lesser(Count(p0), h.scroll_bottom - top + 1) \in Nat
  BY <1>2, <1>3 DEF Lesser, Count, Greater
<1>4. InMargins(h) => h.row <= h.scroll_bottom
  BY DEF InMargins
<1>5. Good(il(h, p0)) /\ Good(dl(h, p0))
  <2>1. CASE ~InMargins(h)
    BY <2>1 DEF il, dl
  <2>2. CASE InMargins(h)
    <3>1. Lesser(Count(p0), h.scroll_bottom - h.row + 1) \in Nat
      BY <1>2, <1>3, <1>4, <2>2
    <3> QED
      BY <1>1, <1>2, <2>2, <3>1 DEF il, dl
  <2> QED
    BY <2>1, <2>2
<1>6. Good(sd(h, p0))
  BY <1>1, <1>2, <1>3 DEF sd
<1> QED
  BY <1>5, <1>6
(* SU and the scroll a line feed at the bottom margin makes.                 *)
ScrollFields == {"mutated", "scroll_ops", "scrollback", "primary", "alternate", "dirty"}
LEMMA ScrollUpOK ==
  ASSUME NEW h, Good(h), NEW count \in Nat, NEW wrap
  PROVE  /\ Good(scroll_up(h, count, wrap)) /\ Same(h, scroll_up(h, count, wrap), ScrollFields)
         /\ scroll_up(h, count, wrap).mutated = TRUE
<1>0. Shape(h)
  BY DEF Good
<1>1. PICK top, bottom : top = h.scroll_top /\ bottom = h.scroll_bottom
  OBVIOUS
<1>2. top \in Nat /\ bottom \in 0..h.rows-1 /\ top <= bottom /\ h.rows \in Nat
  BY <1>1, GoodReads
<1>3. PICK n : n = Lesser(count, bottom - top + 1)
  OBVIOUS
<1>4. n \in Nat /\ top + n <= h.rows
  BY <1>2, <1>3 DEF Lesser
<1>5. PICK screen : screen = active_grid(h)
  OBVIOUS
<1>6. PICK leaving :
        leaving = [i \in 1..n |-> [cells |-> screen.cells[top+i-1], wrap |-> screen.wraps[top+i-1]]]
  OBVIOUS
<1>7. Lines(leaving)
  <2>1. PICK size, span, wraps : size = SizeOf(h) /\ span = <<top, n>>
                                 /\ wraps = [i \in 1..n |-> screen.wraps[top+i-1]]
    OBVIOUS
  <2>2. /\ size \in Sizes /\ ScreenOK(screen, size) /\ size[1] = h.rows
        /\ span \in Nat \X Nat /\ span[1] = top /\ span[2] = n
    BY <1>0, <1>2, <1>4, <1>5, <2>1, ShapeReads
  <2>3. span[1] + span[2] <= size[1]
    BY <1>4, <2>2
  <2>4. Lines([i \in 1..span[2] |-> [cells |-> screen.cells[span[1] + i - 1], wrap |-> wraps[i]]])
    BY <2>2, <2>3, SpanLines
  <2>5. leaving = [i \in 1..span[2] |-> [cells |-> screen.cells[span[1] + i - 1], wrap |-> wraps[i]]]
    BY <1>6, <2>1, <2>2
  <2> QED
    BY <2>4, <2>5
<1>8. PICK marked : marked = [h EXCEPT !.mutated = TRUE]
  OBVIOUS
<1>9. Good(marked) /\ Same(h, marked, {"mutated"}) /\ marked.mutated = TRUE
  BY <1>0, <1>8, MutatedOK DEF Good
<1>10. PICK recorded : recorded = record_scroll(marked, ScrollOp("Up", top, bottom, n))
  OBVIOUS
<1>11. Good(recorded) /\ Same(marked, recorded, {"scroll_ops"})
  BY <1>9, <1>10, RecordsOK
<1>12. PICK fed : fed = IF top < bottom /\ ~h.alt /\ top = 0 /\ h.scrollback_limit > 0
                        THEN push_scrollback(recorded, leaving) ELSE recorded
  OBVIOUS
<1>13. recorded.mutated = TRUE
  <2>1. "mutated" \notin {"scroll_ops"}
    OBVIOUS
  <2> QED
    BY <1>9, <1>11, <2>1, SameReads
<1>14. Shape(fed) /\ Same(recorded, fed, {"scrollback"})
  <2>1. Shape(recorded) /\ Same(recorded, recorded, {"scrollback"})
    BY <1>11 DEF Good, Same
  <2>2. Shape(push_scrollback(recorded, leaving))
        /\ Same(recorded, push_scrollback(recorded, leaving), {"scrollback"})
    BY <1>7, <2>1, PushOK
  <2> QED
    BY <1>12, <2>1, <2>2
<1>15. fed.mutated = TRUE
  <2>1. "mutated" \notin {"scrollback"}
    OBVIOUS
  <2> QED
    BY <1>13, <1>14, <2>1, SameReads
<1>16. Good(fed)
  BY <1>14, <1>15 DEF Good, Clean
<1> DEFINE Y == {"mutated", "scroll_ops", "scrollback"}
<1>17. Same(h, fed, Y)
  BY <1>9, <1>11, <1>14 DEF Same
<1>18. active_grid(fed) = screen /\ fed.scroll_bottom = bottom /\ fed.cols = h.cols
  <2>1. {"primary", "alternate", "alt", "scroll_bottom", "cols"} \cap Y = {}
    OBVIOUS
  <2>2. fed.primary = h.primary /\ fed.alternate = h.alternate /\ fed.alt = h.alt
        /\ fed.scroll_bottom = h.scroll_bottom /\ fed.cols = h.cols
    BY <1>17, <2>1, SameReads
  <2> QED
    BY <1>1, <1>5, <2>2 DEF active_grid
<1>19. PICK moved : moved = IF top >= bottom THEN fed
                            ELSE SetActive(fed, shift_up(screen, top, bottom, n, h.cols, wrap))
  OBVIOUS
<1>20. Good(moved) /\ Same(fed, moved, {"primary", "alternate"})
  <2>1. Same(fed, fed, {"primary", "alternate"})
    BY <1>14 DEF Same
  <2>2. PICK shifted :
          shifted = SetActive(fed, shift_up(active_grid(fed), top, fed.scroll_bottom, n, fed.cols, wrap))
    OBVIOUS
  <2>3. Good(shifted) /\ Same(fed, shifted, {"primary", "alternate"})
    BY <1>2, <1>4, <1>16, <2>2, ShiftOK
  <2>4. moved = IF top >= bottom THEN fed ELSE shifted
    BY <1>18, <1>19, <2>2
  <2> QED
    BY <1>16, <2>1, <2>3, <2>4
<1>21. PICK d : d = moved.dirty \cup ((top..bottom) \X (0..h.cols-1))
  OBVIOUS
<1>22. PICK k : k = [moved EXCEPT !.dirty = d]
  OBVIOUS
<1>23. Good(k) /\ Same(moved, k, {"dirty"})
  BY <1>20, <1>22, RecordsOK
<1>24. Same(h, k, ScrollFields)
  BY <1>17, <1>20, <1>23 DEF Same, ScrollFields
<1>25. k.mutated = TRUE
  <2>1. "mutated" \notin {"primary", "alternate"} /\ "mutated" \notin {"dirty"}
    OBVIOUS
  <2> QED
    BY <1>15, <1>20, <1>23, <2>1, SameReads
<1>26. k = scroll_up(h, count, wrap)
  BY <1>1, <1>3, <1>5, <1>6, <1>8, <1>10, <1>12, <1>19, <1>21, <1>22 DEF scroll_up
<1> QED
  BY <1>23, <1>24, <1>25, <1>26

(* A line feed.                                                              *)
LEMMA NewlineOK ==
  ASSUME NEW h, Good(h), NEW wrap
  PROVE  /\ Good(newline_action(h, wrap))
         /\ Same(h, newline_action(h, wrap), ScrollFields \cup {"row"})
         /\ h.mutated => newline_action(h, wrap).mutated
<1> DEFINE k == newline_action(h, wrap)
<1>1. CASE h.row = h.scroll_bottom
  <2>1. k = scroll_up(h, 1, wrap)
    BY <1>1 DEF newline_action
  <2>2. Good(k) /\ Same(h, k, ScrollFields) /\ k.mutated = TRUE
    BY <2>1, ScrollUpOK
  <2> QED
    BY <2>2 DEF Same
<1>2. CASE h.row # h.scroll_bottom
  <2>1. PICK at : at = Lesser(h.row + 1, h.rows - 1)
    OBVIOUS
  <2>2. at \in 0..h.rows-1
    BY <2>1, GoodReads DEF Lesser
  <2>3. PICK down : down = [h EXCEPT !.row = at]
    OBVIOUS
  <2>4. Same(h, down, {"row"}) /\ down.row = at
    BY <2>3, GoodReads DEF Same, Fields
  <2>5. {"rows", "cols", "col", "saved_row", "saved_col", "pending_wrap", "mutated"} \cap {"row"} = {}
    OBVIOUS
  <2>6. down.rows = h.rows /\ down.cols = h.cols /\ down.col = h.col /\ down.saved_row = h.saved_row
        /\ down.saved_col = h.saved_col /\ down.pending_wrap = h.pending_wrap
        /\ down.mutated = h.mutated
    BY <2>4, <2>5, SameReads
  <2>7. CursorOK(down)
    BY <2>2, <2>4, <2>6, GoodReads DEF CursorOK
  <2>8. {"row"} \cap (Structure \ CursorFields) = {}
    BY DEF CursorFields
  <2>9. Good(down)
    BY <2>4, <2>7, <2>8, CursorFrameOK
  <2>10. PICK screen : screen = active_grid(down)
    OBVIOUS
  <2>11. PICK wrapped : wrapped = [screen EXCEPT !.wraps = [@ EXCEPT ![at] = wrap]]
    OBVIOUS
  <2>12. Shape(down) /\ Clean(down) /\ ScreenOK(screen, SizeOf(down))
    BY <2>9, <2>10, ShapeReads DEF Good
  <2>13. ScreenOK(wrapped, SizeOf(down)) /\ wrapped.cells = screen.cells
    BY <2>11, <2>12 DEF ScreenOK
  <2>14. k = SetActive(down, wrapped)
    BY <1>2, <2>1, <2>3, <2>4, <2>10, <2>11 DEF newline_action
  <2>15. down.mutated \/ (down.alt /\ Clean(down)) \/ (~down.alt /\ BlankScreen(wrapped))
    BY <2>10, <2>12, <2>13 DEF Clean, BlankScreen, active_grid
  <2>16. Good(k) /\ Same(down, k, {"primary", "alternate"})
    BY <2>12, <2>13, <2>14, <2>15, SetActiveOK DEF Good
  <2> HIDE DEF k
  <2>17. Same(h, k, ScrollFields \cup {"row"})
    BY <2>4, <2>16 DEF Same, ScrollFields
  <2>18. k.mutated = h.mutated
    <3>1. "mutated" \notin {"primary", "alternate"}
      OBVIOUS
    <3> QED
      BY <2>6, <2>16, <3>1, SameReads
  <2> QED
    BY <2>16, <2>17, <2>18 DEF k
<1> QED
  BY <1>1, <1>2

(* A reverse line feed.                                                      *)
LEMMA ReverseOK ==
  ASSUME NEW h, Good(h)
  PROVE  Good(reverse_index(h))
<1>1. PICK k : k = clear_pending_wrap(h)
  OBVIOUS
<1>2. Good(k) /\ k.pending_wrap = FALSE
  BY <1>1, ClearWrapOK
<1>3. CASE k.row # k.scroll_top
  <2>1. PICK at : at = Greater(k.row - 1, 0)
    OBVIOUS
  <2>2. at \in Nat /\ at < k.rows
    BY <1>2, <2>1, GoodReads DEF Greater
  <2>3. k.col \in Nat
    BY <1>2, GoodReads
  <2>4. Good([k EXCEPT !.row = at])
    BY <1>2, <2>2, <2>3, MoveOK
  <2> QED
    BY <1>1, <1>3, <2>1, <2>4 DEF reverse_index
<1>4. CASE k.row = k.scroll_top
  <2>1. PICK r : r = record_scroll(k, ScrollOp("Down", k.scroll_top, k.scroll_bottom, 1))
    OBVIOUS
  <2>2. Good(r) /\ active_grid(r) = active_grid(k) /\ r.scroll_bottom = k.scroll_bottom /\ r.cols = k.cols
    BY <1>2, <2>1, RecordReads
  <2>3. k.scroll_top \in Nat
    BY <1>2, GoodReads
  <2>4. Good(SetActive(r, shift_down(active_grid(r), k.scroll_top, r.scroll_bottom, 1, r.cols)))
    BY <2>2, <2>3, ShiftOK
  <2>5. Good(SetActive(r, shift_down(active_grid(k), k.scroll_top, k.scroll_bottom, 1, k.cols)))
    BY <2>2, <2>4
  <2> QED
    BY <1>1, <1>4, <2>1, <2>5, RecordsOK DEF reverse_index
<1> QED
  BY <1>3, <1>4
-----------------------------------------------------------------------------
(* Erasing and editing the cursor's row.                                     *)

(* What a program cannot see was blank stays blank.                          *)
LEMMA RowEditOK ==
  ASSUME NEW h, Good(h), NEW row, RowOK(row, h.cols), BlankRow(CursorCells(h)) => BlankRow(row),
         NEW start, NEW end
  PROVE  Good(SetCursorCells(h, row)) /\ Good(mark_range(SetCursorCells(h, row), h.row, start, end))
<1>1. Good(SetCursorCells(h, row))
  BY SetCursorCellsOK DEF Good
<1> QED
  BY <1>1, MarkRangeOK

(* An erased range of the cursor's row.                                      *)
LEMMA EraseRangeOK ==
  ASSUME NEW h, Shape(h), NEW range \in (0..h.cols) \X (0..h.cols),
         range[1] < range[2] \/ range[1] = h.cols
  PROVE  LET row == erase_cells_bce(CursorCells(h), range[1], range[2], blank_cell(h)) IN
         /\ RowOK(row, h.cols) /\ (BlankRow(CursorCells(h)) => BlankRow(row))
         /\ range = <<0, h.cols>> => BlankRow(row)
<1>1. PICK row, cols, blank : row = CursorCells(h) /\ cols = h.cols /\ blank = blank_cell(h)
  OBVIOUS
<1>2. RowOK(row, cols) /\ cols \in Nat
  BY <1>1, ShapeReads
<1>3. Blank(blank)
  BY <1>1, FillOK DEF blank_cell
<1>4. PICK r : r = range
  OBVIOUS
<1>5. r \in (0..cols) \X (0..cols) /\ (r[1] < r[2] \/ r[1] = cols)
  BY <1>1, <1>4
<1>6. LET erased == erase_cells_bce(row, r[1], r[2], blank) IN
      RowOK(erased, cols) /\ (BlankRow(row) => BlankRow(erased)) /\ (r = <<0, cols>> => BlankRow(erased))
  BY <1>2, <1>3, <1>5, EraseOK
<1> QED
  BY <1>1, <1>4, <1>6

(* Erasing from the cursor on: a parked cursor erases nothing, one in the    *)
(* first column everything.                                                  *)
LEMMA EraseRightOK ==
  ASSUME NEW h, Shape(h)
  PROVE  LET k == erase_right(h) IN
         /\ Shape(k) /\ Same(h, k, {"primary", "alternate"})
         /\ Clean(h) => Clean(k)
         /\ h.col = 0 => BlankRow(CursorCells(k))
         /\ \A r \in 0..h.rows-1 : r # h.row => active_grid(k).cells[r] = active_grid(h).cells[r]
<1>1. PICK range : range = <<h.col, h.cols>>
  OBVIOUS
<1>2. range \in (0..h.cols) \X (0..h.cols) /\ (range[1] < range[2] \/ range[1] = h.cols)
      /\ range[1] = h.col /\ range[2] = h.cols
  BY <1>1, ShapeReads
<1>3. PICK row : row = erase_cells_bce(CursorCells(h), range[1], range[2], blank_cell(h))
  OBVIOUS
<1>4. RowOK(row, h.cols) /\ (BlankRow(CursorCells(h)) => BlankRow(row))
      /\ (range = <<0, h.cols>> => BlankRow(row))
  BY <1>2, <1>3, EraseRangeOK
<1>5. erase_right(h) = SetCursorCells(h, row)
  BY <1>2, <1>3 DEF erase_right
<1>6. h.col = 0 => range = <<0, h.cols>>
  BY <1>1
<1> QED
  BY <1>4, <1>5, <1>6, SetCursorCellsOK

(* Erasing up to and with the cursor.                                        *)
LEMMA EraseLeftOK ==
  ASSUME NEW h, Good(h)
  PROVE  Good(erase_left(h))
<1>0. Shape(h)
  BY DEF Good
<1>1. PICK range : range = <<0, Lesser(h.col, h.cols - 1) + 1>>
  OBVIOUS
<1>2. Lesser(h.col, h.cols - 1) + 1 \in 1..h.cols /\ h.cols \in Nat
  BY GoodReads DEF Lesser
<1>3. range \in (0..h.cols) \X (0..h.cols) /\ range[1] < range[2]
      /\ range[1] = 0 /\ range[2] = Lesser(h.col, h.cols - 1) + 1
  BY <1>1, <1>2
<1>4. PICK row : row = erase_cells_bce(CursorCells(h), range[1], range[2], blank_cell(h))
  OBVIOUS
<1>5. RowOK(row, h.cols) /\ (BlankRow(CursorCells(h)) => BlankRow(row))
  BY <1>0, <1>3, <1>4, EraseRangeOK
<1>6. erase_left(h) = SetCursorCells(h, row)
  BY <1>3, <1>4 DEF erase_left
<1> QED
  BY <1>5, <1>6, RowEditOK

(* A row of blanks in the pen's background.                                  *)
LEMMA BceRowOK ==
  ASSUME NEW h, Shape(h)
  PROVE  RowOK(blank_row_bce(h), h.cols) /\ BlankRow(blank_row_bce(h))
<1>1. Blank(blank_cell(h))
  BY FillOK DEF blank_cell
<1>2. h.cols \in Nat
  BY ShapeReads
<1> QED
  BY <1>1, <1>2, FilledOK DEF blank_row_bce

(* Whole rows.                                                               *)
LEMMA BlankLinesOK ==
  ASSUME NEW h, Shape(h), NEW rows
  PROVE  LET k == blank_rows(h, rows) IN
         /\ Shape(k) /\ Same(h, k, {"primary", "alternate"})
         /\ Clean(h) => Clean(k)
         /\ ~h.alt /\ (\A r \in 0..h.rows-1 : r \in rows \/ BlankRow(active_grid(h).cells[r]))
              => Clean(k)
<1>1. PICK screen, size, row : screen = active_grid(h) /\ size = SizeOf(h) /\ row = blank_row_bce(h)
  OBVIOUS
<1>2. size \in Sizes /\ ScreenOK(screen, size) /\ RowOK(row, size[2]) /\ BlankRow(row)
      /\ size[1] = h.rows
  BY <1>1, ShapeReads, BceRowOK
<1>3. PICK changed : changed = [screen EXCEPT
        !.cells = [r \in DOMAIN @ |-> IF r \in rows THEN row ELSE @[r]]]
  OBVIOUS
<1>4. /\ ScreenOK(changed, size)
      /\ (\A r \in 0..h.rows-1 : r \in rows \/ BlankRow(screen.cells[r])) => BlankScreen(changed)
  BY <1>2, <1>3, BlankRowsOK
<1>5. PICK k : k = SetActive(h, changed)
  OBVIOUS
<1>6. k = blank_rows(h, rows)
  BY <1>1, <1>3, <1>5 DEF blank_rows
<1>7. /\ Shape(k) /\ Same(h, k, {"primary", "alternate"})
      /\ h.mutated \/ (h.alt /\ Clean(h)) \/ (~h.alt /\ BlankScreen(changed)) => Clean(k)
  BY <1>1, <1>4, <1>5, SetActiveOK
<1>8. ASSUME Clean(h) PROVE Clean(k)
  <2>1. CASE h.mutated \/ h.alt
    BY <1>7, <1>8, <2>1
  <2>2. CASE ~h.mutated /\ ~h.alt
    <3>1. BlankScreen(screen) /\ DOMAIN screen.cells = 0..h.rows-1
      BY <1>1, <1>2, <1>8, <2>2 DEF Clean, active_grid, ScreenOK
    <3>2. BlankScreen(changed)
      BY <1>4, <3>1 DEF BlankScreen
    <3> QED
      BY <1>7, <2>2, <3>2
  <2> QED
    BY <2>1, <2>2
<1>9. ~h.alt /\ (\A r \in 0..h.rows-1 : r \in rows \/ BlankRow(active_grid(h).cells[r])) => Clean(k)
  BY <1>1, <1>4, <1>7
<1> QED
  BY <1>6, <1>7, <1>8, <1>9
(* EL.                                                                       *)
LEMMA EraseLineOK ==
  ASSUME NEW h, Good(h), NEW mode
  PROVE  Good(erase_line(h, mode))
<1>0. Shape(h) /\ Clean(h)
  BY DEF Good
<1>1. Good(erase_right(h))
  BY <1>0, EraseRightOK DEF Good
<1>2. Good(erase_left(h))
  BY EraseLeftOK
<1>3. Good(mark_range(SetCursorCells(h, blank_row_bce(h)), h.row, 0, h.cols))
  BY <1>0, BceRowOK, RowEditOK
<1>4. Good(mark_range(erase_right(h), h.row, h.col, h.cols))
  BY <1>1, MarkRangeOK
<1>5. Good(mark_range(erase_left(h), h.row, 0, h.col + 1))
  BY <1>2, MarkRangeOK
<1> QED
  BY <1>3, <1>4, <1>5 DEF erase_line

(* ED.  A full erase may follow a save that took the flag down; it leaves    *)
(* the primary screen blank, which is what the flag then says.               *)
LEMMA EraseDisplayOK ==
  ASSUME NEW h, Good(h), NEW mode
  PROVE  Good(erase_display(h, mode))
<1>0. Shape(h) /\ Clean(h)
  BY DEF Good
<1> DEFINE below(k) == blank_rows(erase_right(k), h.row+1..h.rows-1)
<1>1. Good(below(h))
  <2>1. Shape(erase_right(h)) /\ Clean(erase_right(h))
    BY <1>0, EraseRightOK
  <2> QED
    BY <2>1, BlankLinesOK DEF Good
<1>2. PICK kept : kept = preserve_visible_rows(h)
  OBVIOUS
<1>3. /\ Shape(kept) /\ Same(h, kept, {"mutated", "scrollback", "last_preserved_block"})
      /\ h.alt => Clean(kept)
  BY <1>2, PreserveOK
<1>4. kept.alt = h.alt /\ kept.rows = h.rows /\ kept.row = h.row /\ kept.col = h.col
  <2>1. {"alt", "rows", "row", "col"} \cap {"mutated", "scrollback", "last_preserved_block"} = {}
    OBVIOUS
  <2> QED
    BY <1>3, <2>1, SameReads
<1>5. ASSUME h.row = 0, h.col = 0 PROVE Good(below(kept))
  <2>1. PICK e : e = erase_right(kept)
    OBVIOUS
  <2>2. /\ Shape(e) /\ Same(kept, e, {"primary", "alternate"}) /\ (Clean(kept) => Clean(e))
        /\ BlankRow(CursorCells(e))
    BY <1>3, <1>4, <1>5, <2>1, EraseRightOK
  <2>3. e.alt = h.alt /\ e.rows = h.rows /\ e.row = 0
    <3>1. {"alt", "rows", "row"} \cap {"primary", "alternate"} = {}
      OBVIOUS
    <3> QED
      BY <1>4, <1>5, <2>2, <3>1, SameReads
  <2>4. PICK rest : rest = h.row+1..h.rows-1
    OBVIOUS
  <2>5. \A r \in 0..e.rows-1 : r \in rest \/ BlankRow(active_grid(e).cells[r])
    <3>1. h.rows \in Nat
      BY GoodReads
    <3>2. \A r \in 0..h.rows-1 : r \in rest \/ r = 0
      BY <1>5, <2>4, <3>1
    <3> QED
      BY <2>2, <2>3, <3>2 DEF CursorCells
  <2>6. Shape(blank_rows(e, rest)) /\ Clean(blank_rows(e, rest))
    <3>1. CASE h.alt
      BY <1>3, <2>2, <3>1, BlankLinesOK
    <3>2. CASE ~h.alt
      BY <2>2, <2>3, <2>5, <3>2, BlankLinesOK
    <3> QED
      BY <3>1, <3>2
  <2> QED
    BY <2>1, <2>4, <2>6 DEF Good
<1>6. Good(erase_left(blank_rows(h, 0..h.row-1)))
  <2>1. Good(blank_rows(h, 0..h.row-1))
    BY <1>0, BlankLinesOK DEF Good
  <2> QED
    BY <2>1, EraseLeftOK
<1>7. Good(blank_rows(kept, 0..h.rows-1))
  <2>1. CASE h.alt
    BY <1>3, <2>1, BlankLinesOK DEF Good
  <2>2. CASE ~h.alt
    BY <1>3, <1>4, <2>2, BlankLinesOK DEF Good
  <2> QED
    BY <2>1, <2>2
<1>8. Good(emit(blank_rows(clear_scrollback(h), 0..h.rows-1), <<"ScrollbackClear">>))
  <2>1. Good(clear_scrollback(h))
    BY ViewOK
  <2>2. Good(blank_rows(clear_scrollback(h), 0..h.rows-1))
    BY <2>1, BlankLinesOK DEF Good
  <2> QED
    BY <2>2, RecordsOK
<1> DEFINE erased ==
       IF mode = 0 THEN below(IF h.row = 0 /\ h.col = 0 THEN kept ELSE h)
       ELSE IF mode = 1 THEN erase_left(blank_rows(h, 0..h.row-1))
       ELSE IF mode = 2 THEN blank_rows(kept, 0..h.rows-1)
       ELSE IF mode = 3 THEN emit(blank_rows(clear_scrollback(h), 0..h.rows-1), <<"ScrollbackClear">>)
       ELSE h
<1> HIDE DEF below
<1>9. Good(erased)
  BY <1>1, <1>5, <1>6, <1>7, <1>8
<1>10. erase_display(h, mode) = mark_all(erased)
  BY <1>2 DEF erase_display, below
<1> HIDE DEF erased
<1> QED
  BY <1>9, <1>10, RecordsOK

(* ICH, DCH and ECH.                                                         *)
LEMMA EditOK ==
  ASSUME NEW h, Good(h), NEW p0 \in Nat
  PROVE  Good(ich(h, p0)) /\ Good(dch(h, p0)) /\ Good(ech(h, p0))
<1>0. Shape(h)
  BY DEF Good
<1>1. PICK cells, cols, col, n : cells = CursorCells(h) /\ cols = h.cols /\ col = h.col /\ n = Count(p0)
  OBVIOUS
<1>2. RowOK(cells, cols) /\ cols \in Nat \ {0} /\ col \in 0..cols
  BY <1>0, <1>1, ShapeReads
<1>3. n \in Nat \ {0}
  BY <1>1 DEF Count, Greater
<1>4. Good(ich(h, p0))
  <2>1. PICK row : row = insert_chars(cells, col, n, cols)
    OBVIOUS
  <2>2. RowOK(row, cols) /\ (BlankRow(cells) => BlankRow(row))
    BY <1>2, <1>3, <2>1, InsertOK
  <2>3. Good(mark_range(SetCursorCells(h, row), h.row, h.col, h.cols))
    BY <1>1, <2>2, RowEditOK
  <2> QED
    BY <1>1, <2>1, <2>3 DEF ich
<1>5. Good(dch(h, p0))
  <2>1. PICK row : row = delete_chars(cells, col, n, cols)
    OBVIOUS
  <2>2. RowOK(row, cols) /\ (BlankRow(cells) => BlankRow(row))
    BY <1>2, <1>3, <2>1, DeleteOK
  <2>3. Good(mark_range(SetCursorCells(h, row), h.row, h.col, h.cols))
    BY <1>1, <2>2, RowEditOK
  <2> QED
    BY <1>1, <2>1, <2>3 DEF dch
<1>6. Good(ech(h, p0))
  <2>1. PICK end : end = Lesser(col + n, cols)
    OBVIOUS
  <2>2. PICK range : range = <<Lesser(col, end), end>>
    OBVIOUS
  <2>3. end \in 0..cols /\ Lesser(col, end) \in 0..cols /\ (Lesser(col, end) < end \/ Lesser(col, end) = cols)
    BY <1>2, <1>3, <2>1 DEF Lesser
  <2>4. range \in (0..h.cols) \X (0..h.cols) /\ (range[1] < range[2] \/ range[1] = h.cols)
        /\ range[1] = Lesser(col, end) /\ range[2] = end
    BY <1>1, <2>2, <2>3
  <2>5. PICK row : row = erase_cells_bce(CursorCells(h), range[1], range[2], blank_cell(h))
    OBVIOUS
  <2>6. RowOK(row, h.cols) /\ (BlankRow(CursorCells(h)) => BlankRow(row))
    BY <1>0, <2>4, <2>5, EraseRangeOK
  <2>7. Good(mark_range(SetCursorCells(h, row), h.row, h.col, end))
    BY <2>6, RowEditOK
  <2> QED
    BY <1>1, <2>1, <2>4, <2>5, <2>7 DEF ech
<1> QED
  BY <1>4, <1>5, <1>6
-----------------------------------------------------------------------------
(* Cursor sequences, margins and controls.                                   *)

(* CUU to CUP.                                                               *)
LEMMA CursorMoveOK ==
  ASSUME NEW h, Good(h), NEW action, NEW p0 \in Nat, NEW p1 \in Nat
  PROVE  Good(cursor_move(h, action, p0, p1))
<1>1. PICK k : k = clear_pending_wrap(h)
  OBVIOUS
<1>2. Good(k) /\ ~k.pending_wrap
  BY <1>1, ClearWrapOK
<1>3. \A r \in Nat, c \in Nat : Good(move_to(k, r, c))
  BY <1>2, MoveOK
<1>4. PICK row, col, n : row = k.row /\ col = k.col /\ n = Count(p0)
  OBVIOUS
<1>5. row \in Nat /\ col \in Nat
  BY <1>2, <1>4, GoodReads
<1>6. n \in Nat
  BY <1>4 DEF Count, Greater
<1>7. /\ Greater(row - n, 0) \in Nat /\ row + n \in Nat /\ col + n \in Nat
      /\ Greater(col - n, 0) \in Nat /\ Greater(p0 - 1, 0) \in Nat /\ Greater(p1 - 1, 0) \in Nat
  BY <1>5, <1>6 DEF Greater
<1>8. /\ Good(move_to(k, Greater(row - n, 0), col)) /\ Good(move_to(k, row + n, col))
      /\ Good(move_to(k, row, col + n)) /\ Good(move_to(k, row, Greater(col - n, 0)))
      /\ Good(move_to(k, row + n, 0)) /\ Good(move_to(k, Greater(row - n, 0), 0))
      /\ Good(move_to(k, row, Greater(p0 - 1, 0))) /\ Good(move_to(k, Greater(p0 - 1, 0), col))
      /\ Good(move_to(k, Greater(p0 - 1, 0), Greater(p1 - 1, 0)))
  BY <1>3, <1>5, <1>7
<1> QED
  BY <1>1, <1>4, <1>8 DEF cursor_move

(* New margins, and a cursor that moves with them.                           *)
LEMMA MarginFrameOK ==
  ASSUME NEW h, Good(h), NEW k, NEW X, Same(h, k, X),
         X \cap (Structure \ (CursorFields \cup {"scroll_top", "scroll_bottom"})) = {},
         CursorOK(k), MarginsOK(k)
  PROVE  Good(k)
<1>1. /\ k.rows = h.rows /\ k.cols = h.cols /\ k.primary = h.primary /\ k.alternate = h.alternate
      /\ k.mutated = h.mutated
      /\ k.scrollback = h.scrollback /\ k.scrollback_limit = h.scrollback_limit
      /\ k.scrollback_offset = h.scrollback_offset
  <2>1. {"rows", "cols", "primary", "alternate", "mutated",
         "scrollback", "scrollback_limit", "scrollback_offset"} \cap X = {}
    BY DEF Structure, CursorFields
  <2> QED
    BY <2>1, SameReads
<1> QED
  BY <1>1 DEF Good, Shape, Clean, SizeOf, ScreensOK, HistoryOK, Same

(* DECSTBM.                                                                  *)
LEMMA DecstbmOK ==
  ASSUME NEW h, Good(h), NEW p0 \in Nat, NEW p1 \in Nat
  PROVE  Good(decstbm(h, p0, p1))
<1>1. PICK k : k = clear_pending_wrap(h)
  OBVIOUS
<1>2. Good(k) /\ k.pending_wrap = FALSE
  BY <1>1, ClearWrapOK
<1>3. PICK top, bottom :
        /\ top = Greater(p0 - 1, 0)
        /\ bottom = IF p1 = 0 THEN k.rows - 1 ELSE Lesser(p1 - 1, k.rows - 1)
  OBVIOUS
<1>4. k.rows \in Nat \ {0} /\ k.cols \in Nat \ {0} /\ k.saved_row \in Nat /\ k.saved_col \in Nat
      /\ DOMAIN k = Fields
  BY <1>2, GoodReads
<1>5. top \in Nat /\ bottom \in 0..k.rows-1
  BY <1>3, <1>4 DEF Greater, Lesser
<1>6. PICK top1, bottom1 : /\ top1 = IF top < bottom THEN top ELSE 0
                           /\ bottom1 = IF top < bottom THEN bottom ELSE k.rows - 1
  OBVIOUS
<1>7. top1 \in Nat /\ bottom1 \in 0..k.rows-1 /\ top1 <= bottom1
  BY <1>4, <1>5, <1>6
<1>8. PICK m : m = [k EXCEPT !.scroll_top = top1, !.scroll_bottom = bottom1, !.row = 0, !.col = 0]
  OBVIOUS
<1> DEFINE X == {"scroll_top", "scroll_bottom", "row", "col"}
<1>9. Same(k, m, X) /\ m.scroll_top = top1 /\ m.scroll_bottom = bottom1 /\ m.row = 0 /\ m.col = 0
  BY <1>4, <1>8 DEF Same, Fields
<1>10. m.rows = k.rows /\ m.cols = k.cols /\ m.saved_row = k.saved_row /\ m.saved_col = k.saved_col
       /\ m.pending_wrap = k.pending_wrap
  <2>1. {"rows", "cols", "saved_row", "saved_col", "pending_wrap"} \cap X = {}
    OBVIOUS
  <2> QED
    BY <1>9, <2>1, SameReads
<1>11. CursorOK(m)
  <2>1. m.row \in 0..m.rows-1 /\ m.col \in 0..m.cols /\ m.col # m.cols
    BY <1>4, <1>9, <1>10
  <2>2. m.pending_wrap = FALSE
    BY <1>2, <1>10
  <2> QED
    BY <1>4, <1>10, <2>1, <2>2 DEF CursorOK
<1>12. MarginsOK(m)
  BY <1>7, <1>9, <1>10 DEF MarginsOK
<1>13. X \cap (Structure \ (CursorFields \cup {"scroll_top", "scroll_bottom"})) = {}
  BY DEF CursorFields
<1>14. Good(m)
  BY <1>2, <1>9, <1>11, <1>12, <1>13, MarginFrameOK
<1>15. m = decstbm(h, p0, p1)
  BY <1>1, <1>3, <1>6, <1>8 DEF decstbm
<1> QED
  BY <1>14, <1>15

(* The C0 controls.                                                          *)
LEMMA ExecuteOK ==
  ASSUME NEW h, Good(h), NEW byte
  PROVE  Good(execute(h, byte))
<1>1. PICK free : free = clear_pending_wrap(h)
  OBVIOUS
<1>2. Good(free) /\ ~free.pending_wrap /\ Same(h, free, {"col", "pending_wrap", "last_print"})
  BY <1>1, ClearWrapOK
<1>3. free.row \in Nat /\ free.cols \in Nat \ {0} /\ free.col \in Nat
  BY <1>2, GoodReads
<1>4. free.cols = h.cols
  <2>1. "cols" \notin {"col", "pending_wrap", "last_print"}
    OBVIOUS
  <2> QED
    BY <1>2, <2>1, SameReads
<1>5. Good(newline_action(free, Hard))
  BY <1>2, NewlineOK
<1>6. Good([free EXCEPT !.col = 0])
  <2>1. PICK zero \in Nat : zero = 0
    OBVIOUS
  <2>2. zero < free.cols
    BY <1>3, <2>1
  <2>3. Good([free EXCEPT !.col = zero])
    BY <1>2, <1>3, <2>2, MoveOK
  <2> QED
    BY <2>1, <2>3
<1>7. Good(backspace(h))
  <2>1. CASE h.pending_wrap
    BY <1>1, <1>2, <2>1 DEF backspace
  <2>2. CASE ~h.pending_wrap
    <3>1. PICK c : c = Greater(h.col - 1, 0)
      OBVIOUS
    <3>2. c \in Nat /\ c < h.cols /\ h.row \in Nat
      BY <2>2, <3>1, GoodReads DEF Greater
    <3>3. Good([h EXCEPT !.col = c])
      BY <2>2, <3>2, MoveOK
    <3> QED
      BY <2>2, <3>1, <3>3 DEF backspace
  <2> QED
    BY <2>1, <2>2
<1>8. Good([free EXCEPT !.col = Lesser((@ \div TabStop + 1) * TabStop, h.cols - 1)])
  <2>1. PICK t : t = free.col \div TabStop
    OBVIOUS
  <2>2. t \in Nat
    BY <1>3, <2>1 DEF TabStop
  <2>3. PICK c : c = Lesser((t + 1) * TabStop, h.cols - 1)
    OBVIOUS
  <2>4. (t + 1) * 8 \in Nat
    BY <2>2
  <2>5. c \in Nat /\ c < free.cols
    BY <1>3, <1>4, <2>3, <2>4 DEF Lesser, TabStop
  <2>6. Good([free EXCEPT !.col = c])
    BY <1>2, <1>3, <2>5, MoveOK
  <2> QED
    BY <2>1, <2>3, <2>6
<1>9. Good(emit(h, <<"Bell">>))
  BY RecordsOK
<1> QED
  BY <1>1, <1>5, <1>6, <1>7, <1>8, <1>9 DEF execute
-----------------------------------------------------------------------------
(* Modes and resets.                                                         *)

(* Several fields that Good is not about.                                    *)
LEMMA OthersOK ==
  ASSUME NEW h, Good(h), NEW k, NEW X, Same(h, k, X), X \cap Structure = {}
  PROVE  Good(k)
<1>1. Structure \subseteq Fields
  BY DEF Structure, CursorFields, Fields
<1>2. DOMAIN k = Fields /\ \A x \in Structure : k[x] = h[x]
  BY <1>1 DEF Same
<1> QED
  BY <1>2, FrameOK

(* Fields the sequences set one at a time.                                   *)
LEMMA SettingsOK ==
  ASSUME NEW h, Good(h), NEW v
  PROVE  /\ Good([h EXCEPT !.kitty = v]) /\ Good([h EXCEPT !.modes = v]) /\ Good([h EXCEPT !.pen = v])
         /\ Good([h EXCEPT !.cursor_style = v]) /\ Good([h EXCEPT !.hyperlink = v])
         /\ Good([h EXCEPT !.no_autowrap = v]) /\ Good([h EXCEPT !.erase_policy = v])
         /\ Good([h EXCEPT !.last_print = v])
<1>1. {"kitty", "modes", "pen", "cursor_style", "hyperlink", "no_autowrap", "erase_policy",
       "last_print"} \subseteq Fields \ Structure
  BY DEF Fields, Structure, CursorFields
<1> QED
  BY <1>1, OtherOK

(* Drained buffers.                                                          *)
LEMMA DrainedOK ==
  ASSUME NEW h, Good(h)
  PROVE  Good(Drained(h)) /\ Same(h, Drained(h), {"dirty", "scroll_ops", "events"})
<1>1. Same(h, Drained(h), {"dirty", "scroll_ops", "events"})
  BY GoodReads DEF Same, Fields, Drained
<1>2. {"dirty", "scroll_ops", "events"} \cap Structure = {}
  BY DEF Structure, CursorFields
<1> QED
  BY <1>1, <1>2, OthersOK

(* The kitty stack and DSR.                                                  *)
LEMMA KittyOK ==
  ASSUME NEW h, Good(h), NEW p0
  PROVE  /\ Good(kitty_push(h, p0)) /\ Good(kitty_pop(h, p0)) /\ Good(clear_kitty_kb_stack(h))
         /\ Good(device_status(h, p0))
<1>1. \A v : Good([h EXCEPT !.kitty = v])
  BY SettingsOK
<1>2. \A v, e : Good(emit([h EXCEPT !.kitty = v], e))
  BY <1>1, RecordsOK
<1>3. \A e : Good(emit(h, e))
  BY RecordsOK
<1>4. Good(kitty_push(h, p0))
  <2>1. PICK v : v = IF Len(h.kitty) < KittyCap THEN Append(h.kitty, Count(p0)) ELSE h.kitty
    OBVIOUS
  <2>2. kitty_push(h, p0) = emit([h EXCEPT !.kitty = v], <<"KittyPush">>)
    BY <2>1 DEF kitty_push
  <2> QED
    BY <1>2, <2>2
<1>5. Good(kitty_pop(h, p0))
  <2>1. PICK v : v = SubSeq(h.kitty, 1, Len(h.kitty) - Lesser(Count(p0), Len(h.kitty)))
    OBVIOUS
  <2>2. kitty_pop(h, p0) = emit([h EXCEPT !.kitty = v], <<"KittyPop">>)
    BY <2>1 DEF kitty_pop
  <2> QED
    BY <1>2, <2>2
<1>6. Good(clear_kitty_kb_stack(h))
  BY <1>1 DEF clear_kitty_kb_stack
<1>7. Good(device_status(h, p0))
  BY <1>3 DEF device_status
<1> QED
  BY <1>4, <1>5, <1>6, <1>7

(* DECSTR.                                                                   *)
LEMMA DecstrOK ==
  ASSUME NEW h, Good(h)
  PROVE  Good(decstr(h))
<1>1. PICK bottom : bottom = h.rows - 1
  OBVIOUS
<1>2. bottom \in 0..h.rows-1 /\ bottom \in Nat
  BY <1>1, GoodReads
<1>3. PICK reset : reset = [h EXCEPT !.pen = {}, !.scroll_top = 0, !.scroll_bottom = bottom]
  OBVIOUS
<1> DEFINE X == {"pen", "scroll_top", "scroll_bottom"}
<1>4. Same(h, reset, X) /\ reset.scroll_top = 0 /\ reset.scroll_bottom = bottom
  BY <1>3, GoodReads DEF Same, Fields
<1>5. reset.rows = h.rows /\ reset.cols = h.cols /\ reset.row = h.row /\ reset.col = h.col
      /\ reset.saved_row = h.saved_row /\ reset.saved_col = h.saved_col
      /\ reset.pending_wrap = h.pending_wrap
  <2>1. {"rows", "cols", "row", "col", "saved_row", "saved_col", "pending_wrap"} \cap X = {}
    OBVIOUS
  <2> QED
    BY <1>4, <2>1, SameReads
<1>6. Good(reset)
  <2>1. CursorOK(reset)
    BY <1>5, GoodReads DEF CursorOK
  <2>2. MarginsOK(reset)
    BY <1>2, <1>4, <1>5 DEF MarginsOK
  <2>3. X \cap (Structure \ (CursorFields \cup {"scroll_top", "scroll_bottom"})) = {}
    BY DEF Structure, CursorFields
  <2> QED
    BY <1>4, <2>1, <2>2, <2>3, MarginFrameOK
<1>7. PICK k : k = restore_autowrap(reset)
  OBVIOUS
<1>8. Good(k)
  <2>1. PICK c : c = clear_pending_wrap(reset)
    OBVIOUS
  <2>2. Good(c)
    BY <1>6, <2>1, ClearWrapOK
  <2>3. Good([c EXCEPT !.no_autowrap = FALSE])
    BY <2>2, SettingsOK
  <2> QED
    BY <1>6, <1>7, <2>1, <2>3 DEF restore_autowrap
<1>9. PICK modes : modes = [k.modes EXCEPT !.hide_cursor = FALSE, !.application_cursor = FALSE,
                                           !.application_keypad = FALSE]
  OBVIOUS
<1>10. PICK a : a = [k EXCEPT !.last_print = <<>>]
  OBVIOUS
<1>11. Good(a)
  BY <1>8, <1>10, SettingsOK
<1>12. PICK b : b = [a EXCEPT !.saved_row = 0, !.saved_col = 0]
  OBVIOUS
<1>13. Good(b)
  BY <1>11, <1>12, SaveRestoreOK
<1>14. PICK m : m = [b EXCEPT !.modes = modes]
  OBVIOUS
<1>15. Good(m)
  BY <1>13, <1>14, SettingsOK
<1>16. m = decstr(h)
  <2>1. decstr(h) = [k EXCEPT !.last_print = <<>>, !.saved_row = 0, !.saved_col = 0,
            !.modes = [@ EXCEPT !.hide_cursor = FALSE, !.application_cursor = FALSE,
                                !.application_keypad = FALSE]]
    BY <1>1, <1>3, <1>7 DEF decstr
  <2>2. DOMAIN k = Fields
    BY <1>8, GoodReads
  <2>3. b.modes = k.modes
    BY <1>10, <1>12, <2>2 DEF Fields
  <2> QED
    BY <1>9, <1>10, <1>12, <1>14, <2>1, <2>3
<1> QED
  BY <1>15, <1>16

(* The two screens and the DEC private modes.                                *)
LEMMA AltScreenOK ==
  ASSUME NEW h, Good(h), NEW on
  PROVE  Good(set_alt_screen(h, on)) /\ Good(alt_1049(h, on))
<1>1. ASSUME NEW k, Good(k), NEW b PROVE Good(set_alt_screen(k, b))
  <2>1. PICK m : m = [k EXCEPT !.alt = b, !.hyperlink = 0]
    OBVIOUS
  <2>2. Same(k, m, {"alt", "hyperlink"})
    BY <1>1, <2>1, GoodReads DEF Same, Fields
  <2>3. {"alt", "hyperlink"} \cap Structure = {}
    BY DEF Structure, CursorFields
  <2>4. Good(m)
    BY <1>1, <2>2, <2>3, OthersOK
  <2> QED
    BY <2>1, <2>4, RecordsOK DEF set_alt_screen
<1>2. Good(clear_pending_wrap(set_alt_screen(save_cursor(h), TRUE)))
  <2>1. Good(save_cursor(h))
    BY SaveRestoreOK
  <2>2. Good(set_alt_screen(save_cursor(h), TRUE))
    BY <1>1, <2>1
  <2> QED
    BY <2>2, ClearWrapOK
<1>3. PICK left : left = restore_saved_cursor(set_alt_screen(h, FALSE))
  OBVIOUS
<1>4. Good(left)
  BY <1>1, <1>3, SaveRestoreOK
<1>5. PICK events : events = left.events \o [i \in 1..Len(h.kitty) |-> <<"KittyPop">>]
  OBVIOUS
<1>6. PICK m : m = [left EXCEPT !.kitty = <<>>, !.events = events]
  OBVIOUS
<1>7. Good(m)
  <2>1. Same(left, m, {"kitty", "events"})
    BY <1>4, <1>6, GoodReads DEF Same, Fields
  <2>2. {"kitty", "events"} \cap Structure = {}
    BY DEF Structure, CursorFields
  <2> QED
    BY <1>4, <2>1, <2>2, OthersOK
<1>8. alt_1049(h, on) = IF on THEN clear_pending_wrap(set_alt_screen(save_cursor(h), TRUE)) ELSE m
  BY <1>3, <1>5, <1>6 DEF alt_1049
<1> QED
  BY <1>1, <1>2, <1>7, <1>8

(* set_dec_mode.                                                             *)
LEMMA ModeOK ==
  ASSUME NEW h, Good(h), NEW mode, NEW on
  PROVE  Good(set_dec_mode(h, mode, on))
<1>1. \A v : Good([h EXCEPT !.modes = v]) /\ Good([h EXCEPT !.no_autowrap = v])
  BY SettingsOK
<1>2. \A v, e : Good(emit([h EXCEPT !.modes = v], e))
  BY <1>1, RecordsOK
<1>3. Good(set_alt_screen(h, on)) /\ Good(alt_1049(h, on))
  BY AltScreenOK
<1>4. /\ Good(emit([h EXCEPT !.modes.application_cursor = on], <<"ApplicationCursorKeys">>))
      /\ Good(emit([h EXCEPT !.modes.focus_events = on], <<"FocusEvents">>))
      /\ Good(emit([h EXCEPT !.modes.bracketed_paste = on], <<"BracketedPaste">>))
  BY <1>2
<1>5. /\ Good([h EXCEPT !.modes.text_cursor_enable = IF on THEN "on" ELSE "off"])
      /\ Good([h EXCEPT !.modes.hide_cursor = ~on])
      /\ Good([h EXCEPT !.modes.mouse_mode = IF on THEN mode ELSE 0])
      /\ Good([h EXCEPT !.modes.mouse_encoding = IF on THEN mode ELSE 0])
      /\ Good([h EXCEPT !.modes.synchronized_update = on])
      /\ Good([h EXCEPT !.no_autowrap = ~on])
  BY <1>1
<1> QED
  BY <1>3, <1>4, <1>5 DEF set_dec_mode
(* RIS: both screens blank, the history as it was.                           *)
LEMMA RisOK ==
  ASSUME NEW h, Good(h)
  PROVE  Good(ris(h))
<1>0. Shape(h) /\ DOMAIN h = Fields /\ HistoryOK(h)
  BY DEF Good, Shape
<1>1. PICK size, screen : size = SizeOf(h) /\ screen = blank_screen(h.rows, h.cols)
  OBVIOUS
<1>2. size \in Sizes /\ size[1] = h.rows /\ size[2] = h.cols
  BY <1>0, <1>1, ShapeReads
<1>3. ScreenOK(screen, size) /\ BlankScreen(screen)
  BY <1>1, <1>2, BlankScreenOK
<1>4. PICK bottom : bottom = h.rows - 1
  OBVIOUS
<1>5. h.rows \in Nat \ {0} /\ h.cols \in Nat \ {0} /\ bottom \in 0..h.rows-1
      /\ h.saved_row \in Nat /\ h.saved_col \in Nat
  BY <1>4, GoodReads
<1>6. PICK blank : blank = [h EXCEPT
        !.primary = screen, !.alternate = screen,
        !.alt = FALSE, !.pending_wrap = FALSE, !.row = 0, !.col = 0, !.pen = {},
        !.last_print = <<>>, !.scroll_top = 0, !.scroll_bottom = bottom]
  OBVIOUS
<1> DEFINE X == {"primary", "alternate", "alt", "pending_wrap", "row", "col", "pen",
                 "last_print", "scroll_top", "scroll_bottom"}
<1>7. Same(h, blank, X)
  BY <1>0, <1>6 DEF Same
<1>8. /\ blank.primary = screen /\ blank.alternate = screen /\ blank.pending_wrap = FALSE
      /\ blank.row = 0 /\ blank.col = 0 /\ blank.scroll_top = 0 /\ blank.scroll_bottom = bottom
  BY <1>0, <1>6 DEF Fields
<1>9. PICK k : k = reset_modes(blank)
  OBVIOUS
<1> DEFINE Y == {"modes", "no_autowrap", "scrollback_offset", "hyperlink"}
<1>10. Same(blank, k, Y) /\ k.scrollback_offset = 0
  BY <1>7, <1>9 DEF Same, Fields, reset_modes
<1>11. /\ k.primary = screen /\ k.alternate = screen /\ k.pending_wrap = FALSE
       /\ k.row = 0 /\ k.col = 0 /\ k.scroll_top = 0 /\ k.scroll_bottom = bottom
  <2>1. {"primary", "alternate", "pending_wrap", "row", "col", "scroll_top", "scroll_bottom"}
          \cap Y = {}
    OBVIOUS
  <2> QED
    BY <1>8, <1>10, <2>1, SameReads
<1>12. k.rows = h.rows /\ k.cols = h.cols /\ k.saved_row = h.saved_row /\ k.saved_col = h.saved_col
       /\ k.scrollback = h.scrollback /\ k.scrollback_limit = h.scrollback_limit
  <2>1. {"rows", "cols", "saved_row", "saved_col", "scrollback", "scrollback_limit"} \cap Y = {}
        /\ {"rows", "cols", "saved_row", "saved_col", "scrollback", "scrollback_limit"} \cap X = {}
    OBVIOUS
  <2>2. blank.rows = h.rows /\ blank.cols = h.cols /\ blank.saved_row = h.saved_row
        /\ blank.saved_col = h.saved_col /\ blank.scrollback = h.scrollback
        /\ blank.scrollback_limit = h.scrollback_limit
    BY <1>7, <2>1, SameReads
  <2> QED
    BY <1>10, <2>1, <2>2, SameReads
<1>13. SizeOf(k) = size /\ DOMAIN k = Fields
  BY <1>1, <1>10, <1>12 DEF SizeOf, Same
<1>14. CursorOK(k)
  <2>1. k.row \in 0..k.rows-1 /\ k.col \in 0..k.cols /\ k.col # k.cols
    BY <1>5, <1>11, <1>12
  <2> QED
    BY <1>5, <1>11, <1>12, <2>1 DEF CursorOK
<1>15. MarginsOK(k)
  BY <1>5, <1>11, <1>12 DEF MarginsOK
<1>16. ScreensOK(k) /\ Clean(k)
  BY <1>3, <1>11, <1>13 DEF ScreensOK, Clean
<1>17. HistoryOK(k)
  <2>1. Len(h.scrollback) \in Nat
    BY <1>0, LenProperties DEF HistoryOK, Lines
  <2> QED
    BY <1>0, <1>10, <1>12, <2>1 DEF HistoryOK
<1>18. Good(k)
  BY <1>2, <1>13, <1>14, <1>15, <1>16, <1>17 DEF Good, Shape
<1>19. ris(h) = mark_all(k)
  BY <1>1, <1>4, <1>6, <1>9 DEF ris
<1> QED
  BY <1>18, <1>19, RecordsOK

(* Escapes and OSC strings.                                                  *)
LEMMA EscOscOK ==
  ASSUME NEW h, Good(h)
  PROVE  /\ \A byte : Good(esc_dispatch(h, byte))
         /\ \A code, value : Good(osc_dispatch(h, code, value))
<1>1. \A v : Good([h EXCEPT !.modes = v]) /\ Good([h EXCEPT !.hyperlink = v])
  BY SettingsOK
<1>2. Good([h EXCEPT !.modes.application_keypad = TRUE])
      /\ Good([h EXCEPT !.modes.application_keypad = FALSE])
  BY <1>1
<1>3. Good(reverse_index(h)) /\ Good(save_cursor(h)) /\ Good(restore_saved_cursor(h)) /\ Good(ris(h))
  BY ReverseOK, SaveRestoreOK, RisOK
<1>4. \A e : Good(emit(h, e))
  BY RecordsOK
<1>5. \A byte : Good(esc_dispatch(h, byte))
  BY <1>2, <1>3 DEF esc_dispatch
<1>6. \A code, value : Good(osc_dispatch(h, code, value))
  BY <1>1, <1>4 DEF osc_dispatch
<1> QED
  BY <1>5, <1>6

(* The CSI sequences.                                                        *)
LEMMA CsiOK ==
  ASSUME NEW h, Good(h), NEW action, NEW p0 \in Nat, NEW p1 \in Nat
  PROVE  Good(csi_dispatch(h, action, p0, p1))
<1>1. Good(cursor_move(h, action, p0, p1)) /\ Good(decstbm(h, p0, p1))
  BY CursorMoveOK, DecstbmOK
<1>2. Good(ich(h, p0)) /\ Good(dch(h, p0)) /\ Good(ech(h, p0))
  BY EditOK
<1>3. Good(erase_display(h, p0)) /\ Good(erase_line(h, p0))
  BY EraseDisplayOK, EraseLineOK
<1>4. Good(il(h, p0)) /\ Good(dl(h, p0)) /\ Good(sd(h, p0))
  BY RegionOK
<1>5. Good(scroll_up(h, Count(p0), Hard))
  <2>1. Count(p0) \in Nat
    BY DEF Count, Greater
  <2> QED
    BY <2>1, ScrollUpOK
<1>6. Good(save_cursor(h)) /\ Good(restore_saved_cursor(h)) /\ Good(decstr(h))
  BY SaveRestoreOK, DecstrOK
<1>7. Good(kitty_push(h, p0)) /\ Good(kitty_pop(h, p0)) /\ Good(device_status(h, p0))
  BY KittyOK
<1>8. Good([h EXCEPT !.cursor_style = p0]) /\ \A e : Good(emit(h, e))
  BY SettingsOK, RecordsOK
<1> QED
  BY <1>1, <1>2, <1>3, <1>4, <1>5, <1>6, <1>7, <1>8 DEF csi_dispatch

(* A resize: both screens, the cursor and the margins at once.               *)
LEMMA SetSizeOK ==
  ASSUME NEW h, Good(h), NEW rows1 \in Nat, NEW cols1 \in Nat
  PROVE  Good(set_size(h, rows1, cols1))
<1>0. Shape(h) /\ Clean(h) /\ DOMAIN h = Fields /\ HistoryOK(h) /\ ScreensOK(h)
  BY DEF Good, Shape
<1>1. PICK rows, cols : rows = Greater(rows1, 1) /\ cols = Greater(cols1, 1)
  OBVIOUS
<1>2. rows \in Nat \ {0} /\ cols \in Nat \ {0}
  BY <1>1 DEF Greater
<1>3. PICK old, size : old = SizeOf(h) /\ size = <<rows, cols>>
  OBVIOUS
<1>4. old \in Sizes /\ old[1] = h.rows /\ old[2] = h.cols
      /\ size \in Sizes /\ size[1] = rows /\ size[2] = cols
  BY <1>0, <1>2, <1>3, ShapeReads DEF Sizes
<1>5. PICK primary, alternate :
        /\ primary = resize_screen(h.primary, old[1], old[2], size[1], size[2])
        /\ alternate = resize_screen(h.alternate, old[1], old[2], size[1], size[2])
  OBVIOUS
<1>6. /\ ScreenOK(primary, size) /\ ScreenOK(alternate, size)
      /\ BlankScreen(h.primary) => BlankScreen(primary)
  <2>1. ScreenOK(h.primary, old) /\ ScreenOK(h.alternate, old)
    BY <1>0, <1>3 DEF ScreensOK
  <2> QED
    BY <1>4, <1>5, <2>1, ResizeScreenOK
<1>7. PICK row, col, bottom : row = Lesser(h.row, rows - 1) /\ col = Lesser(h.col, cols - 1)
                              /\ bottom = rows - 1
  OBVIOUS
<1>8. row \in 0..rows-1 /\ col \in 0..cols-1 /\ bottom \in 0..rows-1
  BY <1>2, <1>7, GoodReads DEF Lesser
<1>9. PICK m : m = [h EXCEPT !.rows = rows, !.cols = cols,
        !.primary = primary, !.alternate = alternate, !.row = row, !.col = col,
        !.scroll_top = 0, !.scroll_bottom = bottom]
  OBVIOUS
<1>10. PICK k : k = clear_pending_wrap(m)
  OBVIOUS
<1> DEFINE X == {"rows", "cols", "primary", "alternate", "row", "col", "scroll_top", "scroll_bottom"}
           Y == {"pending_wrap", "last_print", "col"}
<1>11. Same(h, m, X) /\ DOMAIN m = Fields
  BY <1>0, <1>9 DEF Same
<1>12. /\ m.rows = rows /\ m.cols = cols /\ m.primary = primary /\ m.alternate = alternate
       /\ m.row = row /\ m.col = col /\ m.scroll_top = 0 /\ m.scroll_bottom = bottom
  BY <1>0, <1>9 DEF Fields
<1>13. Same(m, k, Y) /\ k.col = Lesser(col, cols - 1) /\ k.pending_wrap = FALSE
  BY <1>10, <1>11, <1>12 DEF Same, Fields, clear_pending_wrap
<1>14. /\ k.rows = rows /\ k.cols = cols /\ k.primary = primary /\ k.alternate = alternate
       /\ k.row = row /\ k.scroll_top = 0 /\ k.scroll_bottom = bottom
  <2>1. {"rows", "cols", "primary", "alternate", "row", "scroll_top", "scroll_bottom"} \cap Y = {}
    OBVIOUS
  <2> QED
    BY <1>12, <1>13, <2>1, SameReads
<1>15. k.saved_row = h.saved_row /\ k.saved_col = h.saved_col /\ k.scrollback = h.scrollback
       /\ k.scrollback_limit = h.scrollback_limit /\ k.scrollback_offset = h.scrollback_offset
       /\ k.mutated = h.mutated
  <2> DEFINE Z == {"saved_row", "saved_col", "scrollback", "scrollback_limit", "scrollback_offset",
                   "mutated"}
  <2>1. Z \cap Y = {} /\ Z \cap X = {}
    OBVIOUS
  <2>2. m.saved_row = h.saved_row /\ m.saved_col = h.saved_col /\ m.scrollback = h.scrollback
        /\ m.scrollback_limit = h.scrollback_limit /\ m.scrollback_offset = h.scrollback_offset
        /\ m.mutated = h.mutated
    BY <1>11, <2>1, SameReads
  <2> QED
    BY <1>13, <2>1, <2>2, SameReads
<1>16. SizeOf(k) = size /\ DOMAIN k = Fields
  BY <1>3, <1>13, <1>14 DEF SizeOf, Same
<1>17. k.col \in 0..cols-1 /\ k.col \in 0..cols /\ k.col # cols
  BY <1>2, <1>8, <1>13 DEF Lesser
<1>18. CursorOK(k)
  BY <1>8, <1>13, <1>14, <1>15, <1>17, GoodReads DEF CursorOK
<1>19. MarginsOK(k)
  BY <1>8, <1>14 DEF MarginsOK
<1>20. ScreensOK(k) /\ HistoryOK(k) /\ Clean(k)
  BY <1>0, <1>6, <1>14, <1>15, <1>16 DEF ScreensOK, HistoryOK, Clean
<1>21. Good(k)
  BY <1>4, <1>16, <1>18, <1>19, <1>20 DEF Good, Shape
<1>22. set_size(h, rows1, cols1) = mark_all(k)
  BY <1>1, <1>4, <1>5, <1>7, <1>9, <1>10 DEF set_size
<1> QED
  BY <1>21, <1>22, RecordsOK
-----------------------------------------------------------------------------
(* Printing.                                                                 *)

(* The columns scalar i of a text adds, and one turn of the sum over the     *)
(* positions t, f standing for the turns after it.                           *)
WidthAt(s, i) ==
  IF i < Len(s) /\ s[i+1] = VS16 /\ CharWidth[s[i]] > 0 THEN 2
  ELSE IF i < Len(s) /\ s[i+1] = VS15 /\ CharWidth[s[i]] > 0 THEN 1
  ELSE CharWidth[s[i]]
Picked(t) == CHOOSE x \in t : TRUE
SumTurn(f, s, t) == IF t = {} THEN 0 ELSE WidthAt(s, Picked(t)) + f[t \ {Picked(t)}]
SumType(s) == [SUBSET (1..Len(s)) -> Nat]

(* A turn looks at a smaller set of positions.                               *)
LEMMA SumLooksDown ==
  ASSUME NEW s \in Seq(Glyph), NEW f \in SumType(s), NEW t \in SUBSET (1..Len(s))
  PROVE  /\ SumTurn(f, s, t) \in Nat
         /\ t # {} => /\ t \ {Picked(t)} \in SUBSET (1..Len(s))
                      /\ Cardinality(t) \in Nat
                      /\ Cardinality(t \ {Picked(t)}) = Cardinality(t) - 1
<1>0. Len(s) \in Nat /\ \A i \in 1..Len(s) : s[i] \in Glyph
  OBVIOUS
<1>1. \A i \in 1..Len(s) : WidthAt(s, i) \in Nat
  <2>1. \A ch \in Glyph : CharWidth[ch] \in Nat
    BY GlyphAssumption
  <2> QED
    BY <1>0, <2>1 DEF WidthAt
<1>2. CASE t = {}
  BY <1>2 DEF SumTurn
<1>3. CASE t # {}
  <2>1. Picked(t) \in t
    BY <1>3 DEF Picked
  <2>2. PICK x \in t : x = Picked(t)
    BY <2>1
  <2>3. IsFiniteSet(1..Len(s))
    BY <1>0, FS_Interval
  <2>4. IsFiniteSet(t)
    BY <2>3, FS_Subset
  <2>5. Cardinality(t \ {x}) = Cardinality(t) - 1
    BY <2>4, FS_RemoveElement
  <2>6. Cardinality(t) \in Nat
    BY <2>4, FS_CardinalityType
  <2>7. t \ {x} \in SUBSET (1..Len(s)) /\ x \in 1..Len(s)
    OBVIOUS
  <2>8. f[t \ {x}] \in Nat
    BY <2>7 DEF SumType
  <2>9. WidthAt(s, x) \in Nat
    BY <1>1, <2>7
  <2>10. WidthAt(s, x) + f[t \ {x}] \in Nat
    BY <2>8, <2>9
  <2>11. SumTurn(f, s, t) = WidthAt(s, x) + f[t \ {x}]
    BY <1>3, <2>2 DEF SumTurn
  <2> QED
    BY <2>2, <2>5, <2>6, <2>7, <2>10, <2>11
<1> QED
  BY <1>2, <1>3

(* So the recursion has a solution: else take the smallest sets that lack    *)
(* one, and define it for them from the sets below.                          *)
LEMMA SumExists ==
  ASSUME NEW s \in Seq(Glyph)
  PROVE  \E f \in SumType(s) : \A t \in SUBSET (1..Len(s)) : f[t] = SumTurn(f, s, t)
<1> DEFINE N == Len(s)
           P(k) == \E f \in SumType(s) : \A t \in SUBSET (1..N) :
                     Cardinality(t) <= k => f[t] = SumTurn(f, s, t)
           T == {k \in Nat : ~P(k)}
<1>0. N \in Nat /\ IsFiniteSet(1..N) /\ Cardinality(1..N) = N
  <2>1. N \in Nat
    OBVIOUS
  <2> QED
    BY <2>1, FS_Interval
<1>a. \A t \in SUBSET (1..N) : IsFiniteSet(t) /\ Cardinality(t) \in Nat /\ Cardinality(t) <= N
  BY <1>0, FS_Subset, FS_CardinalityType
<1>b. \A t \in SUBSET (1..N) : Cardinality(t) = 0 => t = {}
  BY <1>a, FS_EmptySet
<1>1. P(0)
  <2> DEFINE f == [t \in SUBSET (1..N) |-> 0]
  <2>1. f \in SumType(s)
    BY DEF SumType
  <2>2. ASSUME NEW t \in SUBSET (1..N), Cardinality(t) <= 0 PROVE f[t] = SumTurn(f, s, t)
    <3>1. t = {}
      BY <1>a, <1>b, <2>2
    <3> QED
      BY <3>1 DEF SumTurn
  <2> QED
    BY <2>1, <2>2
<1>2. ASSUME NEW k \in Nat, P(k) PROVE P(k + 1)
  <2>1. PICK f \in SumType(s) : \A t \in SUBSET (1..N) : Cardinality(t) <= k => f[t] = SumTurn(f, s, t)
    BY <1>2
  <2> DEFINE h == [t \in SUBSET (1..N) |-> IF Cardinality(t) <= k THEN f[t] ELSE SumTurn(f, s, t)]
  <2>2. h \in SumType(s)
    BY SumLooksDown DEF SumType
  <2>3. \A t \in SUBSET (1..N) : h[t] = SumTurn(f, s, t)
    BY <2>1
  <2>4. \A t \in SUBSET (1..N) : Cardinality(t) <= k => h[t] = f[t]
    OBVIOUS
  <2> HIDE DEF h
  <2>5. ASSUME NEW t \in SUBSET (1..N), Cardinality(t) <= k + 1 PROVE SumTurn(h, s, t) = SumTurn(f, s, t)
    <3>1. CASE t = {}
      BY <3>1 DEF SumTurn
    <3>2. CASE t # {}
      <4>1. PICK u : u = t \ {Picked(t)}
        OBVIOUS
      <4>2. u \in SUBSET (1..N) /\ Cardinality(u) = Cardinality(t) - 1 /\ Cardinality(t) \in Nat
        BY <3>2, <4>1, SumLooksDown
      <4>3. h[u] = f[u]
        BY <2>4, <2>5, <4>2
      <4> QED
        BY <3>2, <4>1, <4>3 DEF SumTurn
    <3> QED
      BY <3>1, <3>2
  <2> QED
    BY <2>2, <2>3, <2>5
<1>3. T = {}
  <2> SUFFICES ASSUME T # {} PROVE FALSE
    OBVIOUS
  <2>1. T \subseteq Nat
    OBVIOUS
  <2>2. PICK k \in T : \A m \in T : k <= m
    BY <2>1, LeastNatural
  <2> HIDE DEF P
  <2>3. k # 0 /\ k \in Nat
    BY <1>1, <2>2
  <2>4. k - 1 \in Nat /\ ~(k <= k - 1) /\ (k - 1) + 1 = k
    BY <2>3
  <2>5. P(k - 1)
    BY <2>2, <2>4
  <2>6. P((k - 1) + 1)
    BY <1>2, <2>4, <2>5
  <2> QED
    BY <2>2, <2>4, <2>6
<1>4. P(N)
  <2> HIDE DEF P
  <2> QED
    BY <1>0, <1>3
<1> QED
  BY <1>a, <1>4

(* A text has a width.                                                       *)
LEMMA WidthIsNatural ==
  ASSUME NEW s \in Seq(Glyph)
  PROVE  StrWidth(s) \in Nat /\ cluster_width(s) \in 0..2
<1> DEFINE Turns(f) == [t \in SUBSET (1..Len(s)) |-> SumTurn(f, s, t)]
           iter == CHOOSE f : f = Turns(f)
<1>1. StrWidth(s) = iter[1..Len(s)]
  BY DEF StrWidth, MapThenSumSet, MapThenFoldSet, SumTurn, Picked, WidthAt
<1>2. PICK f \in SumType(s) : \A t \in SUBSET (1..Len(s)) : f[t] = SumTurn(f, s, t)
  BY SumExists
<1> HIDE DEF SumTurn
<1>3. f = Turns(f)
  <2>1. f = [t \in SUBSET (1..Len(s)) |-> f[t]]
    BY DEF SumType
  <2> QED
    BY <1>2, <2>1
<1>4. iter = Turns(iter)
  BY <1>3
<1> HIDE DEF iter
<1>5. \A t \in SUBSET (1..Len(s)) : iter[t] = SumTurn(iter, s, t)
  BY <1>4
<1> DEFINE Bad(k) == \E t \in SUBSET (1..Len(s)) : Cardinality(t) = k /\ iter[t] \notin Nat
           T == {k \in Nat : Bad(k)}
<1>6. T = {}
  <2> SUFFICES ASSUME T # {} PROVE FALSE
    OBVIOUS
  <2>1. T \subseteq Nat
    OBVIOUS
  <2>2. PICK k \in T : \A m \in T : k <= m
    BY <2>1, LeastNatural
  <2>3. PICK t \in SUBSET (1..Len(s)) : Cardinality(t) = k /\ iter[t] \notin Nat
    OBVIOUS
  <2>4. t # {}
    <3>1. {} \in SUBSET (1..Len(s)) /\ SumTurn(iter, s, {}) = 0
      BY DEF SumTurn
    <3>2. iter[{}] = 0 /\ 0 \in Nat
      BY <1>5, <3>1
    <3>3. \A e : e = {} /\ iter[e] \notin Nat => FALSE
      BY <3>2, Zenon
    <3> QED
      BY <2>3, <3>3, Zenon
  <2>5. PICK x, u : x = Picked(t) /\ u = t \ {x}
    OBVIOUS
  <2>6. u \in SUBSET (1..Len(s)) /\ Cardinality(u) = k - 1 /\ k \in Nat
    BY <2>3, <2>4, <2>5, SumLooksDown, SumExists
  <2>7. x \in 1..Len(s)
    BY <2>4, <2>5 DEF Picked
  <2>8. iter[t] = WidthAt(s, x) + iter[u]
    BY <1>5, <2>4, <2>5 DEF SumTurn
  <2>9. WidthAt(s, x) \in Nat
    <3>1. \A ch \in Glyph : CharWidth[ch] \in Nat
      BY GlyphAssumption
    <3>2. s[x] \in Glyph
      BY <2>7
    <3> QED
      BY <3>1, <3>2 DEF WidthAt
  <2>10. k - 1 \in Nat /\ ~(k <= k - 1)
    <3>1. k # 0
      <4>1. IsFiniteSet(1..Len(s))
        BY FS_Interval
      <4>2. IsFiniteSet(t)
        BY <4>1, FS_Subset
      <4> QED
        BY <2>3, <2>4, <4>2, FS_EmptySet
    <3> QED
      BY <2>6, <3>1
  <2>11. iter[u] \in Nat
    BY <2>2, <2>6, <2>10
  <2> QED
    BY <2>3, <2>8, <2>9, <2>11
<1>7. IsFiniteSet(1..Len(s)) /\ Cardinality(1..Len(s)) \in Nat
  <2>1. IsFiniteSet(1..Len(s))
    BY FS_Interval
  <2> QED
    BY <2>1, FS_CardinalityType
<1>8. iter[1..Len(s)] \in Nat
  BY <1>6, <1>7
<1>9. StrWidth(s) \in Nat
  BY <1>1, <1>8
<1> QED
  BY <1>9 DEF cluster_width, Lesser
(* The cluster a joining scalar extends is never a continuation.             *)
LEMMA ClusterColOK ==
  ASSUME NEW h, Good(h), cluster_col(h) >= 0
  PROVE  cluster_col(h) \in 0..h.cols-1 /\ ~CursorCells(h)[cluster_col(h)].is_wide_continuation
<1>1. PICK cells, cols, col : cells = CursorCells(h) /\ cols = h.cols /\ col = h.col
  OBVIOUS
<1>2. cols \in Nat \ {0} /\ col \in 0..cols
  BY <1>1, GoodReads
<1>3. /\ \A c \in 0..cols-1 : cells[c].is_wide_continuation => c > 0 /\ cells[c-1].is_wide
      /\ \A c \in 0..cols-1 : cells[c].is_wide => ~cells[c].is_wide_continuation
  BY <1>1, ShapeReads DEF Good, RowOK, CellsOK, CellOK
<1>4. PICK left : left = IF h.pending_wrap \/ col >= cols THEN cols - 1 ELSE col - 1
  OBVIOUS
<1>5. left \in -1..cols-1
  BY <1>2, <1>4
<1>6. cluster_col(h) = IF left > 0 /\ cells[left].is_wide_continuation THEN left - 1 ELSE left
  BY <1>1, <1>4 DEF cluster_col
<1>7. CASE left > 0 /\ cells[left].is_wide_continuation
  <2>1. cluster_col(h) = left - 1 /\ left \in 0..cols-1 /\ left - 1 \in 0..cols-1
    BY <1>2, <1>5, <1>6, <1>7
  <2>2. cells[left-1].is_wide
    BY <1>3, <1>7, <2>1
  <2>3. ~cells[left-1].is_wide_continuation
    BY <1>3, <2>1, <2>2
  <2> QED
    BY <1>1, <2>1, <2>3
<1>8. CASE ~(left > 0 /\ cells[left].is_wide_continuation)
  <2>1. cluster_col(h) = left
    BY <1>6, <1>8
  <2>2. left \in 0..cols-1
    BY <1>2, <1>5, <2>1
  <2>3. ~cells[left].is_wide_continuation
    BY <1>3, <1>8, <2>2
  <2> QED
    BY <1>1, <2>1, <2>2, <2>3
<1> QED
  BY <1>7, <1>8

(* Where a join leaves the cursor: in the phantom column exactly when the    *)
(* wrap stays or becomes pending.                                            *)
LEMMA JoinEnd ==
  ASSUME NEW cols \in Nat \ {0}, NEW col \in 0..cols-1, NEW at \in 0..cols,
         NEW old \in 0..2, NEW width \in 0..2
  PROVE  LET at_end == at = col + old
             shrunk == at_end /\ at >= cols /\ width < old
             moved  == IF at_end /\ (at < cols \/ shrunk) THEN Lesser(col + width, cols) ELSE at
             parked == at = cols /\ ~shrunk
             grown  == (parked \/ moved >= cols) /\ col + width >= cols /\ width > old
             end    == IF grown THEN cols ELSE moved
         IN end \in 0..cols /\ (parked \/ grown <=> end = cols)
BY DEF Lesser
(* A joined scalar.                                                          *)
LEMMA JoinOK ==
  ASSUME NEW h, Good(h), h.mutated, NEW ch \in Glyph, cluster_col(h) >= 0,
         has_contents(CursorCells(h)[cluster_col(h)])
  PROVE  Good(join_cluster(h, ch))
<1>0. Shape(h)
  BY DEF Good
<1>1. PICK col, cells, cols : col = cluster_col(h) /\ cells = CursorCells(h) /\ cols = h.cols
  OBVIOUS
<1>2. col \in 0..cols-1 /\ ~cells[col].is_wide_continuation /\ has_contents(cells[col])
  BY <1>1, ClusterColOK
<1>3. RowOK(cells, cols) /\ cols \in Nat \ {0}
  BY <1>0, <1>1, ShapeReads
<1>4. PICK cell : cell = cells[col]
  OBVIOUS
<1>5. CellOK(cell) /\ ~cell.is_wide_continuation /\ has_contents(cell) /\ DOMAIN cells = 0..cols-1
  BY <1>2, <1>3, <1>4 DEF RowOK, CellsOK
<1>6. PICK joined : joined = Append(cell.contents, ch)
  OBVIOUS
<1>7. joined \in Seq(Glyph) /\ joined # <<>>
  BY <1>5, <1>6 DEF CellOK
<1>8. PICK old, width : old = cell_width(cell) /\ width = cluster_width(joined)
  OBVIOUS
<1>9. old \in 0..2 /\ width \in 0..2
  BY <1>7, <1>8, WidthIsNatural DEF cell_width
<1>10. PICK shown : shown = [cell EXCEPT !.contents = joined, !.hyperlink = h.hyperlink]
  OBVIOUS
<1>11. CellOK(shown) /\ has_contents(shown) /\ shown.is_wide = cell.is_wide /\ ~shown.is_wide_continuation
  <2>1. /\ DOMAIN shown = CellFields /\ shown.contents = joined /\ shown.is_wide = cell.is_wide
        /\ shown.is_wide_continuation = cell.is_wide_continuation
    BY <1>5, <1>10 DEF CellOK, CellFields
  <2> QED
    BY <1>5, <1>7, <2>1 DEF CellOK, has_contents
<1>12. PICK row : row = [cells EXCEPT ![col] = shown]
  OBVIOUS
<1>13. RowOK(row, cols) /\ row[col] = shown
  <2>1. shown.is_wide = cells[col].is_wide
    BY <1>4, <1>11
  <2>2. RowOK(row, cols)
    BY <1>2, <1>3, <1>11, <1>12, <2>1, ContentsOK
  <2> QED
    BY <1>2, <1>5, <1>12, <2>2
<1>14. row = [cells EXCEPT ![col].contents = joined, ![col].hyperlink = h.hyperlink]
  <2>1. [cells EXCEPT ![col].contents = joined, ![col].hyperlink = h.hyperlink]
          = [cells EXCEPT ![col] = [[cells[col] EXCEPT !.contents = joined] EXCEPT !.hyperlink = h.hyperlink]]
    BY <1>2, <1>5
  <2> QED
    BY <1>4, <1>10, <1>12, <2>1
<1>15. PICK fitted : fitted = set_cell_width(row, col, width, cell.attrs)
  OBVIOUS
<1>16. RowOK(fitted, cols)
  <2>1. width \in Int /\ ~row[col].is_wide_continuation /\ has_contents(row[col])
    BY <1>9, <1>11, <1>13
  <2> QED
    BY <1>2, <1>3, <1>13, <1>15, <2>1, WidthOK
<1>17. PICK k : k = SetCursorCells(h, fitted)
  OBVIOUS
<1>18. Good(k) /\ Same(h, k, {"primary", "alternate"})
  BY <1>0, <1>1, <1>16, <1>17, SetCursorCellsOK DEF Good
<1>19. k.cols = cols
  <2>1. "cols" \notin {"primary", "alternate"}
    OBVIOUS
  <2> QED
    BY <1>1, <1>18, <2>1, SameReads
<1>20. PICK at : at = h.col
  OBVIOUS
<1>21. at \in 0..cols /\ (h.pending_wrap <=> at = cols) /\ h.pending_wrap \in BOOLEAN
  BY <1>1, <1>20, GoodReads
<1> DEFINE at_end == at = col + old
           shrunk == at_end /\ at >= cols /\ width < old
           moved  == IF at_end /\ (at < cols \/ shrunk) THEN Lesser(col + width, cols) ELSE at
           parked == h.pending_wrap /\ ~shrunk
           grown  == (parked \/ moved >= cols) /\ col + width >= cols /\ width > old
           end    == IF grown THEN cols ELSE moved
<1>22. end \in 0..cols /\ (parked \/ grown <=> end = cols)
  BY <1>2, <1>3, <1>9, <1>21, JoinEnd
<1>23. PICK wrap, last : wrap = (parked \/ grown) /\ last = end
  OBVIOUS
<1>24. wrap \in BOOLEAN /\ last \in 0..cols /\ (wrap <=> last = cols)
  BY <1>22, <1>23
<1>25. PICK m : m = [k EXCEPT !.pending_wrap = wrap, !.col = last]
  OBVIOUS
<1>26. Good(m)
  BY <1>18, <1>19, <1>24, <1>25, PlaceOK
<1>27. PICK n : n = [m EXCEPT !.last_print = <<h.row, last>>]
  OBVIOUS
<1>28. Good(n)
  BY <1>26, <1>27, SettingsOK
<1>29. n = [k EXCEPT !.col = end, !.pending_wrap = parked \/ grown, !.last_print = <<h.row, end>>]
  <2>1. [k EXCEPT !.pending_wrap = wrap, !.col = last] = [k EXCEPT !.col = last, !.pending_wrap = wrap]
    BY <1>18, GoodReads DEF Fields
  <2> HIDE DEF end, parked, grown
  <2> QED
    BY <1>23, <1>25, <1>27, <2>1
<1>30. \E from, to : join_cluster(h, ch) = mark_range(n, h.row, from, to)
  <2> DEFINE j == [k EXCEPT !.col = end, !.pending_wrap = parked \/ grown, !.last_print = <<h.row, end>>]
  <2>1. join_cluster(h, ch) = mark_range(j, h.row, col, col + Greater(Greater(old, width), 1))
    BY <1>1, <1>4, <1>6, <1>8, <1>14, <1>15, <1>17, <1>20 DEF join_cluster
  <2> HIDE DEF j
  <2>2. n = j
    BY <1>29 DEF j
  <2> QED
    BY <2>1, <2>2
<1> QED
  BY <1>28, <1>30, MarkRangeOK

(* A glyph of its own at a cursor on the grid.                               *)
LEMMA GlyphOK ==
  ASSUME NEW h, Good(h), h.mutated, ~h.pending_wrap, NEW ch \in Glyph, NEW width \in 1..2
  PROVE  Good(place_glyph(h, ch, width))
<1>0. Shape(h)
  BY DEF Good
<1>1. PICK cells, cols, col : cells = CursorCells(h) /\ cols = h.cols /\ col = h.col
  OBVIOUS
<1>2. RowOK(cells, cols) /\ cols \in Nat \ {0} /\ col \in 0..cols-1
  BY <1>0, <1>1, ShapeReads, GoodReads
<1>3. PICK glyph : glyph = Cell(<<ch>>, width > 1, h.pen, h.hyperlink)
  OBVIOUS
<1>4. CellOK(glyph) /\ ~glyph.is_wide_continuation /\ (glyph.is_wide <=> width > 1)
  <2>1. /\ DOMAIN glyph = CellFields /\ glyph.contents = <<ch>>
        /\ glyph.is_wide = (width > 1) /\ glyph.is_wide_continuation = FALSE
    BY <1>3 DEF Cell, CellFields
  <2>2. <<ch>> \in Seq(Glyph) /\ <<ch>> # <<>>
    OBVIOUS
  <2>3. (width > 1) \in BOOLEAN
    OBVIOUS
  <2> QED
    BY <2>1, <2>2, <2>3 DEF CellOK, has_contents
<1>5. PICK row : row = write_cells(cells, col, width, glyph)
  OBVIOUS
<1>6. RowOK(row, cols)
  BY <1>2, <1>4, <1>5, WriteOK
<1>7. PICK written : written = SetCursorCells(h, row)
  OBVIOUS
<1>8. Good(written) /\ Same(h, written, {"primary", "alternate"})
  BY <1>0, <1>1, <1>6, <1>7, SetCursorCellsOK DEF Good
<1>9. PICK start, end :
        /\ start = IF cells[col].is_wide_continuation /\ col > 0 THEN col - 1 ELSE col
        /\ end = IF width > 1 /\ col + 2 < cols /\ cells[col+1].is_wide THEN col + 3
                 ELSE IF width < 2 /\ col + 1 < cols /\ cells[col].is_wide THEN col + 2
                 ELSE col + width
  OBVIOUS
<1>10. PICK k : k = mark_range(written, h.row, start, end)
  OBVIOUS
<1>11. Good(k) /\ Same(written, k, {"dirty"})
  BY <1>8, <1>10, MarkRangeOK
<1>12. k.cols = cols
  <2>1. "cols" \notin {"primary", "alternate"} /\ "cols" \notin {"dirty"}
    OBVIOUS
  <2> QED
    BY <1>1, <1>8, <1>11, <2>1, SameReads
<1>13. PICK after, wrap : after = Lesser(col + width, cols) /\ wrap = (after = cols)
  OBVIOUS
<1>14. after \in 0..cols /\ wrap \in BOOLEAN /\ (wrap <=> after = cols)
  <2>1. after \in 0..cols
    BY <1>2, <1>13 DEF Lesser
  <2>2. wrap \in BOOLEAN /\ (wrap <=> after = cols)
    BY <1>13
  <2> QED
    BY <2>1, <2>2
<1>15. PICK m : m = [k EXCEPT !.pending_wrap = wrap, !.col = after]
  OBVIOUS
<1>16. Good(m)
  BY <1>11, <1>12, <1>14, <1>15, PlaceOK
<1>17. PICK n : n = [m EXCEPT !.last_print = <<h.row, after>>]
  OBVIOUS
<1>18. Good(n)
  BY <1>16, <1>17, SettingsOK
<1>19. n = [k EXCEPT !.col = after, !.pending_wrap = wrap, !.last_print = <<h.row, after>>]
  <2>1. [k EXCEPT !.pending_wrap = wrap, !.col = after] = [k EXCEPT !.col = after, !.pending_wrap = wrap]
    BY <1>11, GoodReads DEF Fields
  <2> QED
    BY <1>15, <1>17, <2>1
<1>20. place_glyph(h, ch, width)
         = [k EXCEPT !.col = after, !.pending_wrap = (after = cols), !.last_print = <<h.row, after>>]
  BY <1>1, <1>3, <1>5, <1>7, <1>9, <1>10, <1>13 DEF place_glyph
<1> QED
  BY <1>13, <1>18, <1>19, <1>20

(* A glyph of its own, after the deferred wrap if there is one.              *)
LEMMA WriteApartOK ==
  ASSUME NEW h, Good(h), h.mutated, NEW ch \in Glyph, char_width(ch) # 0
  PROVE  Good(write_apart(h, ch))
<1>1. PICK width, cols : width = char_width(ch) /\ cols = h.cols
  OBVIOUS
<1>2. width \in 1..2 /\ cols \in Nat \ {0}
  BY <1>1, GlyphAssumption, GoodReads DEF char_width
<1>3. PICK home : home = [h EXCEPT !.pending_wrap = FALSE, !.col = 0]
  OBVIOUS
<1>4. Good(home) /\ Same(h, home, {"col", "pending_wrap"})
  <2>1. 0 \in 0..h.cols /\ FALSE \in BOOLEAN /\ (FALSE <=> 0 = h.cols)
    BY <1>1, <1>2
  <2> QED
    BY <1>3, <2>1, PlaceOK
<1>5. home.cols = cols /\ home.mutated = h.mutated
  <2>1. {"cols", "mutated"} \cap {"col", "pending_wrap"} = {}
    OBVIOUS
  <2> QED
    BY <1>1, <1>4, <2>1, SameReads
<1>6. PICK fresh : fresh = newline_action(home, Soft)
  OBVIOUS
<1>7. Good(fresh) /\ fresh.mutated /\ Same(home, fresh, ScrollFields \cup {"row"})
  BY <1>4, <1>5, <1>6, NewlineOK
<1>8. fresh.cols = cols
  <2>1. "cols" \notin ScrollFields \cup {"row"}
    BY DEF ScrollFields
  <2> QED
    BY <1>5, <1>7, <2>1, SameReads
<1>9. PICK wrapped : wrapped = IF h.pending_wrap /\ ~h.no_autowrap THEN fresh ELSE h
  OBVIOUS
<1>10. Good(wrapped) /\ wrapped.mutated /\ wrapped.cols = cols
  BY <1>1, <1>7, <1>8, <1>9
<1>11. wrapped.col \in 0..cols
  BY <1>10, GoodReads
<1>12. PICK col : col = Lesser(wrapped.col, cols - 1)
  OBVIOUS
<1>13. col \in 0..cols /\ col # cols
  BY <1>2, <1>11, <1>12 DEF Lesser
<1>14. PICK k : k = [wrapped EXCEPT !.pending_wrap = FALSE, !.col = col]
  OBVIOUS
<1>15. Good(k) /\ Same(wrapped, k, {"col", "pending_wrap"}) /\ ~k.pending_wrap
  <2>1. FALSE \in BOOLEAN /\ (FALSE <=> col = wrapped.cols) /\ col \in 0..wrapped.cols
    BY <1>10, <1>13
  <2> QED
    BY <1>10, <1>14, <2>1, PlaceOK
<1>16. k.mutated
  <2>1. "mutated" \notin {"col", "pending_wrap"}
    OBVIOUS
  <2> QED
    BY <1>10, <1>15, <2>1, SameReads
<1>17. Good(place_glyph(k, ch, width))
  BY <1>2, <1>15, <1>16, GlyphOK
<1>18. write_apart(h, ch) \in {wrapped, place_glyph(k, ch, width)}
  BY <1>1, <1>3, <1>6, <1>9, <1>12, <1>14 DEF write_apart
<1> QED
  BY <1>10, <1>17, <1>18

(* A printed scalar joins the cluster to its left, is dropped or starts a    *)
(* cell; the verdict is taken before the screen is flagged.                  *)
LEMMA WriteCharOK ==
  ASSUME NEW h, Good(h), NEW ch \in Glyph
  PROVE  Good(write_char_at_cursor(h, ch))
<1>1. PICK k : k = [h EXCEPT !.mutated = TRUE]
  OBVIOUS
<1>2. Good(k) /\ Same(h, k, {"mutated"}) /\ k.mutated
  BY <1>1, MutatedOK DEF Good
<1>3. /\ k.cols = h.cols /\ k.col = h.col /\ k.row = h.row /\ k.pending_wrap = h.pending_wrap
      /\ k.alt = h.alt /\ k.primary = h.primary /\ k.alternate = h.alternate
  <2>1. {"cols", "col", "row", "pending_wrap", "alt", "primary", "alternate"} \cap {"mutated"} = {}
    OBVIOUS
  <2> QED
    BY <1>2, <2>1, SameReads
<1>4. CursorCells(k) = CursorCells(h)
  BY <1>3 DEF CursorCells, active_grid
<1>5. cluster_col(k) = cluster_col(h)
  BY <1>3, <1>4 DEF cluster_col
<1>6. PICK verdict : verdict = cluster_verdict(h, ch)
  OBVIOUS
<1>7. verdict = "join" => Good(join_cluster(k, ch))
  <2> SUFFICES ASSUME verdict = "join" PROVE Good(join_cluster(k, ch))
    OBVIOUS
  <2>1. ~(cluster_col(h) < 0) /\ has_contents(CursorCells(h)[cluster_col(h)])
    BY <1>6 DEF cluster_verdict, ends_with_zwj
  <2>2. cluster_col(h) \in Int
    <3>1. h.cols \in Nat /\ h.col \in Nat
      BY GoodReads
    <3> QED
      BY <3>1 DEF cluster_col
  <2> QED
    BY <1>2, <1>4, <1>5, <2>1, <2>2, JoinOK
<1>8. verdict = "apart" => Good(write_apart(k, ch))
  <2> SUFFICES ASSUME verdict = "apart" PROVE Good(write_apart(k, ch))
    OBVIOUS
  <2>1. char_width(ch) # 0
    BY <1>6 DEF cluster_verdict
  <2> QED
    BY <1>2, <2>1, WriteApartOK
<1>9. verdict \in {"join", "drop", "apart"}
  BY <1>6 DEF cluster_verdict
<1>10. write_char_at_cursor(h, ch) = IF verdict = "join" THEN join_cluster(k, ch)
                                     ELSE IF verdict = "drop" THEN k ELSE write_apart(k, ch)
  BY <1>1, <1>6 DEF write_char_at_cursor
<1> QED
  BY <1>2, <1>7, <1>8, <1>9, <1>10

(* What the parser hands over: a print carries a scalar, a control sequence  *)
(* two parameters.                                                           *)
LEMMA PerformOK ==
  ASSUME NEW h, Good(h), NEW seq, WellFormed(seq)
  PROVE  Good(perform(h, seq))
<1>1. PICK k : k = Drained(h)
  OBVIOUS
<1>2. Good(k)
  BY <1>1, DrainedOK
<1>3. seq[1] = "print" => Good(write_char_at_cursor(k, seq[2]))
  BY <1>2, WriteCharOK DEF WellFormed
<1>4. Good(execute(k, seq[2])) /\ Good(set_dec_mode(k, seq[2], seq[3]))
  BY <1>2, ExecuteOK, ModeOK
<1>5. seq[1] = "csi" => Good(csi_dispatch(k, seq[2], seq[3], seq[4]))
  BY <1>2, CsiOK DEF WellFormed
<1>6. Good([k EXCEPT !.pen = apply_sgr(@, seq[2])])
  BY <1>2, SettingsOK
<1>7. Good(esc_dispatch(k, seq[2])) /\ Good(osc_dispatch(k, seq[2], seq[3]))
  BY <1>2, EscOscOK
<1> QED
  BY <1>1, <1>3, <1>4, <1>5, <1>6, <1>7 DEF perform

(* A new grid.                                                               *)
LEMMA NewOK ==
  ASSUME NEW size \in Sizes
  PROVE  Good(new(size[1], size[2]))
<1>1. PICK k, screen : k = new(size[1], size[2]) /\ screen = blank_screen(size[1], size[2])
  OBVIOUS
<1>2. ScreenOK(screen, size) /\ BlankScreen(screen)
  BY <1>1, BlankScreenOK
<1>3. size[1] \in Nat \ {0} /\ size[2] \in Nat \ {0} /\ size = <<size[1], size[2]>>
  BY DEF Sizes
<1>4. /\ DOMAIN k = Fields /\ k.rows = size[1] /\ k.cols = size[2]
      /\ k.primary = screen /\ k.alternate = screen
  BY <1>1 DEF new, Fields
<1>5. /\ k.row = 0 /\ k.col = 0 /\ k.saved_row = 0 /\ k.saved_col = 0 /\ k.pending_wrap = FALSE
      /\ k.scroll_top = 0 /\ k.scroll_bottom = size[1] - 1
  BY <1>1 DEF new
<1>6. /\ k.scrollback = <<>> /\ k.scrollback_limit = ScrollbackLimit /\ k.scrollback_offset = 0
      /\ k.mutated = FALSE
  BY <1>1 DEF new
<1>7. SizeOf(k) = size
  BY <1>3, <1>4 DEF SizeOf
<1>8. CursorOK(k) /\ MarginsOK(k)
  <2>1. size[1] - 1 \in 0..size[1]-1 /\ 0 \in 0..size[1]-1 /\ 0 \in 0..size[2] /\ 0 # size[2]
        /\ 0 <= size[1] - 1
    BY <1>3
  <2>2. k.pending_wrap \in BOOLEAN /\ (k.pending_wrap <=> k.col = k.cols)
    BY <1>4, <1>5, <2>1
  <2>3. k.row \in 0..k.rows-1 /\ k.col \in 0..k.cols /\ k.saved_row \in Nat /\ k.saved_col \in Nat
    BY <1>4, <1>5, <2>1
  <2> QED
    BY <1>4, <1>5, <2>1, <2>2, <2>3 DEF CursorOK, MarginsOK
<1>9. HistoryOK(k)
  <2>1. <<>> \in Seq({}) /\ Len(<<>>) = 0
    OBVIOUS
  <2>2. Lines(<<>>)
    BY <2>1 DEF Lines
  <2> QED
    BY <1>6, <2>1, <2>2, GridAssumption DEF HistoryOK
<1>10. ScreensOK(k)
  BY <1>2, <1>4, <1>7 DEF ScreensOK
<1>11. Clean(k)
  BY <1>2, <1>4 DEF Clean
<1> QED
  BY <1>1, <1>4, <1>6, <1>7, <1>8, <1>9, <1>10, <1>11 DEF Good, Shape

-----------------------------------------------------------------------------
(* A whole stream.                                                           *)

(* One turn of the fold over the positions t of a stream fed to h, f         *)
(* standing for the turns before it.                                         *)
FeedTurn(f, h, seqs, t) == IF t = {} THEN h ELSE perform(f[t \ {Max(t)}], seqs[Max(t)])

(* The last position is one, and leaves fewer.                               *)
LEMMA LastPosition ==
  ASSUME NEW n \in Nat, NEW t \in SUBSET (1..n), t # {}
  PROVE  /\ Max(t) \in 1..n /\ t \ {Max(t)} \in SUBSET (1..n)
         /\ Cardinality(t) \in Nat \ {0}
         /\ Cardinality(t \ {Max(t)}) = Cardinality(t) - 1
<1>1. t \subseteq 0..n
  OBVIOUS
<1>2. Max(t) \in t
  BY <1>1, ExtremesOK
<1>3. PICK x \in t : x = Max(t)
  BY <1>2
<1>4. IsFiniteSet(1..n)
  BY FS_Interval
<1>5. IsFiniteSet(t)
  BY <1>4, FS_Subset
<1>6. Cardinality(t \ {x}) = Cardinality(t) - 1
  BY <1>5, FS_RemoveElement
<1>7. Cardinality(t) \in Nat /\ Cardinality(t) # 0
  BY <1>5, FS_CardinalityType, FS_EmptySet
<1>8. t \ {x} \in SUBSET (1..n) /\ x \in 1..n
  OBVIOUS
<1> QED
  BY <1>3, <1>6, <1>7, <1>8

(* The fold is defined: every set of positions looks at a smaller one.       *)
LEMMA FeedExists ==
  ASSUME NEW n \in Nat, NEW h, NEW seqs
  PROVE  \E f : f = [t \in SUBSET (1..n) |-> FeedTurn(f, h, seqs, t)]
<1> DEFINE D == SUBSET (1..n)
           P(k) == \E f : \A t \in D : Cardinality(t) <= k => f[t] = FeedTurn(f, h, seqs, t)
           T == {k \in Nat : ~P(k)}
<1>a. \A t \in D : Cardinality(t) \in Nat /\ Cardinality(t) <= n /\ (Cardinality(t) = 0 => t = {})
  <2>1. IsFiniteSet(1..n) /\ Cardinality(1..n) = n
    BY FS_Interval
  <2>2. \A t \in D : IsFiniteSet(t) /\ Cardinality(t) <= n
    BY <2>1, FS_Subset
  <2> QED
    BY <2>2, FS_CardinalityType, FS_EmptySet
<1>1. P(0)
  <2> DEFINE f == [t \in D |-> h]
  <2>2. ASSUME NEW t \in D, Cardinality(t) <= 0 PROVE f[t] = FeedTurn(f, h, seqs, t)
    <3>1. t = {}
      BY <1>a, <2>2
    <3> QED
      BY <3>1 DEF FeedTurn
  <2> QED
    BY <2>2
<1>2. ASSUME NEW k \in Nat, P(k) PROVE P(k + 1)
  <2>1. PICK f : \A t \in D : Cardinality(t) <= k => f[t] = FeedTurn(f, h, seqs, t)
    BY <1>2
  <2>2. PICK m : m = [t \in D |-> IF Cardinality(t) <= k THEN f[t] ELSE FeedTurn(f, h, seqs, t)]
    OBVIOUS
  <2>3. \A t \in D : m[t] = FeedTurn(f, h, seqs, t)
    BY <2>1, <2>2
  <2>4. \A t \in D : Cardinality(t) <= k => m[t] = f[t]
    BY <2>2
  <2>5. ASSUME NEW t \in D, Cardinality(t) <= k + 1
        PROVE  FeedTurn(m, h, seqs, t) = FeedTurn(f, h, seqs, t)
    <3>1. CASE t = {}
      BY <3>1 DEF FeedTurn
    <3>2. CASE t # {}
      <4>1. PICK u : u = t \ {Max(t)}
        OBVIOUS
      <4>2. u \in D /\ Cardinality(u) = Cardinality(t) - 1 /\ Cardinality(t) \in Nat
        BY <3>2, <4>1, LastPosition
      <4>3. m[u] = f[u]
        BY <2>4, <2>5, <4>2
      <4> QED
        BY <3>2, <4>1, <4>3 DEF FeedTurn
    <3> QED
      BY <3>1, <3>2
  <2> QED
    BY <2>3, <2>5
<1>3. T = {}
  <2> SUFFICES ASSUME T # {} PROVE FALSE
    OBVIOUS
  <2>1. T \subseteq Nat
    OBVIOUS
  <2>2. PICK k \in T : \A m \in T : k <= m
    BY <2>1, LeastNatural
  <2> HIDE DEF P
  <2>3. k # 0 /\ k \in Nat
    BY <1>1, <2>2
  <2>4. k - 1 \in Nat /\ ~(k <= k - 1) /\ (k - 1) + 1 = k
    BY <2>3
  <2>5. P(k - 1)
    BY <2>2, <2>4
  <2>6. P((k - 1) + 1)
    BY <1>2, <2>4, <2>5
  <2> QED
    BY <2>2, <2>4, <2>6
<1>4. P(n)
  <2> HIDE DEF P
  <2> QED
    BY <1>3
<1>5. PICK f : \A t \in D : f[t] = FeedTurn(f, h, seqs, t)
  BY <1>a, <1>4
<1>6. PICK m : m = [t \in D |-> f[t]]
  OBVIOUS
<1>7. \A t \in D : FeedTurn(m, h, seqs, t) = FeedTurn(f, h, seqs, t)
  <2> SUFFICES ASSUME NEW t \in D PROVE FeedTurn(m, h, seqs, t) = FeedTurn(f, h, seqs, t)
    OBVIOUS
  <2>1. CASE t = {}
    BY <2>1 DEF FeedTurn
  <2>2. CASE t # {}
    <3>1. PICK u : u = t \ {Max(t)}
      OBVIOUS
    <3>2. u \in D
      BY <2>2, <3>1, LastPosition
    <3>3. m[u] = f[u]
      BY <1>6, <3>2
    <3> QED
      BY <2>2, <3>1, <3>3 DEF FeedTurn
  <2> QED
    BY <2>1, <2>2
<1>8. m = [t \in D |-> FeedTurn(m, h, seqs, t)]
  BY <1>5, <1>6, <1>7
<1> QED
  BY <1>8

(* A stream of well-formed sequences.                                        *)
LEMMA ProcessOK ==
  ASSUME NEW h, Good(h), NEW seqs, seqs \in Seq(Range(seqs)),
         \A i \in 1..Len(seqs) : WellFormed(seqs[i])
  PROVE  Good(process(h, seqs))
<1>1. PICK n : n = Len(seqs)
  OBVIOUS
<1>2. n \in Nat /\ DOMAIN seqs = 1..n
  BY <1>1, LenProperties
<1> DEFINE D == SUBSET (1..n)
           iter == CHOOSE f : f = [t \in D |-> FeedTurn(f, h, seqs, t)]
<1>3. process(h, seqs) = iter[1..n]
  BY <1>2 DEF process, FoldLeft, MapThenFoldSet, FeedTurn
<1>4. iter = [t \in D |-> FeedTurn(iter, h, seqs, t)]
  BY <1>2, FeedExists
<1> HIDE DEF iter
<1>5. \A t \in D : iter[t] = FeedTurn(iter, h, seqs, t)
  BY <1>4
<1> DEFINE Bad(k) == \E t \in D : Cardinality(t) = k /\ ~Good(iter[t])
           T == {k \in Nat : Bad(k)}
<1>6. T = {}
  <2> SUFFICES ASSUME T # {} PROVE FALSE
    OBVIOUS
  <2>1. T \subseteq Nat
    OBVIOUS
  <2>2. PICK k \in T : \A m \in T : k <= m
    BY <2>1, LeastNatural
  <2>3. PICK t \in D : Cardinality(t) = k /\ ~Good(iter[t])
    OBVIOUS
  <2>4. t # {}
    <3>1. t = {} => iter[t] = h
      BY <1>5, <2>3 DEF FeedTurn
    <3> QED
      BY <2>3, <3>1
  <2>5. PICK x, u : x = Max(t) /\ u = t \ {x}
    OBVIOUS
  <2>6. x \in 1..n /\ u \in D /\ Cardinality(u) = k - 1 /\ k \in Nat \ {0}
    BY <1>2, <2>3, <2>4, <2>5, LastPosition
  <2>7. iter[t] = perform(iter[u], seqs[x])
    BY <1>5, <2>4, <2>5 DEF FeedTurn
  <2>8. k - 1 \in Nat /\ ~(k <= k - 1)
    BY <2>6
  <2>9. Good(iter[u])
    BY <2>2, <2>6, <2>8
  <2>10. WellFormed(seqs[x])
    BY <1>1, <2>6
  <2> QED
    BY <2>3, <2>7, <2>9, <2>10, PerformOK
<1>7. Cardinality(1..n) \in Nat /\ 1..n \in D
  <2>1. IsFiniteSet(1..n)
    BY <1>2, FS_Interval
  <2>2. Cardinality(1..n) \in Nat
    BY <2>1, FS_CardinalityType
  <2>3. 1..n \in D
    OBVIOUS
  <2> QED
    BY <2>2, <2>3
<1>8. Good(iter[1..n])
  BY <1>6, <1>7
<1> QED
  BY <1>3, <1>8

-----------------------------------------------------------------------------
(* The specification.                                                        *)

(* Every grid a scene reaches is good.                                       *)
GridInv == scene \in DOMAIN Scenes /\ Good(g)

(* A scene begins with a new grid that its prelude has been fed to.          *)
LEMMA GridInit == Init => GridInv
<1> SUFFICES ASSUME Init PROVE GridInv
  OBVIOUS
<1>1. scene \in DOMAIN Scenes
  BY DEF Init
<1>2. PICK p \in Scenes[scene].preludes :
        g = Drained(process(new(Scenes[scene].rows, Scenes[scene].cols), p))
  BY DEF Init
<1>3. PICK size : size = <<Scenes[scene].rows, Scenes[scene].cols>>
  OBVIOUS
<1>4. size \in Sizes /\ size[1] = Scenes[scene].rows /\ size[2] = Scenes[scene].cols
  BY <1>1, <1>3, SceneAssumption DEF Sizes
<1>5. PICK k : k = new(size[1], size[2])
  OBVIOUS
<1>6. Good(k)
  BY <1>4, <1>5, NewOK
<1>7. Good(process(k, p))
  BY <1>1, <1>6, ProcessOK, SceneAssumption
<1>8. g = Drained(process(k, p))
  BY <1>2, <1>4, <1>5
<1> QED
  BY <1>1, <1>7, <1>8, DrainedOK DEF GridInv

(* Every sequence fed and every call of the handle keeps it good.            *)
LEMMA GridStep == GridInv /\ [Next]_termvars => GridInv'
<1> SUFFICES ASSUME GridInv, [Next]_termvars PROVE GridInv'
  OBVIOUS
<1>1. scene \in DOMAIN Scenes /\ Good(g)
  BY DEF GridInv
<1>2. Good(Drained(g))
  BY <1>1, DrainedOK
<1>3. ASSUME NEW next, Good(next), Step(next) PROVE GridInv'
  BY <1>1, <1>3 DEF Step, GridInv
<1>4. ASSUME NEW kind, Feeds(kind) PROVE GridInv'
  <2>1. PICK seq \in Scenes[scene].stream : Step(perform(g, seq))
    BY <1>4 DEF Feeds
  <2>2. Good(perform(g, seq))
    BY <1>1, PerformOK, SceneAssumption
  <2> QED
    BY <1>3, <2>1, <2>2
<1>5. CASE FeedText
  BY <1>4, <1>5 DEF FeedText
<1>6. CASE FeedControl
  BY <1>4, <1>6 DEF FeedControl
<1>7. CASE FeedCsi
  BY <1>4, <1>7 DEF FeedCsi
<1>8. CASE FeedSgr
  BY <1>4, <1>8 DEF FeedSgr
<1>9. CASE FeedMode
  BY <1>4, <1>9 DEF FeedMode
<1>10. CASE FeedEsc
  BY <1>4, <1>10 DEF FeedEsc
<1>11. CASE FeedOsc
  BY <1>4, <1>11 DEF FeedOsc
<1>12. CASE SetSize
  <2>1. PICK s \in Scenes[scene].sizes : Step(set_size(Drained(g), s[1], s[2]))
    BY <1>12 DEF SetSize
  <2>2. s[1] \in Nat /\ s[2] \in Nat
    BY <1>1, SceneAssumption
  <2>3. Good(set_size(Drained(g), s[1], s[2]))
    BY <1>2, <2>2, SetSizeOK
  <2> QED
    BY <1>3, <2>1, <2>3
<1>13. CASE SetScrollback
  <2>1. PICK o \in Scenes[scene].offsets : Step(set_scrollback(Drained(g), o))
    BY <1>13 DEF SetScrollback
  <2>2. o \in Nat
    BY <1>1, SceneAssumption
  <2>3. Good(set_scrollback(Drained(g), o))
    BY <1>2, <2>2, ViewOK
  <2> QED
    BY <1>3, <2>1, <2>3
<1>14. CASE ClearScrollback
  <2>1. Good(clear_scrollback(Drained(g)))
    BY <1>2, ViewOK
  <2> QED
    BY <1>3, <1>14, <2>1 DEF ClearScrollback
<1>15. CASE ClearKittyStack
  <2>1. Good(clear_kitty_kb_stack(Drained(g)))
    BY <1>2, KittyOK
  <2> QED
    BY <1>3, <1>15, <2>1 DEF ClearKittyStack
<1>16. CASE SetErasePolicy
  <2>1. PICK p : Step(set_erase_display_policy(Drained(g), p))
    BY <1>16 DEF SetErasePolicy
  <2>2. Good(set_erase_display_policy(Drained(g), p))
    BY <1>2, SettingsOK DEF set_erase_display_policy
  <2> QED
    BY <1>3, <2>1, <2>2
<1>17. CASE Done \/ UNCHANGED termvars
  BY <1>1, <1>17 DEF Done, termvars, GridInv
<1> QED
  BY <1>5, <1>6, <1>7, <1>8, <1>9, <1>10, <1>11, <1>12, <1>13, <1>14, <1>15, <1>16, <1>17 DEF Next

(* What the code indexes with is in range, in every state of every scene.    *)
THEOREM TypeCorrect == Spec => []TypeOK
<1>1. GridInv => TypeOK
  <2> SUFFICES ASSUME GridInv PROVE TypeOK
    OBVIOUS
  <2>0. Good(g) /\ Shape(g)
    BY DEF GridInv, Good
  <2>1. ASSUME NEW s \in Screens
        PROVE  /\ DOMAIN s.cells = 0..g.rows-1 /\ DOMAIN s.wraps = 0..g.rows-1
               /\ \A r \in 0..g.rows-1 : DOMAIN s.cells[r] = 0..g.cols-1
    <3>1. ScreenOK(s, SizeOf(g))
      BY <2>0 DEF Screens, Shape, ScreensOK
    <3>2. SizeOf(g)[1] = g.rows /\ SizeOf(g)[2] = g.cols
      BY <2>0, ShapeReads
    <3> QED
      BY <3>1, <3>2 DEF ScreenOK, RowOK, CellsOK
  <2>2. /\ g.row \in 0..g.rows-1 /\ g.col \in 0..g.cols
        /\ 0 <= g.scroll_top /\ g.scroll_top <= g.scroll_bottom /\ g.scroll_bottom < g.rows
    BY <2>0, GoodReads
  <2>3. g.scrollback_offset <= Len(g.scrollback) /\ Len(g.scrollback) <= g.scrollback_limit
    BY <2>0 DEF Shape, HistoryOK
  <2> QED
    BY <2>1, <2>2, <2>3 DEF TypeOK
<1> QED
  BY <1>1, GridInit, GridStep, PTL DEF Spec

(* The cursor is parked past the last column exactly under a pending wrap,   *)
(* whatever joins, wraps, restores and resizes came before.                  *)
THEOREM ParkedExactly == Spec => []ParkedIffPending
<1>1. GridInv => ParkedIffPending
  BY GoodReads DEF GridInv, ParkedIffPending
<1> QED
  BY <1>1, GridInit, GridStep, PTL DEF Spec

(* No operation on cells, rows, screens or history cuts a wide glyph.        *)
THEOREM GlyphsWhole == Spec => []WidePairs
<1>1. ASSUME NEW row, NEW cols \in Nat \ {0}, RowOK(row, cols)
      PROVE  PairedRow(row, cols) /\ Max(DOMAIN row) + 1 = cols
  <2>1. PairedRow(row, cols)
    BY <1>1 DEF PairedRow, RowOK, CellsOK, CellOK
  <2>2. DOMAIN row = 0..cols-1
    BY <1>1 DEF RowOK, CellsOK
  <2>3. cols - 1 \in Nat /\ 0..cols-1 \subseteq 0..(cols-1) /\ 0..cols-1 # {} /\ cols - 1 \in 0..cols-1
    OBVIOUS
  <2>4. PICK top : top = Max(0..cols-1)
    OBVIOUS
  <2>5. top \in 0..cols-1 /\ cols - 1 <= top
    BY <2>3, <2>4, ExtremesOK
  <2>6. top + 1 = cols
    BY <2>5
  <2> QED
    BY <2>1, <2>2, <2>4, <2>6
<1>2. GridInv => WidePairs
  <2> SUFFICES ASSUME GridInv PROVE WidePairs
    OBVIOUS
  <2>0. Shape(g)
    BY DEF GridInv, Good
  <2>1. ASSUME NEW s \in Screens, NEW r \in 0..g.rows-1 PROVE PairedRow(s.cells[r], g.cols)
    <3>1. ScreenOK(s, SizeOf(g))
      BY <2>0 DEF Screens, Shape, ScreensOK
    <3>2. SizeOf(g)[1] = g.rows /\ SizeOf(g)[2] = g.cols /\ g.cols \in Nat \ {0}
      BY <2>0, ShapeReads
    <3>3. RowOK(s.cells[r], g.cols)
      BY <3>1, <3>2 DEF ScreenOK
    <3> QED
      BY <1>1, <3>2, <3>3
  <2>2. ASSUME NEW i \in 1..Len(g.scrollback)
        PROVE  PairedRow(g.scrollback[i].cells, Max(DOMAIN g.scrollback[i].cells) + 1)
    <3>1. PICK cols \in Nat \ {0} : RowOK(g.scrollback[i].cells, cols)
      BY <2>0 DEF Shape, HistoryOK, Lines, LineOK
    <3> QED
      BY <1>1, <3>1
  <2> QED
    BY <2>1, <2>2 DEF WidePairs
<1> QED
  BY <1>2, GridInit, GridStep, PTL DEF Spec

(* The flag an erase trusts when it skips saving the screen tells the truth. *)
THEOREM SkippedSaveLosesNothing == Spec => []UnmutatedIsBlank
<1>1. GridInv => UnmutatedIsBlank
  BY BlockOK DEF GridInv, Good, Clean, UnmutatedIsBlank
<1> QED
  BY <1>1, GridInit, GridStep, PTL DEF Spec

-----------------------------------------------------------------------------
(* The views of history.                                                     *)

(* A stretch of one sequence, cut[2] elements after the first cut[1], then   *)
(* the beginning of another, cut[3] elements: what it is made of.            *)
Spliced(q, r, cut) ==
  /\ Len(SubSeq(q, cut[1] + 1, cut[1] + cut[2])) = cut[2]
  /\ SubSeq(q, cut[1] + 1, cut[1] + cut[2]) \o SubSeq(r, 1, cut[3])
       = [i \in 1..cut[2]+cut[3] |-> IF i <= cut[2] THEN q[cut[1] + i] ELSE r[i - cut[2]]]

(* It is made of them where they exist.                                      *)
LEMMA StretchThenBeginning ==
  ASSUME NEW S, NEW q \in Seq(S), NEW r \in Seq(S), NEW cut \in Nat \X Nat \X Nat,
         cut[1] + cut[2] <= Len(q), cut[3] <= Len(r)
  PROVE  Spliced(q, r, cut)
<1>0. PICK start, n, m : start = cut[1] /\ n = cut[2] /\ m = cut[3]
  OBVIOUS
<1>5. start \in Nat /\ n \in Nat /\ m \in Nat /\ start + n <= Len(q) /\ m <= Len(r)
  BY <1>0
<1>1. PICK a, b : a = SubSeq(q, start + 1, start + n) /\ b = SubSeq(r, 1, m)
  OBVIOUS
<1>2. a \in Seq(S) /\ Len(a) = n /\ \A i \in 1..n : a[i] = q[start + i]
  <2>1. PICK lo, hi : lo = start + 1 /\ hi = start + n
    OBVIOUS
  <2>2. lo \in Int /\ hi \in Int /\ \A i \in lo..hi : q[i] \in S
    BY <1>5, <2>1, LenProperties
  <2>3. /\ SubSeq(q, lo, hi) \in Seq(S)
        /\ Len(SubSeq(q, lo, hi)) = IF lo <= hi THEN hi-lo+1 ELSE 0
        /\ \A i \in 1..hi-lo+1 : SubSeq(q, lo, hi)[i] = q[lo+i-1]
    BY <2>2, SubSeqProperties
  <2>4. a = SubSeq(q, lo, hi)
    BY <1>1, <2>1
  <2>5. hi-lo+1 = n /\ (lo <= hi <=> n # 0) /\ \A i \in 1..n : lo+i-1 = start + i
    BY <1>5, <2>1
  <2> QED
    BY <1>5, <2>3, <2>4, <2>5
<1>3. b \in Seq(S) /\ Len(b) = m /\ \A i \in 1..m : b[i] = r[i]
  <2>1. Len(r) \in Nat /\ m \in Nat /\ m <= Len(r)
    BY <1>5, LenProperties
  <2>2. \A i \in 1..m : i \in 1..Len(r)
    BY <2>1
  <2> QED
    BY <1>1, <2>1, <2>2
<1>4. a \o b = [i \in 1..n+m |-> IF i <= n THEN a[i] ELSE b[i - n]]
  <2>1. PICK c : c = a \o b
    OBVIOUS
  <2>2. /\ c \in Seq(S) /\ Len(c) = n + m
        /\ \A i \in 1..n+m : c[i] = IF i <= n THEN a[i] ELSE b[i - n]
    <3>1. /\ a \o b \in Seq(S) /\ Len(a \o b) = Len(a) + Len(b)
          /\ \A i \in 1..Len(a) + Len(b) : (a \o b)[i] = IF i <= Len(a) THEN a[i] ELSE b[i - Len(a)]
      <4>1. a \in Seq(S) /\ b \in Seq(S)
        BY <1>2, <1>3
      <4> QED
        BY <4>1, ConcatProperties
    <3>2. Len(a) = n /\ Len(b) = m
      BY <1>2, <1>3
    <3> QED
      BY <2>1, <3>1, <3>2
  <2>3. c = [i \in 1..n+m |-> c[i]]
    BY <2>2
  <2> QED
    BY <2>1, <2>2, <2>3
<1>6. \A i \in 1..n+m : (IF i <= n THEN a[i] ELSE b[i - n]) = IF i <= n THEN q[start + i] ELSE r[i - n]
  <2> SUFFICES ASSUME NEW i \in 1..n+m
               PROVE  (IF i <= n THEN a[i] ELSE b[i - n]) = IF i <= n THEN q[start + i] ELSE r[i - n]
    OBVIOUS
  <2>1. CASE i <= n
    BY <1>2, <1>5, <2>1
  <2>2. CASE ~(i <= n)
    <3>1. i - n \in 1..m
      BY <1>5, <2>2
    <3> QED
      BY <1>3, <2>2, <3>1
  <2> QED
    BY <2>1, <2>2
<1>7. a \o b = [i \in 1..n+m |-> IF i <= n THEN q[start + i] ELSE r[i - n]]
  BY <1>4, <1>6
<1> QED
  BY <1>0, <1>1, <1>2, <1>7 DEF Spliced

(* The copying view has the rows of the borrowed one.                        *)
LEMMA CopyIsView ==
  ASSUME Good(g), NEW offset \in Nat, NEW viewport \in Nat
  PROVE  LET view == scrollback_view(offset, viewport) IN
         dump_scrollback_view(offset, viewport) = [i \in 1..view.rows |-> view_row(view, i - 1)]
<1>1. PICK q, len, rows, live : q = g.scrollback /\ len = Len(q) /\ rows = g.rows /\ live = LiveRows
  OBVIOUS
<1>2. PICK S : q \in Seq(S)
  BY <1>1 DEF Good, Shape, HistoryOK, Lines
<1>3. len \in Nat /\ rows \in Nat \ {0}
  BY <1>1, <1>2, GoodReads, LenProperties
<1>4. /\ live = [i \in 1..rows |-> live[i]]
      /\ \E T : live \in Seq(T) /\ q \in Seq(T)
      /\ Len(live) = rows
  <2> DEFINE Row(i) == [cells |-> active_grid(g).cells[i-1], wrap |-> active_grid(g).wraps[i-1]]
             T == S \cup {Row(i) : i \in 1..rows}
  <2>1. live = [i \in 1..rows |-> Row(i)]
    BY <1>1 DEF LiveRows
  <2> HIDE DEF Row
  <2>2. live \in [1..rows -> T]
    BY <2>1
  <2>3. live \in Seq(T) /\ Len(live) = rows
    BY <1>3, <2>2
  <2>4. q \in Seq(T)
    <3>1. \A i \in 1..len : q[i] \in S
      BY <1>1, <1>2
    <3>2. q = [i \in 1..len |-> q[i]]
      BY <1>1, <1>2
    <3>3. q \in [1..len -> T]
      BY <3>1, <3>2
    <3> QED
      BY <1>3, <3>3
  <2> QED
    BY <2>1, <2>3, <2>4
<1>5. PICK view : view = scrollback_view(offset, viewport)
  OBVIOUS
<1>6. PICK draw, start, last : /\ draw = Lesser(viewport, rows)
                               /\ start = len - Lesser(offset, len)
                               /\ last = Lesser(start + draw, len)
  OBVIOUS
<1>7. PICK history : history = scrollback_rows_at_offset(offset, draw)
  OBVIOUS
<1>8. CASE offset = 0 \/ len = 0 \/ viewport = 0
  <2>1. view.rows = rows /\ view.start = 0 /\ view.prefix = 0
    BY <1>1, <1>5, <1>8 DEF scrollback_view
  <2>2. viewport = 0 => draw = 0
    BY <1>3, <1>6 DEF Lesser
  <2>3. history = <<>>
    BY <1>1, <1>7, <1>8, <2>2 DEF scrollback_rows_at_offset
  <2>4. dump_scrollback_view(offset, viewport) = live
    BY <1>1, <1>6, <1>7, <2>3 DEF dump_scrollback_view
  <2>5. \A i \in 1..rows : ~(i - 1 < 0) /\ i - 1 - 0 + 1 = i
    BY <1>3
  <2>6. \A i \in 1..rows : view_row(view, i - 1) = live[i]
    BY <1>1, <2>1, <2>5 DEF view_row
  <2> QED
    BY <1>4, <1>5, <2>1, <2>4, <2>6
<1>9. CASE ~(offset = 0 \/ len = 0 \/ viewport = 0)
  <2>1. /\ draw \in 1..rows /\ start \in 0..len-1 /\ last \in start+1..len
        /\ last - start \in 1..draw
    BY <1>3, <1>6, <1>9 DEF Lesser
  <2>2. PICK n, m : n = last - start /\ m = draw - n
    OBVIOUS
  <2>3. /\ n \in 1..draw /\ n <= len - start /\ m \in 0..rows /\ start + n = last /\ n + m = draw
        /\ Lesser(n, draw) = n
    BY <1>3, <2>1, <2>2 DEF Lesser
  <2>4. view.rows = draw /\ view.start = start /\ view.prefix = n
    BY <1>1, <1>5, <1>6, <1>9, <2>2, <2>3 DEF scrollback_view
  <2>5. history = SubSeq(q, start + 1, start + n)
    <3>1. draw # 0
      BY <2>1
    <3> QED
      BY <1>1, <1>6, <1>7, <1>9, <2>3, <3>1 DEF scrollback_rows_at_offset
  <2>6. /\ Len(SubSeq(q, start + 1, start + n)) = n
        /\ SubSeq(q, start + 1, start + n) \o SubSeq(live, 1, m)
             = [i \in 1..n+m |-> IF i <= n THEN q[start + i] ELSE live[i - n]]
    <3>1. PICK T : live \in Seq(T) /\ q \in Seq(T)
      BY <1>4
    <3>2. PICK cut : cut = <<start, n, m>>
      OBVIOUS
    <3>3. start \in Nat /\ n \in Nat /\ m \in Nat
      BY <1>3, <2>1, <2>3
    <3>4. cut \in Nat \X Nat \X Nat /\ cut[1] = start /\ cut[2] = n /\ cut[3] = m
      BY <3>2, <3>3
    <3>5. cut[1] + cut[2] <= Len(q)
      BY <1>1, <1>3, <2>1, <2>3, <3>4
    <3>6. cut[3] <= Len(live)
      BY <1>3, <1>4, <2>3, <3>4
    <3>7. Spliced(q, live, cut)
      BY <3>1, <3>4, <3>5, <3>6, StretchThenBeginning
    <3> QED
      BY <3>4, <3>7 DEF Spliced
  <2>7. Len(history) = n /\ history # <<>>
    <3>1. Len(<<>>) = 0 /\ n # 0
      BY <2>1, <2>3
    <3> QED
      BY <2>5, <2>6, <3>1
  <2>8. dump_scrollback_view(offset, viewport) = SubSeq(q, start + 1, start + n) \o SubSeq(live, 1, m)
    BY <1>1, <1>6, <1>7, <1>9, <2>2, <2>5, <2>7 DEF dump_scrollback_view
  <2>9. dump_scrollback_view(offset, viewport)
          = [i \in 1..n+m |-> IF i <= n THEN q[start + i] ELSE live[i - n]]
    BY <2>6, <2>8
  <2>10. \A i \in 1..draw : view_row(view, i - 1) = IF i <= n THEN q[start + i] ELSE live[i - n]
    <3>1. \A i \in 1..draw : /\ i - 1 < n <=> i <= n
                             /\ start + (i - 1) + 1 = start + i /\ i - 1 - n + 1 = i - n
      BY <1>3, <2>1, <2>3
    <3> QED
      BY <1>1, <2>4, <3>1 DEF view_row
  <2> QED
    BY <1>5, <2>3, <2>4, <2>9, <2>10
<1> QED
  BY <1>8, <1>9

(* The link lookup finds the row the borrowed view shows.                    *)
LEMMA LookupIsView ==
  ASSUME Good(g), NEW row \in 0..g.rows-1
  PROVE  active_content_row_cells(row) = view_row(scrollback_view(g.scrollback_offset, g.rows), row).cells
<1>1. PICK q, len, rows, off : /\ q = g.scrollback /\ len = Len(q) /\ rows = g.rows
                               /\ off = g.scrollback_offset
  OBVIOUS
<1>2. len \in Nat /\ rows \in Nat \ {0} /\ off \in 0..len /\ row \in 0..rows-1
  <2>1. \E S : q \in Seq(S)
    BY <1>1 DEF Good, Shape, HistoryOK, Lines
  <2>2. off \in Nat /\ off <= len
    BY <1>1 DEF Good, Shape, HistoryOK
  <2> QED
    BY <1>1, <2>1, <2>2, GoodReads, LenProperties
<1>3. \A i \in 1..rows : LiveRows[i].cells = active_grid(g).cells[i-1]
  BY <1>1 DEF LiveRows
<1>4. PICK view : view = scrollback_view(off, rows)
  OBVIOUS
<1>5. CASE off = 0
  <2>1. view.prefix = 0
    BY <1>1, <1>4, <1>5 DEF scrollback_view
  <2>2. ~(row < 0) /\ row - 0 + 1 \in 1..rows /\ row - 0 + 1 - 1 = row
    BY <1>2
  <2>3. view_row(view, row).cells = active_grid(g).cells[row]
    BY <1>3, <2>1, <2>2 DEF view_row
  <2> QED
    BY <1>1, <1>4, <1>5, <2>3 DEF active_content_row_cells
<1>6. CASE off # 0
  <2>1. PICK start, n : /\ start = len - Lesser(off, len)
                        /\ n = Lesser(Lesser(start + rows, len) - start, rows)
    OBVIOUS
  <2>2. Lesser(rows, rows) = rows /\ len # 0 /\ rows # 0 /\ n \in 0..rows
    BY <1>2, <1>6, <2>1 DEF Lesser
  <2>3. view.start = start /\ view.prefix = n
    BY <1>1, <1>4, <1>6, <2>1, <2>2 DEF scrollback_view
  <2>4. active_content_row_cells(row) = IF row < n THEN q[start + row + 1].cells
                                        ELSE active_grid(g).cells[row - n]
    BY <1>1, <1>6, <2>1 DEF active_content_row_cells
  <2>5. ~(row < n) => row - n + 1 \in 1..rows /\ row - n + 1 - 1 = row - n
    BY <1>2, <2>2
  <2>6. view_row(view, row).cells = IF row < n THEN q[start + row + 1].cells
                                    ELSE active_grid(g).cells[row - n]
    <3>1. CASE row < n
      BY <1>1, <2>3, <3>1 DEF view_row
    <3>2. CASE ~(row < n)
      <4>1. PICK i : i = row - n + 1
        OBVIOUS
      <4>2. i \in 1..rows /\ i - 1 = row - n
        BY <1>2, <2>2, <3>2, <4>1
      <4>3. view_row(view, row) = LiveRows[i]
        BY <2>3, <3>2, <4>1 DEF view_row
      <4> QED
        BY <1>3, <3>2, <4>2, <4>3
    <3> QED
      BY <3>1, <3>2
  <2> QED
    BY <1>1, <1>4, <2>4, <2>6
<1> QED
  BY <1>5, <1>6

(* The copying view, the borrowed view and the link lookup show the same     *)
(* rows for every offset and viewport.                                       *)
THEOREM ViewsShowOneHistory == Spec => []ViewsAgree
<1>1. GridInv => ViewsAgree
  <2> SUFFICES ASSUME GridInv PROVE ViewsAgree
    OBVIOUS
  <2>1. Good(g)
    BY DEF GridInv
  <2>2. \A offset \in 0..Len(g.scrollback)+1, viewport \in 0..g.rows+1 :
          offset \in Nat /\ viewport \in Nat
    OBVIOUS
  <2> QED
    BY <2>1, <2>2, CopyIsView, LookupIsView DEF ViewsAgree
<1> QED
  BY <1>1, GridInit, GridStep, PTL DEF Spec

-----------------------------------------------------------------------------
(* A full-screen program leaves no trace.                                    *)

(* k shows the screen that h shows and, if that is the alternate one, has    *)
(* h's primary screen, and its history unless that was cleared.              *)
Kept(h, k) ==
  /\ DOMAIN k = Fields /\ k.alt = h.alt
  /\ h.alt => k.primary = h.primary /\ k.scrollback \in {h.scrollback, <<>>}

(* A field other than the three.                                             *)
LEMMA FieldKept ==
  ASSUME NEW h, NEW k, Kept(h, k), NEW x \in Fields \ {"alt", "primary", "scrollback"}, NEW v
  PROVE  Kept(h, [k EXCEPT ![x] = v])
<1>1. PICK m : m = [k EXCEPT ![x] = v]
  OBVIOUS
<1>2. DOMAIN m = Fields
  BY <1>1 DEF Kept
<1>3. m.alt = k.alt /\ m.primary = k.primary /\ m.scrollback = k.scrollback
  <2>1. {"alt", "primary", "scrollback"} \subseteq DOMAIN k
    BY DEF Kept, Fields
  <2> QED
    BY <1>1, <2>1
<1> QED
  BY <1>1, <1>2, <1>3 DEF Kept

(* Several.                                                                  *)
LEMMA SameKept ==
  ASSUME NEW h, NEW k, Kept(h, k), NEW m, NEW X, Same(k, m, X),
         {"alt", "primary", "scrollback"} \cap X = {}
  PROVE  Kept(h, m)
<1>1. m.alt = k.alt /\ m.primary = k.primary /\ m.scrollback = k.scrollback
  BY DEF Same, Fields
<1> QED
  BY <1>1 DEF Kept, Same

(* Steps follow each other.                                                  *)
LEMMA KeptChain ==
  ASSUME NEW h, NEW k, Kept(h, k), NEW m, Kept(k, m)
  PROVE  Kept(h, m)
BY DEF Kept

(* Drawing, and the three output buffers.                                    *)
LEMMA DrawKept ==
  ASSUME NEW h, NEW k, Kept(h, k)
  PROVE  /\ \A s : Kept(h, SetActive(k, s))
         /\ \A r : Kept(h, SetCursorCells(k, r)) /\ Kept(h, blank_rows(k, r))
         /\ \A r, a, b : Kept(h, mark_range(k, r, a, b))
         /\ Kept(h, mark_all(k))
         /\ \A e : Kept(h, emit(k, e)) /\ Kept(h, record_scroll(k, e))
<1>1. \A s : Kept(h, SetActive(k, s))
  <2> SUFFICES ASSUME NEW s PROVE Kept(h, SetActive(k, s))
    OBVIOUS
  <2>1. CASE k.alt
    <3>1. SetActive(k, s) = [k EXCEPT !.alternate = s]
      BY <2>1 DEF SetActive
    <3>2. "alternate" \in Fields \ {"alt", "primary", "scrollback"}
      BY DEF Fields
    <3> QED
      BY <3>1, <3>2, FieldKept
  <2>2. CASE ~k.alt
    <3>1. SetActive(k, s) = [k EXCEPT !.primary = s]
      BY <2>2 DEF SetActive
    <3>2. DOMAIN [k EXCEPT !.primary = s] = Fields /\ [k EXCEPT !.primary = s].alt = k.alt
      BY DEF Kept, Fields
    <3> QED
      BY <2>2, <3>1, <3>2 DEF Kept
  <2> QED
    BY <2>1, <2>2
<1>2. \A r : Kept(h, SetCursorCells(k, r)) /\ Kept(h, blank_rows(k, r))
  BY <1>1 DEF SetCursorCells, blank_rows
<1>3. {"dirty", "scroll_ops", "events"} \subseteq Fields \ {"alt", "primary", "scrollback"}
  BY DEF Fields
<1>4. \A v : Kept(h, [k EXCEPT !.dirty = v]) /\ Kept(h, [k EXCEPT !.scroll_ops = v])
             /\ Kept(h, [k EXCEPT !.events = v])
  BY <1>3, FieldKept
<1>5. \A r, a, b : Kept(h, mark_range(k, r, a, b))
  BY <1>4 DEF mark_range
<1>6. Kept(h, mark_all(k))
  BY <1>4 DEF mark_all
<1>7. \A e : Kept(h, emit(k, e)) /\ Kept(h, record_scroll(k, e))
  BY <1>4 DEF emit, record_scroll
<1> QED
  BY <1>1, <1>2, <1>5, <1>6, <1>7

(* The cursor, the pen and the modes.                                        *)
LEMMA SettingsKept ==
  ASSUME NEW h, NEW k, Kept(h, k)
  PROVE  /\ Kept(h, clear_pending_wrap(k)) /\ Kept(h, save_cursor(k)) /\ Kept(h, restore_saved_cursor(k))
         /\ \A r, c : Kept(h, move_to(k, r, c))
         /\ \A v : /\ Kept(h, [k EXCEPT !.kitty = v]) /\ Kept(h, [k EXCEPT !.modes = v])
                   /\ Kept(h, [k EXCEPT !.pen = v]) /\ Kept(h, [k EXCEPT !.cursor_style = v])
                   /\ Kept(h, [k EXCEPT !.hyperlink = v]) /\ Kept(h, [k EXCEPT !.no_autowrap = v])
                   /\ Kept(h, [k EXCEPT !.erase_policy = v]) /\ Kept(h, [k EXCEPT !.last_print = v])
                   /\ Kept(h, [k EXCEPT !.mutated = v]) /\ Kept(h, [k EXCEPT !.col = v])
                   /\ Kept(h, [k EXCEPT !.row = v]) /\ Kept(h, [k EXCEPT !.scrollback_offset = v])
<1>0. DOMAIN k = Fields
  BY DEF Kept
<1> DEFINE X == {"pending_wrap", "last_print", "col", "row", "saved_row", "saved_col"}
<1>1. {"alt", "primary", "scrollback"} \cap X = {}
  OBVIOUS
<1>2. Same(k, clear_pending_wrap(k), X)
  BY <1>0 DEF Same, Fields, clear_pending_wrap
<1>3. Same(k, save_cursor(k), X)
  BY <1>0 DEF Same, Fields, save_cursor
<1>4. Same(k, restore_saved_cursor(k), X)
  BY <1>0 DEF Same, Fields, restore_saved_cursor
<1>5. \A r, c : Same(k, move_to(k, r, c), X)
  BY <1>0 DEF Same, Fields, move_to
<1> HIDE DEF X
<1>6. /\ Kept(h, clear_pending_wrap(k)) /\ Kept(h, save_cursor(k)) /\ Kept(h, restore_saved_cursor(k))
      /\ \A r, c : Kept(h, move_to(k, r, c))
  BY <1>1, <1>2, <1>3, <1>4, <1>5, SameKept
<1>7. {"kitty", "modes", "pen", "cursor_style", "hyperlink", "no_autowrap", "erase_policy", "last_print",
       "mutated", "col", "row", "scrollback_offset"} \subseteq Fields \ {"alt", "primary", "scrollback"}
  BY DEF Fields
<1> QED
  BY <1>6, <1>7, FieldKept

(* What leaves the screen reaches history from the primary screen only.      *)
LEMMA ScrollKept ==
  ASSUME NEW h, NEW k, Kept(h, k)
  PROVE  /\ \A count, wrap : Kept(h, scroll_up(k, count, wrap))
         /\ \A wrap : Kept(h, newline_action(k, wrap))
         /\ Kept(h, preserve_visible_rows(k)) /\ Kept(h, clear_scrollback(k))
<1>0. DOMAIN k = Fields /\ k.alt = h.alt
  BY DEF Kept
<1>1. ASSUME NEW rows PROVE /\ DOMAIN push_scrollback(k, rows) = Fields
                            /\ push_scrollback(k, rows).alt = k.alt
  BY <1>0 DEF push_scrollback, Fields
<1>2. \A count, wrap : Kept(h, scroll_up(k, count, wrap))
  <2> SUFFICES ASSUME NEW count, NEW wrap PROVE Kept(h, scroll_up(k, count, wrap))
    OBVIOUS
  <2>1. PICK top, bottom, n : /\ top = k.scroll_top /\ bottom = k.scroll_bottom
                              /\ n = Lesser(count, bottom - top + 1)
    OBVIOUS
  <2>2. PICK screen : screen = active_grid(k)
    OBVIOUS
  <2>3. PICK leaving : leaving =
          [i \in 1..n |-> [cells |-> screen.cells[top+i-1], wrap |-> screen.wraps[top+i-1]]]
    OBVIOUS
  <2>4. PICK recorded : recorded = record_scroll([k EXCEPT !.mutated = TRUE], ScrollOp("Up", top, bottom, n))
    OBVIOUS
  <2>5. Kept(h, recorded)
    <3>1. Kept(h, [k EXCEPT !.mutated = TRUE])
      BY SettingsKept
    <3> QED
      BY <2>4, <3>1, DrawKept
  <2>6. PICK fed : fed = IF top < bottom /\ ~k.alt /\ top = 0 /\ k.scrollback_limit > 0
                         THEN push_scrollback(recorded, leaving) ELSE recorded
    OBVIOUS
  <2>7. Kept(h, fed)
    <3>1. DOMAIN push_scrollback(recorded, leaving) = Fields
          /\ push_scrollback(recorded, leaving).alt = recorded.alt
      BY <2>5 DEF push_scrollback, Fields, Kept
    <3>2. ~k.alt => Kept(h, push_scrollback(recorded, leaving))
      BY <1>0, <2>5, <3>1 DEF Kept
    <3> QED
      BY <2>5, <2>6, <3>2
  <2>8. PICK moved : moved = IF top >= bottom THEN fed
                             ELSE SetActive(fed, shift_up(screen, top, bottom, n, k.cols, wrap))
    OBVIOUS
  <2>9. Kept(h, moved)
    BY <2>7, <2>8, DrawKept
  <2>10. "dirty" \in Fields \ {"alt", "primary", "scrollback"}
    BY DEF Fields
  <2>11. \A v : Kept(h, [moved EXCEPT !.dirty = v])
    BY <2>9, <2>10, FieldKept
  <2>12. scroll_up(k, count, wrap)
           = [moved EXCEPT !.dirty = @ \cup ((top..bottom) \X (0..k.cols-1))]
    BY <2>1, <2>2, <2>3, <2>4, <2>6, <2>8 DEF scroll_up
  <2> QED
    BY <2>11, <2>12
<1>3. \A wrap : Kept(h, newline_action(k, wrap))
  <2> SUFFICES ASSUME NEW wrap PROVE Kept(h, newline_action(k, wrap))
    OBVIOUS
  <2>1. PICK down : down = [k EXCEPT !.row = Lesser(@ + 1, k.rows - 1)]
    OBVIOUS
  <2>2. Kept(h, down)
    BY <2>1, SettingsKept
  <2>3. \A s : Kept(h, SetActive(down, s))
    BY <2>2, DrawKept
  <2>4. PICK s : newline_action(k, wrap) \in {scroll_up(k, 1, wrap), SetActive(down, s)}
    BY <2>1 DEF newline_action
  <2> QED
    BY <1>2, <2>3, <2>4
<1>4. Kept(h, preserve_visible_rows(k))
  <2>1. CASE k.alt
    <3>1. preserve_visible_rows(k) = k
      BY <2>1 DEF preserve_visible_rows
    <3> QED
      BY <3>1
  <2>2. CASE ~k.alt
    <3>1. PICK m : m = preserve_visible_rows(k)
      OBVIOUS
    <3>2. DOMAIN m = Fields /\ m.alt = k.alt
      BY <1>0, <3>1 DEF preserve_visible_rows, push_scrollback, Fields
    <3> QED
      BY <1>0, <2>2, <3>1, <3>2 DEF Kept
  <2> QED
    BY <2>1, <2>2
<1>5. Kept(h, clear_scrollback(k))
  <2>1. PICK m : m = clear_scrollback(k)
    OBVIOUS
  <2>2. DOMAIN m = Fields /\ m.alt = k.alt /\ m.primary = k.primary /\ m.scrollback = <<>>
    BY <1>0, <2>1 DEF clear_scrollback, Fields
  <2> QED
    BY <2>1, <2>2 DEF Kept
<1> QED
  BY <1>2, <1>3, <1>4, <1>5

(* Erasing and editing work on the screen shown.                             *)
LEMMA EraseKept ==
  ASSUME NEW h, NEW k, Kept(h, k)
  PROVE  /\ Kept(h, erase_right(k)) /\ Kept(h, erase_left(k))
         /\ \A mode : Kept(h, erase_line(k, mode)) /\ Kept(h, erase_display(k, mode))
         /\ \A p0 : /\ Kept(h, ich(k, p0)) /\ Kept(h, dch(k, p0)) /\ Kept(h, ech(k, p0))
                    /\ Kept(h, il(k, p0)) /\ Kept(h, dl(k, p0)) /\ Kept(h, sd(k, p0))
<1>1. \A r : Kept(h, SetCursorCells(k, r))
  BY DrawKept
<1>2. \A r, row, a, b : Kept(h, mark_range(SetCursorCells(k, r), row, a, b))
  BY <1>1, DrawKept
<1>3. ASSUME NEW m, Kept(h, m) PROVE Kept(h, erase_right(m)) /\ Kept(h, erase_left(m))
  BY <1>3, DrawKept DEF erase_right, erase_left
<1>4. \A mode : Kept(h, erase_line(k, mode))
  <2>1. \A row, a, b : Kept(h, mark_range(erase_right(k), row, a, b))
                       /\ Kept(h, mark_range(erase_left(k), row, a, b))
    BY <1>3, DrawKept
  <2> QED
    BY <1>2, <2>1 DEF erase_line
<1>5. \A mode : Kept(h, erase_display(k, mode))
  <2> SUFFICES ASSUME NEW mode PROVE Kept(h, erase_display(k, mode))
    OBVIOUS
  <2>1. PICK saved : saved = preserve_visible_rows(k)
    OBVIOUS
  <2>2. Kept(h, saved)
    BY <2>1, ScrollKept
  <2>3. \A rows : Kept(h, blank_rows(erase_right(k), rows)) /\ Kept(h, blank_rows(erase_right(saved), rows))
    BY <1>3, <2>2, DrawKept
  <2>4. \A rows : Kept(h, erase_left(blank_rows(k, rows))) /\ Kept(h, blank_rows(saved, rows))
    BY <1>3, <2>2, DrawKept
  <2>5. \A rows, e : Kept(h, emit(blank_rows(clear_scrollback(k), rows), e))
    <3>1. Kept(h, clear_scrollback(k))
      BY ScrollKept
    <3>2. \A rows : Kept(h, blank_rows(clear_scrollback(k), rows))
      BY <3>1, DrawKept
    <3> QED
      BY <3>2, DrawKept
  <2>6. PICK m : /\ erase_display(k, mode) = mark_all(m)
                 /\ m = IF mode = 0 THEN blank_rows(erase_right(IF k.row = 0 /\ k.col = 0 THEN saved ELSE k),
                                                    k.row+1..k.rows-1)
                        ELSE IF mode = 1 THEN erase_left(blank_rows(k, 0..k.row-1))
                        ELSE IF mode = 2 THEN blank_rows(saved, 0..k.rows-1)
                        ELSE IF mode = 3 THEN emit(blank_rows(clear_scrollback(k), 0..k.rows-1),
                                                   <<"ScrollbackClear">>)
                        ELSE k
    BY <2>1 DEF erase_display
  <2>7. Kept(h, m)
    BY <2>3, <2>4, <2>5, <2>6
  <2> QED
    BY <2>6, <2>7, DrawKept
<1>6. \A p0 : Kept(h, ich(k, p0)) /\ Kept(h, dch(k, p0)) /\ Kept(h, ech(k, p0))
  BY <1>2 DEF ich, dch, ech
<1>7. \A p0 : Kept(h, il(k, p0)) /\ Kept(h, dl(k, p0)) /\ Kept(h, sd(k, p0))
  <2>1. \A op, s : Kept(h, SetActive(record_scroll(k, op), s))
    BY DrawKept
  <2>2. \A op, s : Kept(h, mark_all(SetActive(record_scroll(k, op), s)))
    BY <2>1, DrawKept
  <2> QED
    BY <2>2 DEF il, dl, sd
<1> QED
  BY <1>3, <1>4, <1>5, <1>6, <1>7

(* Printing works on the screen shown.                                       *)
LEMMA PrintKept ==
  ASSUME NEW h, NEW k, Kept(h, k), NEW ch
  PROVE  Kept(h, write_char_at_cursor(k, ch))
<1>1. ASSUME NEW m, Kept(h, m), NEW col, NEW wrap, NEW last
      PROVE  Kept(h, [m EXCEPT !.col = col, !.pending_wrap = wrap, !.last_print = last])
  <2>1. PICK n : n = [m EXCEPT !.col = col, !.pending_wrap = wrap, !.last_print = last]
    OBVIOUS
  <2>2. Same(m, n, {"col", "pending_wrap", "last_print"})
    BY <1>1, <2>1 DEF Kept, Same
  <2>3. {"alt", "primary", "scrollback"} \cap {"col", "pending_wrap", "last_print"} = {}
    OBVIOUS
  <2> QED
    BY <1>1, <2>1, <2>2, <2>3, SameKept
<1>2. ASSUME NEW m, Kept(h, m), NEW col PROVE Kept(h, [m EXCEPT !.pending_wrap = FALSE, !.col = col])
  <2>1. PICK n : n = [m EXCEPT !.pending_wrap = FALSE, !.col = col]
    OBVIOUS
  <2>2. Same(m, n, {"col", "pending_wrap"})
    BY <1>2, <2>1 DEF Kept, Same
  <2>3. {"alt", "primary", "scrollback"} \cap {"col", "pending_wrap"} = {}
    OBVIOUS
  <2> QED
    BY <1>2, <2>1, <2>2, <2>3, SameKept
<1>3. ASSUME NEW m, Kept(h, m) PROVE Kept(h, join_cluster(m, ch))
  <2>1. PICK cells, col, wrap, last, start, end :
          join_cluster(m, ch) = mark_range([SetCursorCells(m, cells) EXCEPT
            !.col = col, !.pending_wrap = wrap, !.last_print = last], m.row, start, end)
    BY DEF join_cluster
  <2>2. PICK n : n = SetCursorCells(m, cells)
    OBVIOUS
  <2>3. Kept(h, n)
    BY <1>3, <2>2, DrawKept
  <2>4. Kept(h, [n EXCEPT !.col = col, !.pending_wrap = wrap, !.last_print = last])
    BY <1>1, <2>3
  <2> QED
    BY <2>1, <2>2, <2>4, DrawKept
<1>4. ASSUME NEW m, Kept(h, m), NEW width PROVE Kept(h, place_glyph(m, ch, width))
  <2>1. PICK row : row = CursorCells(m)
    OBVIOUS
  <2>2. PICK cells : cells = write_cells(row, m.col, width, Cell(<<ch>>, width > 1, m.pen, m.hyperlink))
    OBVIOUS
  <2>3. PICK start, end :
          /\ start = IF row[m.col].is_wide_continuation /\ m.col > 0 THEN m.col - 1 ELSE m.col
          /\ end = IF width > 1 /\ m.col + 2 < m.cols /\ row[m.col+1].is_wide THEN m.col + 3
                   ELSE IF width < 2 /\ m.col + 1 < m.cols /\ row[m.col].is_wide THEN m.col + 2
                   ELSE m.col + width
    OBVIOUS
  <2>4. PICK n : n = mark_range(SetCursorCells(m, cells), m.row, start, end)
    OBVIOUS
  <2>5. Kept(h, SetCursorCells(m, cells))
    BY <1>4, DrawKept
  <2>6. Kept(h, n)
    BY <2>4, <2>5, DrawKept
  <2>7. PICK after : after = Lesser(m.col + width, m.cols)
    OBVIOUS
  <2>8. PICK n2 : n2 = [n EXCEPT !.col = after, !.pending_wrap = (after = m.cols),
                                 !.last_print = <<m.row, after>>]
    OBVIOUS
  <2>9. Same(n, n2, {"col", "pending_wrap", "last_print"})
    BY <2>6, <2>8 DEF Kept, Same
  <2>10. {"alt", "primary", "scrollback"} \cap {"col", "pending_wrap", "last_print"} = {}
    OBVIOUS
  <2>11. place_glyph(m, ch, width) = n2
    BY <2>1, <2>2, <2>3, <2>4, <2>7, <2>8 DEF place_glyph
  <2> QED
    BY <2>6, <2>9, <2>10, <2>11, SameKept
<1>5. ASSUME NEW m, Kept(h, m) PROVE Kept(h, write_apart(m, ch))
  <2>1. PICK home : home = [m EXCEPT !.pending_wrap = FALSE, !.col = 0]
    OBVIOUS
  <2>2. Kept(h, home)
    BY <1>2, <1>5, <2>1
  <2>3. PICK wrapped : wrapped = IF m.pending_wrap /\ ~m.no_autowrap THEN newline_action(home, Soft) ELSE m
    OBVIOUS
  <2>4. Kept(h, wrapped)
    BY <1>5, <2>2, <2>3, ScrollKept
  <2>5. PICK col : col = Lesser(wrapped.col, m.cols - 1)
    OBVIOUS
  <2>6. PICK k2 : k2 = [wrapped EXCEPT !.pending_wrap = FALSE, !.col = col]
    OBVIOUS
  <2>7. Kept(h, k2)
    BY <1>2, <2>4, <2>6
  <2>8. write_apart(m, ch) \in {wrapped, place_glyph(k2, ch, char_width(ch))}
    BY <2>1, <2>3, <2>5, <2>6 DEF write_apart
  <2> QED
    BY <1>4, <2>4, <2>7, <2>8
<1>6. Kept(h, [k EXCEPT !.mutated = TRUE])
  BY SettingsKept
<1> QED
  BY <1>3, <1>5, <1>6 DEF write_char_at_cursor

(* C0 controls and control sequences.                                        *)
LEMMA ControlKept ==
  ASSUME NEW h, NEW k, Kept(h, k)
  PROVE  /\ \A byte : Kept(h, execute(k, byte))
         /\ \A action, p0, p1 : Kept(h, csi_dispatch(k, action, p0, p1))
<1>1. PICK free : free = clear_pending_wrap(k)
  OBVIOUS
<1>2. Kept(h, free)
  BY <1>1, SettingsKept
<1>3. \A byte : Kept(h, execute(k, byte))
  <2>1. \A wrap : Kept(h, newline_action(free, wrap))
    BY <1>2, ScrollKept
  <2>2. \A v : Kept(h, [free EXCEPT !.col = v]) /\ Kept(h, [k EXCEPT !.col = v])
    BY <1>2, SettingsKept
  <2>3. Kept(h, backspace(k))
    BY <1>1, <1>2, <2>2 DEF backspace
  <2>4. \A e : Kept(h, emit(k, e))
    BY DrawKept
  <2> QED
    BY <1>1, <2>1, <2>2, <2>3, <2>4 DEF execute
<1>4. \A action, p0, p1 : Kept(h, cursor_move(k, action, p0, p1))
  <2>1. \A r, c : Kept(h, move_to(free, r, c))
    BY <1>2, SettingsKept
  <2> QED
    BY <1>1, <2>1 DEF cursor_move
<1>5. \A p0, p1 : Kept(h, decstbm(k, p0, p1))
  <2> SUFFICES ASSUME NEW p0, NEW p1 PROVE Kept(h, decstbm(k, p0, p1))
    OBVIOUS
  <2>1. PICK top, bottom : decstbm(k, p0, p1)
          = [free EXCEPT !.scroll_top = top, !.scroll_bottom = bottom, !.row = 0, !.col = 0]
    BY <1>1 DEF decstbm
  <2>2. PICK m : m = [free EXCEPT !.scroll_top = top, !.scroll_bottom = bottom, !.row = 0, !.col = 0]
    OBVIOUS
  <2>3. Same(free, m, {"scroll_top", "scroll_bottom", "row", "col"})
    BY <1>2, <2>2 DEF Kept, Same
  <2>4. {"alt", "primary", "scrollback"} \cap {"scroll_top", "scroll_bottom", "row", "col"} = {}
    OBVIOUS
  <2> QED
    BY <1>2, <2>1, <2>2, <2>3, <2>4, SameKept
<1>6. \A e : Kept(h, emit(k, e))
  BY DrawKept
<1>7. \A p0 : Kept(h, kitty_push(k, p0)) /\ Kept(h, kitty_pop(k, p0)) /\ Kept(h, device_status(k, p0))
  <2>1. \A v, e : Kept(h, emit([k EXCEPT !.kitty = v], e))
    BY SettingsKept, DrawKept
  <2> QED
    BY <1>6, <2>1 DEF kitty_push, kitty_pop, device_status
<1>8. Kept(h, decstr(k))
  <2> DEFINE X == {"pen", "scroll_top", "scroll_bottom", "pending_wrap", "last_print", "col", "no_autowrap",
                   "saved_row", "saved_col", "modes"}
  <2>1. DOMAIN k = Fields
    BY DEF Kept
  <2>2. PICK reset : reset = [k EXCEPT !.pen = {}, !.scroll_top = 0, !.scroll_bottom = k.rows - 1]
    OBVIOUS
  <2>3. Same(k, reset, X)
    BY <2>1, <2>2 DEF Same
  <2>4. PICK wrapping : wrapping = restore_autowrap(reset)
    OBVIOUS
  <2>5. Same(reset, wrapping, X)
    <3>1. DOMAIN reset = Fields
      BY <2>3 DEF Same
    <3>2. Same(reset, reset, X)
      BY <3>1 DEF Same
    <3>3. Same(reset, [clear_pending_wrap(reset) EXCEPT !.no_autowrap = FALSE], X)
      BY <3>1 DEF Same, clear_pending_wrap
    <3> QED
      BY <2>4, <3>2, <3>3 DEF restore_autowrap
  <2>6. PICK modes : decstr(k) = [wrapping EXCEPT !.last_print = <<>>, !.saved_row = 0, !.saved_col = 0,
                                                  !.modes = modes]
    BY <2>2, <2>4 DEF decstr
  <2>7. PICK m : m = [wrapping EXCEPT !.last_print = <<>>, !.saved_row = 0, !.saved_col = 0,
                                      !.modes = modes]
    OBVIOUS
  <2>8. Same(wrapping, m, X)
    BY <2>5, <2>7 DEF Same
  <2>9. {"alt", "primary", "scrollback"} \cap X = {}
    OBVIOUS
  <2> HIDE DEF X
  <2>10. Kept(h, wrapping)
    BY <2>3, <2>5, <2>9, SameKept
  <2> QED
    BY <2>6, <2>7, <2>8, <2>9, <2>10, SameKept
<1>9. \A v : Kept(h, [k EXCEPT !.cursor_style = v])
  BY SettingsKept
<1>10. Kept(h, save_cursor(k)) /\ Kept(h, restore_saved_cursor(k))
  BY SettingsKept
<1>11. \A p0 : /\ Kept(h, ich(k, p0)) /\ Kept(h, dch(k, p0)) /\ Kept(h, ech(k, p0))
               /\ Kept(h, il(k, p0)) /\ Kept(h, dl(k, p0)) /\ Kept(h, sd(k, p0))
               /\ Kept(h, erase_display(k, p0)) /\ Kept(h, erase_line(k, p0))
  BY EraseKept
<1>12. \A count, wrap : Kept(h, scroll_up(k, count, wrap))
  BY ScrollKept
<1>13. \A action, p0, p1 : Kept(h, csi_dispatch(k, action, p0, p1))
  <2> SUFFICES ASSUME NEW action, NEW p0, NEW p1 PROVE Kept(h, csi_dispatch(k, action, p0, p1))
    OBVIOUS
  <2> QED
    BY <1>4, <1>5, <1>6, <1>7, <1>8, <1>9, <1>10, <1>11, <1>12 DEF csi_dispatch
<1> QED
  BY <1>3, <1>13

(* What a step may do to the primary screen and to history.                  *)
Isolated(h, k) ==
  h.alt /\ k.alt /\ k.rows = h.rows /\ k.cols = h.cols =>
    k.primary = h.primary /\ k.scrollback \in {h.scrollback, <<>>}

(* A step that touches neither, whatever it shows.                           *)
LEMMA SameIsolated ==
  ASSUME NEW h, NEW k, NEW X, Same(h, k, X), {"primary", "scrollback"} \cap X = {}
  PROVE  Isolated(h, k)
<1>1. k.primary = h.primary /\ k.scrollback = h.scrollback
  BY DEF Same, Fields
<1> QED
  BY <1>1 DEF Isolated

(* The modes: switching screens touches neither.                             *)
LEMMA ModeIsolated ==
  ASSUME NEW h, DOMAIN h = Fields, NEW mode, NEW on
  PROVE  Isolated(h, set_dec_mode(h, mode, on))
<1> DEFINE X == {"alt", "hyperlink", "dirty", "saved_row", "saved_col", "pending_wrap", "last_print",
                 "col", "row", "kitty", "events", "modes", "no_autowrap"}
<1>0. {"primary", "scrollback"} \cap X = {}
  OBVIOUS
<1>1. ASSUME NEW k, Same(h, k, X)
      PROVE  Same(h, set_alt_screen(k, on), X) /\ Same(h, set_alt_screen(k, TRUE), X)
             /\ Same(h, set_alt_screen(k, FALSE), X)
  BY <1>1 DEF Same, set_alt_screen, mark_all
<1>2. Same(h, h, X)
  BY DEF Same
<1>3. Same(h, alt_1049(h, on), X)
  <2>1. CASE on
    <3>1. PICK k : k = save_cursor(h)
      OBVIOUS
    <3>2. Same(h, k, X)
      BY <3>1 DEF Same, save_cursor
    <3>3. PICK m : m = set_alt_screen(k, TRUE)
      OBVIOUS
    <3>4. Same(h, m, X)
      BY <1>1, <3>2, <3>3
    <3>5. Same(h, clear_pending_wrap(m), X)
      BY <3>4 DEF Same, clear_pending_wrap
    <3> QED
      BY <2>1, <3>1, <3>3, <3>5 DEF alt_1049
  <2>2. CASE ~on
    <3>1. PICK k : k = set_alt_screen(h, FALSE)
      OBVIOUS
    <3>2. Same(h, k, X)
      BY <1>1, <1>2, <3>1
    <3>3. PICK left : left = restore_saved_cursor(k)
      OBVIOUS
    <3>4. Same(h, left, X)
      BY <3>2, <3>3 DEF Same, restore_saved_cursor
    <3>5. PICK events : events = left.events \o [i \in 1..Len(h.kitty) |-> <<"KittyPop">>]
      OBVIOUS
    <3>6. PICK m : m = [left EXCEPT !.kitty = <<>>, !.events = events]
      OBVIOUS
    <3>7. Same(h, m, X)
      BY <3>4, <3>6 DEF Same
    <3>8. alt_1049(h, on) = m
      BY <2>2, <3>1, <3>3, <3>5, <3>6 DEF alt_1049
    <3> QED
      BY <3>7, <3>8
  <2> QED
    BY <2>1, <2>2
<1>4. \A v : Same(h, [h EXCEPT !.modes = v], X) /\ Same(h, [h EXCEPT !.no_autowrap = v], X)
  BY DEF Same
<1>5. \A v, e : Same(h, emit([h EXCEPT !.modes = v], e), X)
  BY DEF Same, emit
<1> HIDE DEF X
<1>6. \A v : Isolated(h, [h EXCEPT !.modes = v]) /\ Isolated(h, [h EXCEPT !.no_autowrap = v])
  BY <1>0, <1>4, SameIsolated
<1>7. \A v, e : Isolated(h, emit([h EXCEPT !.modes = v], e))
  BY <1>0, <1>5, SameIsolated
<1>8. Isolated(h, h) /\ Isolated(h, set_alt_screen(h, on)) /\ Isolated(h, alt_1049(h, on))
  BY <1>0, <1>1, <1>2, <1>3, SameIsolated
<1>9. /\ Isolated(h, emit([h EXCEPT !.modes.application_cursor = on], <<"ApplicationCursorKeys">>))
      /\ Isolated(h, emit([h EXCEPT !.modes.focus_events = on], <<"FocusEvents">>))
      /\ Isolated(h, emit([h EXCEPT !.modes.bracketed_paste = on], <<"BracketedPaste">>))
  BY <1>7
<1>10. /\ Isolated(h, [h EXCEPT !.modes.text_cursor_enable = IF on THEN "on" ELSE "off"])
       /\ Isolated(h, [h EXCEPT !.modes.hide_cursor = ~on])
       /\ Isolated(h, [h EXCEPT !.modes.mouse_mode = IF on THEN mode ELSE 0])
       /\ Isolated(h, [h EXCEPT !.modes.mouse_encoding = IF on THEN mode ELSE 0])
       /\ Isolated(h, [h EXCEPT !.modes.synchronized_update = on])
       /\ Isolated(h, [h EXCEPT !.no_autowrap = ~on])
  BY <1>6
<1> QED
  BY <1>8, <1>9, <1>10 DEF set_dec_mode

(* One sequence.                                                             *)
LEMMA PerformIsolated ==
  ASSUME NEW h, Good(h), NEW seq
  PROVE  Isolated(h, perform(h, seq))
<1>1. PICK k : k = Drained(h)
  OBVIOUS
<1>2. Good(k) /\ Same(h, k, {"dirty", "scroll_ops", "events"}) /\ DOMAIN k = Fields
  BY <1>1, DrainedOK DEF Good, Shape
<1>3. /\ k.rows = h.rows /\ k.cols = h.cols /\ k.alt = h.alt
      /\ k.primary = h.primary /\ k.scrollback = h.scrollback
  BY <1>2 DEF Same, Fields
<1>4. ASSUME NEW m, Isolated(k, m) PROVE Isolated(h, m)
  BY <1>3, <1>4 DEF Isolated
<1>5. Kept(h, k)
  BY <1>2, <1>3 DEF Kept
<1>6. ASSUME NEW m, Kept(h, m) PROVE Isolated(h, m)
  BY <1>6 DEF Kept, Isolated
<1>7. Isolated(h, write_char_at_cursor(k, seq[2]))
  BY <1>5, <1>6, PrintKept
<1>8. Isolated(h, execute(k, seq[2])) /\ Isolated(h, csi_dispatch(k, seq[2], seq[3], seq[4]))
  BY <1>5, <1>6, ControlKept
<1>9. Isolated(h, [k EXCEPT !.pen = apply_sgr(@, seq[2])])
  BY <1>5, <1>6, SettingsKept
<1>10. Isolated(h, set_dec_mode(k, seq[2], seq[3]))
  BY <1>2, <1>4, ModeIsolated
<1>11. Isolated(h, esc_dispatch(k, seq[2]))
  <2>1. \A v : Kept(h, [k EXCEPT !.modes = v])
    BY <1>5, SettingsKept
  <2>2. Kept(h, [k EXCEPT !.modes.application_keypad = TRUE])
        /\ Kept(h, [k EXCEPT !.modes.application_keypad = FALSE])
    BY <2>1
  <2>3. Kept(h, save_cursor(k)) /\ Kept(h, restore_saved_cursor(k))
    BY <1>5, SettingsKept
  <2>4. Kept(h, reverse_index(k))
    <3>1. PICK free : free = clear_pending_wrap(k)
      OBVIOUS
    <3>2. Kept(h, free)
      BY <1>5, <3>1, SettingsKept
    <3>3. \A v : Kept(h, [free EXCEPT !.row = v])
      BY <3>2, SettingsKept
    <3>4. \A op, s : Kept(h, SetActive(record_scroll(free, op), s))
      BY <3>2, DrawKept
    <3>5. \A op, s : Kept(h, mark_all(SetActive(record_scroll(free, op), s)))
      BY <3>4, DrawKept
    <3> QED
      BY <3>1, <3>3, <3>5 DEF reverse_index
  <2>5. Isolated(h, ris(k))
    <3>1. ~ris(k).alt
      BY <1>2 DEF ris, mark_all, reset_modes, Fields
    <3> QED
      BY <3>1 DEF Isolated
  <2> QED
    BY <1>5, <1>6, <2>2, <2>3, <2>4, <2>5 DEF esc_dispatch
<1>12. Isolated(h, osc_dispatch(k, seq[2], seq[3]))
  <2>1. \A v : Kept(h, [k EXCEPT !.hyperlink = v])
    BY <1>5, SettingsKept
  <2>2. \A e : Kept(h, emit(k, e))
    BY <1>5, DrawKept
  <2> QED
    BY <1>5, <1>6, <2>1, <2>2 DEF osc_dispatch
<1> QED
  BY <1>1, <1>7, <1>8, <1>9, <1>10, <1>11, <1>12 DEF perform

(* A resize to the same size touches nothing.                                *)
LEMMA SetSizeIsolated ==
  ASSUME NEW h, DOMAIN h = Fields, NEW rows1, NEW cols1
  PROVE  Isolated(h, set_size(h, rows1, cols1))
<1>1. PICK k : k = set_size(h, rows1, cols1)
  OBVIOUS
<1>2. PICK rows, cols : rows = Greater(rows1, 1) /\ cols = Greater(cols1, 1)
  OBVIOUS
<1>3. /\ k.rows = rows /\ k.cols = cols /\ k.scrollback = h.scrollback
      /\ k.primary = resize_screen(h.primary, h.rows, h.cols, rows, cols)
  BY <1>1, <1>2 DEF set_size, mark_all, clear_pending_wrap, Fields
<1>4. rows = h.rows /\ cols = h.cols => k.primary = h.primary
  BY <1>3 DEF resize_screen
<1> QED
  BY <1>1, <1>3, <1>4 DEF Isolated

(* As long as the alternate screen is shown, no sequence and no call but a   *)
(* clear of the history, a reset or a resize reaches the primary screen or   *)
(* the scrollback.                                                           *)
THEOREM AlternateLeavesNoTrace == Spec => AlternateIsolated
<1>1. GridInv /\ [Next]_termvars => [Isolated(g, g')]_termvars
  <2> SUFFICES ASSUME GridInv, Next PROVE Isolated(g, g')
    OBVIOUS
  <2>0. Good(g)
    BY DEF GridInv
  <2>1. PICK k : k = Drained(g)
    OBVIOUS
  <2>2. Same(g, k, {"dirty", "scroll_ops", "events"}) /\ DOMAIN k = Fields
    BY <2>0, <2>1, DrainedOK DEF Same
  <2>3. /\ k.rows = g.rows /\ k.cols = g.cols /\ k.alt = g.alt
        /\ k.primary = g.primary /\ k.scrollback = g.scrollback
    BY <2>2 DEF Same, Fields
  <2>4. Kept(g, k)
    BY <2>2, <2>3 DEF Kept
  <2>5. ASSUME NEW m, Kept(g, m) PROVE Isolated(g, m)
    BY <2>5 DEF Kept, Isolated
  <2>6. ASSUME NEW kind, Feeds(kind) PROVE Isolated(g, g')
    BY <2>0, <2>6, PerformIsolated DEF Feeds, Step
  <2>7. CASE FeedText \/ FeedControl \/ FeedCsi \/ FeedSgr \/ FeedMode \/ FeedEsc \/ FeedOsc
    BY <2>6, <2>7 DEF FeedText, FeedControl, FeedCsi, FeedSgr, FeedMode, FeedEsc, FeedOsc
  <2>8. CASE SetSize
    <3>1. PICK s : g' = set_size(k, s[1], s[2])
      BY <2>1, <2>8 DEF SetSize, Step
    <3>2. Isolated(k, g')
      BY <2>2, <3>1, SetSizeIsolated
    <3> QED
      BY <2>3, <3>2 DEF Isolated
  <2>9. CASE SetScrollback
    <3>1. PICK o : g' = set_scrollback(k, o)
      BY <2>1, <2>9 DEF SetScrollback, Step
    <3>2. Kept(g, set_scrollback(k, o))
      BY <2>4, SettingsKept DEF set_scrollback
    <3> QED
      BY <2>5, <3>1, <3>2
  <2>10. CASE ClearScrollback
    <3>1. Kept(g, clear_scrollback(k))
      BY <2>4, ScrollKept
    <3> QED
      BY <2>1, <2>5, <2>10, <3>1 DEF ClearScrollback, Step
  <2>11. CASE ClearKittyStack
    <3>1. Kept(g, clear_kitty_kb_stack(k))
      BY <2>4, SettingsKept DEF clear_kitty_kb_stack
    <3> QED
      BY <2>1, <2>5, <2>11, <3>1 DEF ClearKittyStack, Step
  <2>12. CASE SetErasePolicy
    <3>1. PICK p : g' = set_erase_display_policy(k, p)
      BY <2>1, <2>12 DEF SetErasePolicy, Step
    <3>2. Kept(g, set_erase_display_policy(k, p))
      BY <2>4, SettingsKept DEF set_erase_display_policy
    <3> QED
      BY <2>5, <3>1, <3>2
  <2>13. CASE Done
    BY <2>13 DEF Done, termvars, Isolated
  <2> QED
    BY <2>7, <2>8, <2>9, <2>10, <2>11, <2>12, <2>13 DEF Next
<1>2. [Isolated(g, g')]_termvars
        => [ g.alt /\ g'.alt /\ g'.rows = g.rows /\ g'.cols = g.cols =>
               /\ g'.primary = g.primary
               /\ g'.scrollback \in {g.scrollback, <<>>} ]_termvars
  BY DEF Isolated
<1> QED
  BY <1>1, <1>2, GridInit, GridStep, PTL DEF Spec, AlternateIsolated

-----------------------------------------------------------------------------
(* What a renderer is told: the recorded scroll operations and the damage.   *)

(* The rows of h's screen as a recorded operation leaves them.               *)
Scrolled(h, op) ==
  IF op.dir = "Up"
  THEN shift_up(active_grid(h), op.top, op.bottom, op.rows, h.cols, Hard).cells
  ELSE shift_down(active_grid(h), op.top, op.bottom, op.rows, h.cols).cells

(* The operations that k records account for each of its rows, and its       *)
(* damage for each of its cells, but for those of the cursor's row.          *)
Told(h, k) ==
  \A i \in 1..Len(k.scroll_ops) :
    k.scroll_ops[i].top < k.scroll_ops[i].bottom =>
      \A r \in DOMAIN active_grid(k).cells :
        r = k.row \/ active_grid(k).cells[r] = Scrolled(h, k.scroll_ops[i])[r]
Marked(h, k) ==
  k.rows = h.rows /\ k.cols = h.cols =>
    \A r \in 0..h.rows-1, c \in 0..h.cols-1 :
      \/ active_grid(k).cells[r][c] = active_grid(h).cells[r][c]
      \/ <<r, c>> \in k.dirty
      \/ r = k.row
Explains(h, k) == Told(h, k) /\ Marked(h, k)

(* A grid whose screen has rows; one that shows the cells h shows; one that  *)
(* differs from h in the cursor's row alone.                                 *)
Drawn(k) == DOMAIN k = Fields /\ "cells" \in DOMAIN active_grid(k)
Still(h, k) ==
  /\ Drawn(k) /\ k.rows = h.rows /\ k.cols = h.cols
  /\ k.scroll_ops = h.scroll_ops /\ active_grid(k).cells = active_grid(h).cells
Local(h, k) ==
  /\ Drawn(k) /\ k.rows = h.rows /\ k.cols = h.cols /\ k.row = h.row
  /\ k.scroll_ops = h.scroll_ops /\ h.dirty \subseteq k.dirty
  /\ DOMAIN active_grid(k).cells = DOMAIN active_grid(h).cells
  /\ \A r \in DOMAIN active_grid(h).cells :
       r = h.row \/ active_grid(k).cells[r] = active_grid(h).cells[r]

(* A good grid.                                                              *)
LEMMA GoodDrawn ==
  ASSUME NEW h, Good(h)
  PROVE  Drawn(h) /\ Still(h, h) /\ Local(h, h) /\ DOMAIN active_grid(h).cells = 0..h.rows-1
<1>1. Shape(h)
  BY DEF Good
<1>2. ScreenOK(active_grid(h), SizeOf(h)) /\ SizeOf(h)[1] = h.rows /\ DOMAIN h = Fields
  BY <1>1, ShapeReads
<1>3. Drawn(h) /\ DOMAIN active_grid(h).cells = 0..h.rows-1
  BY <1>2 DEF Drawn, ScreenOK
<1> QED
  BY <1>3 DEF Still, Local

(* Where nothing moved there is nothing to tell.                             *)
LEMMA StillExplains ==
  ASSUME NEW h, h.scroll_ops = <<>>, NEW k, Still(h, k)
  PROVE  Explains(h, k)
<1>1. Told(h, k)
  <2>1. k.scroll_ops = <<>>
    BY DEF Still
  <2>2. 1..Len(k.scroll_ops) = {}
    BY <2>1
  <2> QED
    BY <2>2 DEF Told
<1>2. Marked(h, k)
  BY DEF Still, Marked
<1> QED
  BY <1>1, <1>2 DEF Explains

(* What follows in the cursor's row needs no telling.                        *)
LEMMA LocalExplains ==
  ASSUME NEW h, NEW k, Explains(h, k), NEW m, Local(k, m), DOMAIN active_grid(k).cells = 0..k.rows-1
  PROVE  Explains(h, m)
<1>1. Told(h, m)
  <2>1. Told(h, k)
    BY DEF Explains
  <2>2. m.scroll_ops = k.scroll_ops /\ m.row = k.row
    BY DEF Local
  <2>3. PICK ops : ops = m.scroll_ops
    OBVIOUS
  <2> SUFFICES ASSUME NEW i \in 1..Len(ops), ops[i].top < ops[i].bottom,
                      NEW r \in DOMAIN active_grid(m).cells, r # m.row
               PROVE  active_grid(m).cells[r] = Scrolled(h, ops[i])[r]
    BY <2>3 DEF Told
  <2>4. r \in DOMAIN active_grid(k).cells /\ active_grid(m).cells[r] = active_grid(k).cells[r]
    BY <2>2 DEF Local
  <2>5. active_grid(k).cells[r] = Scrolled(h, ops[i])[r]
    BY <2>1, <2>2, <2>3, <2>4 DEF Told
  <2> QED
    BY <2>4, <2>5
<1>2. Marked(h, m)
  <2> SUFFICES ASSUME m.rows = h.rows, m.cols = h.cols,
                      NEW r \in 0..h.rows-1, NEW c \in 0..h.cols-1, r # m.row,
                      active_grid(m).cells[r][c] # active_grid(h).cells[r][c]
               PROVE  <<r, c>> \in m.dirty
    BY DEF Marked
  <2>1. /\ k.rows = h.rows /\ k.cols = h.cols /\ k.row = m.row /\ k.dirty \subseteq m.dirty
        /\ r \in DOMAIN active_grid(k).cells
    BY DEF Local
  <2>2. active_grid(m).cells[r] = active_grid(k).cells[r]
    BY <2>1 DEF Local
  <2>3. <<r, c>> \in k.dirty
    BY <2>1, <2>2 DEF Explains, Marked
  <2> QED
    BY <2>1, <2>3
<1> QED
  BY <1>1, <1>2 DEF Explains

(* Where everything is marked and nothing was recorded.                      *)
LEMMA RepaintExplains ==
  ASSUME NEW h, NEW k, DOMAIN k = Fields, k.scroll_ops = <<>>, k.dirty = (0..k.rows-1) \X (0..k.cols-1)
  PROVE  Explains(h, k)
<1>1. 1..Len(k.scroll_ops) = {}
  OBVIOUS
<1>2. Told(h, k)
  BY <1>1 DEF Told
<1> QED
  BY <1>2 DEF Explains, Marked

(* mark_all, and what may follow it.                                         *)
LEMMA MarkAllReads ==
  ASSUME NEW k, DOMAIN k = Fields
  PROVE  LET m == mark_all(k) IN
         /\ Same(k, m, {"dirty"}) /\ m.dirty = (0..m.rows-1) \X (0..m.cols-1)
         /\ m.scroll_ops = k.scroll_ops /\ m.rows = k.rows /\ m.cols = k.cols /\ m.row = k.row
         /\ active_grid(m) = active_grid(k)
<1>1. PICK m : m = mark_all(k)
  OBVIOUS
<1>2. Same(k, m, {"dirty"}) /\ m.dirty = (0..k.rows-1) \X (0..k.cols-1)
  BY <1>1 DEF mark_all, Same, Fields
<1>3. /\ m.scroll_ops = k.scroll_ops /\ m.rows = k.rows /\ m.cols = k.cols /\ m.row = k.row
      /\ m.alt = k.alt /\ m.primary = k.primary /\ m.alternate = k.alternate
  BY <1>2 DEF Same, Fields
<1> QED
  BY <1>1, <1>2, <1>3 DEF active_grid

ShownFields == {"rows", "cols", "alt", "primary", "alternate", "scroll_ops"}

(* A field that the screen is not made of.                                   *)
LEMMA SameStill ==
  ASSUME NEW h, NEW k, Still(h, k), NEW m, NEW X, Same(k, m, X), ShownFields \cap X = {}
  PROVE  Still(h, m)
<1>1. ShownFields \subseteq Fields \ X
  BY DEF ShownFields, Fields
<1>2. /\ m.rows = k.rows /\ m.cols = k.cols /\ m.alt = k.alt /\ m.primary = k.primary
      /\ m.alternate = k.alternate /\ m.scroll_ops = k.scroll_ops
  BY <1>1 DEF Same, ShownFields
<1>3. active_grid(m) = active_grid(k)
  BY <1>2 DEF active_grid
<1> QED
  BY <1>2, <1>3 DEF Still, Drawn, Same

(* One at a time.                                                            *)
LEMMA FieldStill ==
  ASSUME NEW h, NEW k, Still(h, k), NEW x \in Fields \ ShownFields, NEW v
  PROVE  Still(h, [k EXCEPT ![x] = v])
<1>1. PICK m : m = [k EXCEPT ![x] = v]
  OBVIOUS
<1>2. DOMAIN k = Fields
  BY DEF Still, Drawn
<1>3. Same(k, m, {x})
  BY <1>1, <1>2 DEF Same
<1>4. ShownFields \cap {x} = {}
  OBVIOUS
<1> QED
  BY <1>1, <1>3, <1>4, SameStill

(* The same, where the cursor's row and the damage are not touched either.   *)
LEMMA SameLocal ==
  ASSUME NEW h, NEW k, Local(h, k), NEW m, NEW X, Same(k, m, X),
         (ShownFields \cup {"row", "dirty"}) \cap X = {}
  PROVE  Local(h, m)
<1>1. ShownFields \cup {"row", "dirty"} \subseteq Fields \ X
  BY DEF ShownFields, Fields
<1>2. /\ m.rows = k.rows /\ m.cols = k.cols /\ m.alt = k.alt /\ m.primary = k.primary
      /\ m.alternate = k.alternate /\ m.scroll_ops = k.scroll_ops /\ m.row = k.row /\ m.dirty = k.dirty
  BY <1>1 DEF Same, ShownFields
<1>3. active_grid(m) = active_grid(k)
  BY <1>2 DEF active_grid
<1> QED
  BY <1>2, <1>3 DEF Local, Drawn, Same

(* A new screen, and the cells it shows.                                     *)
LEMMA SetActiveReads ==
  ASSUME NEW k, DOMAIN k = Fields, NEW s
  PROVE  LET m == SetActive(k, s) IN
         Same(k, m, {"primary", "alternate"}) /\ m.alt = k.alt /\ active_grid(m) = s
<1>1. PICK m : m = SetActive(k, s)
  OBVIOUS
<1>2. /\ Same(k, m, {"primary", "alternate"}) /\ m.alt = k.alt
      /\ m.primary = (IF k.alt THEN k.primary ELSE s) /\ m.alternate = (IF k.alt THEN s ELSE k.alternate)
  BY <1>1 DEF Same, Fields, SetActive
<1> QED
  BY <1>1, <1>2 DEF active_grid

(* Writing the cursor's row and marking spans.                               *)
LEMMA DrawLocal ==
  ASSUME NEW h, NEW k, Local(h, k)
  PROVE  /\ \A row : Local(h, SetCursorCells(k, row))
         /\ \A row, a, b : Local(h, mark_range(k, row, a, b))
<1>0. DOMAIN k = Fields /\ "cells" \in DOMAIN active_grid(k)
  BY DEF Local, Drawn
<1>1. \A row : Local(h, SetCursorCells(k, row))
  <2> SUFFICES ASSUME NEW row PROVE Local(h, SetCursorCells(k, row))
    OBVIOUS
  <2>1. PICK screen : screen = active_grid(k)
    OBVIOUS
  <2>2. PICK s : s = [screen EXCEPT !.cells = [@ EXCEPT ![k.row] = row]]
    OBVIOUS
  <2>3. /\ "cells" \in DOMAIN s /\ DOMAIN s.cells = DOMAIN screen.cells
        /\ \A r \in DOMAIN screen.cells : r = k.row \/ s.cells[r] = screen.cells[r]
    BY <1>0, <2>1, <2>2
  <2>4. PICK m : m = SetActive(k, s)
    OBVIOUS
  <2>5. Same(k, m, {"primary", "alternate"}) /\ active_grid(m) = s
    BY <1>0, <2>4, SetActiveReads
  <2>6. m.rows = k.rows /\ m.cols = k.cols /\ m.row = k.row /\ m.scroll_ops = k.scroll_ops
        /\ m.dirty = k.dirty /\ DOMAIN m = Fields
    BY <2>5 DEF Same, Fields
  <2>7. Local(h, m)
    BY <2>1, <2>3, <2>5, <2>6 DEF Local, Drawn
  <2> QED
    BY <2>1, <2>2, <2>4, <2>7 DEF SetCursorCells
<1>2. \A row, a, b : Local(h, mark_range(k, row, a, b))
  <2> SUFFICES ASSUME NEW d, k.dirty \subseteq d PROVE Local(h, [k EXCEPT !.dirty = d])
    <3>1. \A d : k.dirty \subseteq k.dirty \cup d
      OBVIOUS
    <3> QED
      BY <3>1 DEF mark_range
  <2>1. PICK m : m = [k EXCEPT !.dirty = d]
    OBVIOUS
  <2>2. Same(k, m, {"dirty"}) /\ m.dirty = d
    BY <1>0, <2>1 DEF Same, Fields
  <2>3. /\ m.scroll_ops = k.scroll_ops /\ m.rows = k.rows /\ m.cols = k.cols /\ m.row = k.row
        /\ m.alt = k.alt /\ m.primary = k.primary /\ m.alternate = k.alternate
    BY <2>2 DEF Same, Fields
  <2>4. active_grid(m) = active_grid(k)
    BY <2>3 DEF active_grid
  <2> QED
    BY <2>1, <2>2, <2>3, <2>4 DEF Local, Drawn, Same
<1> QED
  BY <1>1, <1>2

(* The cursor, the pen, the modes and history.                               *)
LEMMA SettingsStill ==
  ASSUME NEW h, NEW k, Still(h, k)
  PROVE  /\ Still(h, clear_pending_wrap(k)) /\ Still(h, save_cursor(k)) /\ Still(h, restore_saved_cursor(k))
         /\ \A r, c : Still(h, move_to(k, r, c))
         /\ \A v : /\ Still(h, [k EXCEPT !.kitty = v]) /\ Still(h, [k EXCEPT !.modes = v])
                   /\ Still(h, [k EXCEPT !.pen = v]) /\ Still(h, [k EXCEPT !.cursor_style = v])
                   /\ Still(h, [k EXCEPT !.hyperlink = v]) /\ Still(h, [k EXCEPT !.no_autowrap = v])
                   /\ Still(h, [k EXCEPT !.erase_policy = v]) /\ Still(h, [k EXCEPT !.mutated = v])
                   /\ Still(h, [k EXCEPT !.col = v]) /\ Still(h, [k EXCEPT !.row = v])
                   /\ Still(h, [k EXCEPT !.scrollback_offset = v])
         /\ \A e : Still(h, emit(k, e))
         /\ Still(h, clear_scrollback(k))
<1>0. DOMAIN k = Fields
  BY DEF Still, Drawn
<1> DEFINE X == {"pending_wrap", "last_print", "col", "row", "saved_row", "saved_col",
                 "scrollback", "scrollback_offset"}
<1>1. ShownFields \cap X = {}
  BY DEF ShownFields
<1>2. Same(k, clear_pending_wrap(k), X)
  BY <1>0 DEF Same, Fields, clear_pending_wrap
<1>3. Same(k, save_cursor(k), X)
  BY <1>0 DEF Same, Fields, save_cursor
<1>4. Same(k, restore_saved_cursor(k), X)
  BY <1>0 DEF Same, Fields, restore_saved_cursor
<1>5. \A r, c : Same(k, move_to(k, r, c), X)
  BY <1>0 DEF Same, Fields, move_to
<1>6. Same(k, clear_scrollback(k), X)
  BY <1>0 DEF Same, Fields, clear_scrollback
<1> HIDE DEF X
<1>7. /\ Still(h, clear_pending_wrap(k)) /\ Still(h, save_cursor(k)) /\ Still(h, restore_saved_cursor(k))
      /\ \A r, c : Still(h, move_to(k, r, c))
      /\ Still(h, clear_scrollback(k))
  BY <1>1, <1>2, <1>3, <1>4, <1>5, <1>6, SameStill
<1>8. {"kitty", "modes", "pen", "cursor_style", "hyperlink", "no_autowrap", "erase_policy", "mutated",
       "col", "row", "scrollback_offset", "events"} \subseteq Fields \ ShownFields
  BY DEF Fields, ShownFields
<1>9. \A e : Still(h, emit(k, e))
  BY <1>8, FieldStill DEF emit
<1> QED
  BY <1>7, <1>8, <1>9, FieldStill

(* An operation recorded as it is carried out.                               *)
LEMMA ShiftExplains ==
  ASSUME NEW h, h.scroll_ops = <<>>, NEW k, Still(h, k), NEW op, NEW s,
         "cells" \in DOMAIN s, s.cells = Scrolled(h, op)
  PROVE  Explains(h, mark_all(SetActive(record_scroll(k, op), s)))
<1>0. DOMAIN k = Fields /\ k.scroll_ops = <<>>
  BY DEF Still, Drawn
<1>1. PICK a : a = record_scroll(k, op)
  OBVIOUS
<1>2. DOMAIN a = Fields /\ a.scroll_ops = <<op>> /\ a.rows = k.rows /\ a.cols = k.cols
  BY <1>0, <1>1 DEF record_scroll, Fields
<1>3. PICK b : b = SetActive(a, s)
  OBVIOUS
<1>4. Same(a, b, {"primary", "alternate"}) /\ active_grid(b) = s
  BY <1>2, <1>3, SetActiveReads
<1>5. DOMAIN b = Fields /\ b.scroll_ops = <<op>>
  BY <1>2, <1>4 DEF Same, Fields
<1>6. PICK m : m = mark_all(b)
  OBVIOUS
<1>7. m.scroll_ops = <<op>> /\ active_grid(m) = s /\ m.dirty = (0..m.rows-1) \X (0..m.cols-1)
  BY <1>4, <1>5, <1>6, MarkAllReads
<1>8. Told(h, m)
  <2>1. \A i \in 1..Len(m.scroll_ops) : m.scroll_ops[i] = op
    BY <1>7
  <2> QED
    BY <1>7, <2>1 DEF Told
<1>9. Marked(h, m)
  BY <1>7 DEF Marked
<1> QED
  BY <1>1, <1>3, <1>6, <1>8, <1>9 DEF Explains

(* The rows that an operation says, whatever wrap the new ones get.          *)
LEMMA ScrolledRows ==
  ASSUME NEW h, NEW k, Still(h, k), NEW op, NEW wrap
  PROVE  LET up   == shift_up(active_grid(k), op.top, op.bottom, op.rows, k.cols, wrap)
             down == shift_down(active_grid(k), op.top, op.bottom, op.rows, k.cols)
         IN /\ "cells" \in DOMAIN up /\ (op.dir = "Up" => up.cells = Scrolled(h, op))
            /\ "cells" \in DOMAIN down /\ (op.dir = "Down" => down.cells = Scrolled(h, op))
<1>1. PICK screen, was : screen = active_grid(k) /\ was = active_grid(h)
  OBVIOUS
<1>2. screen.cells = was.cells /\ k.cols = h.cols
  BY <1>1 DEF Still
<1>3. PICK top, bottom, n : top = op.top /\ bottom = op.bottom /\ n = op.rows
  OBVIOUS
<1>4. shift_up(screen, top, bottom, n, h.cols, wrap).cells = shift_up(was, top, bottom, n, h.cols, Hard).cells
  BY <1>2 DEF shift_up
<1>5. shift_down(screen, top, bottom, n, h.cols).cells = shift_down(was, top, bottom, n, h.cols).cells
  BY <1>2 DEF shift_down
<1>6. op.dir = "Up" => Scrolled(h, op) = shift_up(was, top, bottom, n, h.cols, Hard).cells
  BY <1>1, <1>3 DEF Scrolled
<1>7. op.dir = "Down" => Scrolled(h, op) = shift_down(was, top, bottom, n, h.cols).cells
  BY <1>1, <1>3 DEF Scrolled
<1>8. /\ "cells" \in DOMAIN shift_up(screen, top, bottom, n, h.cols, wrap)
      /\ "cells" \in DOMAIN shift_down(screen, top, bottom, n, h.cols)
  BY DEF shift_up, shift_down
<1> QED
  BY <1>1, <1>2, <1>3, <1>4, <1>5, <1>6, <1>7, <1>8

(* SU and the scroll of a line feed.  The region is marked; one of a single  *)
(* row is recorded and does not move.                                        *)
LEMMA ScrollUpExplains ==
  ASSUME NEW h, Good(h), h.scroll_ops = <<>>, NEW k, Good(k), Still(h, k), NEW count, NEW wrap
  PROVE  Explains(h, scroll_up(k, count, wrap))
<1>0. DOMAIN k = Fields /\ k.scroll_ops = <<>> /\ k.rows = h.rows /\ k.cols = h.cols
  BY DEF Still, Drawn
<1>1. PICK top, bottom, n : /\ top = k.scroll_top /\ bottom = k.scroll_bottom
                            /\ n = Lesser(count, bottom - top + 1)
  OBVIOUS
<1>2. top \in Nat /\ bottom \in Nat /\ top <= bottom /\ h.rows \in Nat
  BY <1>0, <1>1, GoodReads
<1>3. PICK screen : screen = active_grid(k)
  OBVIOUS
<1>4. PICK leaving : leaving =
        [i \in 1..n |-> [cells |-> screen.cells[top+i-1], wrap |-> screen.wraps[top+i-1]]]
  OBVIOUS
<1>5. PICK op : op = ScrollOp("Up", top, bottom, n)
  OBVIOUS
<1>6. op.top = top /\ op.bottom = bottom /\ op.rows = n /\ op.dir = "Up"
  BY <1>5 DEF ScrollOp
<1>7. PICK recorded : recorded = record_scroll([k EXCEPT !.mutated = TRUE], op)
  OBVIOUS
<1>8. Same(k, recorded, {"mutated", "scroll_ops"}) /\ recorded.scroll_ops = <<op>>
  <2>1. PICK a : a = [k EXCEPT !.mutated = TRUE]
    OBVIOUS
  <2>2. DOMAIN a = Fields /\ a.scroll_ops = <<>> /\ Same(k, a, {"mutated"})
    BY <1>0, <2>1 DEF Same, Fields
  <2>3. recorded = [a EXCEPT !.scroll_ops = Append(a.scroll_ops, op)]
    BY <1>7, <2>1 DEF record_scroll
  <2>4. Same(a, recorded, {"scroll_ops"}) /\ recorded.scroll_ops = Append(a.scroll_ops, op)
    BY <2>2, <2>3 DEF Same, Fields
  <2>5. Append(a.scroll_ops, op) = <<op>>
    BY <2>2
  <2> QED
    BY <2>2, <2>4, <2>5 DEF Same
<1>9. PICK fed : fed = IF top < bottom /\ ~k.alt /\ top = 0 /\ k.scrollback_limit > 0
                       THEN push_scrollback(recorded, leaving) ELSE recorded
  OBVIOUS
<1>10. Same(recorded, fed, {"scrollback"})
  <2>1. DOMAIN recorded = Fields
    BY <1>8 DEF Same
  <2>2. Same(recorded, recorded, {"scrollback"})
    BY <2>1 DEF Same
  <2>3. \A q : Same(recorded, [recorded EXCEPT !.scrollback = q], {"scrollback"})
    BY <2>1 DEF Same
  <2>4. Same(recorded, push_scrollback(recorded, leaving), {"scrollback"})
    BY <2>3 DEF push_scrollback
  <2> QED
    BY <1>9, <2>2, <2>4
<1>11. /\ DOMAIN fed = Fields /\ fed.scroll_ops = <<op>> /\ fed.rows = k.rows /\ fed.cols = k.cols
       /\ active_grid(fed) = screen
  <2>1. DOMAIN fed = Fields /\ fed.scroll_ops = recorded.scroll_ops /\ fed.rows = recorded.rows
        /\ fed.cols = recorded.cols /\ fed.alt = recorded.alt /\ fed.primary = recorded.primary
        /\ fed.alternate = recorded.alternate
    BY <1>10 DEF Same, Fields
  <2>2. recorded.rows = k.rows /\ recorded.cols = k.cols /\ recorded.alt = k.alt
        /\ recorded.primary = k.primary /\ recorded.alternate = k.alternate
    BY <1>8 DEF Same, Fields
  <2> QED
    BY <1>3, <1>8, <2>1, <2>2 DEF active_grid
<1>12. PICK shifted : shifted = shift_up(screen, top, bottom, n, k.cols, wrap)
  OBVIOUS
<1>13. shifted.cells = Scrolled(h, op)
  <2>1. shift_up(active_grid(k), op.top, op.bottom, op.rows, k.cols, wrap).cells = Scrolled(h, op)
    BY <1>6, ScrolledRows
  <2> QED
    BY <1>3, <1>6, <1>12, <2>1
<1>14. PICK moved : moved = IF top >= bottom THEN fed ELSE SetActive(fed, shifted)
  OBVIOUS
<1>15. /\ DOMAIN moved = Fields /\ moved.scroll_ops = <<op>> /\ moved.rows = k.rows /\ moved.cols = k.cols
       /\ active_grid(moved) = IF top >= bottom THEN screen ELSE shifted
  <2>1. PICK b : b = SetActive(fed, shifted)
    OBVIOUS
  <2>2. Same(fed, b, {"primary", "alternate"}) /\ active_grid(b) = shifted
    BY <1>11, <2>1, SetActiveReads
  <2>3. DOMAIN b = Fields /\ b.scroll_ops = <<op>> /\ b.rows = k.rows /\ b.cols = k.cols
    BY <1>11, <2>2 DEF Same, Fields
  <2> QED
    BY <1>11, <1>14, <2>1, <2>2, <2>3
<1>16. PICK region : region = (top..bottom) \X (0..k.cols-1)
  OBVIOUS
<1>17. PICK m : m = [moved EXCEPT !.dirty = @ \cup region]
  OBVIOUS
<1>18. /\ m.scroll_ops = <<op>> /\ m.rows = h.rows /\ m.cols = h.cols /\ region \subseteq m.dirty
       /\ active_grid(m) = IF top >= bottom THEN screen ELSE shifted
  <2>1. m.scroll_ops = moved.scroll_ops /\ m.rows = moved.rows /\ m.cols = moved.cols
        /\ m.dirty = moved.dirty \cup region
        /\ m.alt = moved.alt /\ m.primary = moved.primary /\ m.alternate = moved.alternate
    BY <1>15, <1>17 DEF Fields
  <2>2. active_grid(m) = active_grid(moved)
    BY <2>1 DEF active_grid
  <2> QED
    BY <1>0, <1>15, <2>1, <2>2
<1>19. Told(h, m)
  <2>1. \A i \in 1..Len(m.scroll_ops) : m.scroll_ops[i] = op
    BY <1>18
  <2>2. op.top < op.bottom => active_grid(m).cells = Scrolled(h, op)
    BY <1>2, <1>6, <1>13, <1>18
  <2> QED
    BY <2>1, <2>2 DEF Told
<1>20. Marked(h, m)
  <2>1. ASSUME NEW r \in 0..h.rows-1, r < top \/ r > bottom \/ top >= bottom
        PROVE  active_grid(m).cells[r] = active_grid(h).cells[r]
    <3>1. screen.cells = active_grid(h).cells /\ DOMAIN screen.cells = 0..h.rows-1
      BY <1>3, GoodDrawn DEF Still
    <3>2. r < top \/ r > bottom => shifted.cells[r] = screen.cells[r]
      BY <1>12, <3>1 DEF shift_up
    <3> QED
      BY <1>2, <1>18, <2>1, <3>1, <3>2
  <2>2. ASSUME NEW r \in 0..h.rows-1, NEW c \in 0..h.cols-1, ~(r < top \/ r > bottom)
        PROVE  <<r, c>> \in m.dirty
    <3>1. r \in top..bottom
      BY <1>2, <2>2
    <3> QED
      BY <1>0, <1>16, <1>18, <3>1
  <2> QED
    BY <2>1, <2>2 DEF Marked
<1>21. m = scroll_up(k, count, wrap)
  BY <1>1, <1>3, <1>4, <1>5, <1>7, <1>9, <1>12, <1>14, <1>16, <1>17 DEF scroll_up
<1> QED
  BY <1>19, <1>20, <1>21 DEF Explains

(* A line feed scrolls at the bottom margin, and moves the cursor elsewhere. *)
LEMMA NewlineExplains ==
  ASSUME NEW h, Good(h), h.scroll_ops = <<>>, NEW k, Good(k), Still(h, k), NEW wrap
  PROVE  Explains(h, newline_action(k, wrap))
<1>1. CASE k.row = k.scroll_bottom
  BY <1>1, ScrollUpExplains DEF newline_action
<1>2. CASE k.row # k.scroll_bottom
  <2>1. PICK down : down = [k EXCEPT !.row = Lesser(@ + 1, k.rows - 1)]
    OBVIOUS
  <2>2. Still(h, down)
    BY <2>1, SettingsStill
  <2>3. PICK screen : screen = active_grid(down)
    OBVIOUS
  <2>4. PICK s : s = [screen EXCEPT !.wraps = [@ EXCEPT ![down.row] = wrap]]
    OBVIOUS
  <2>5. "cells" \in DOMAIN s /\ s.cells = screen.cells
    BY <2>2, <2>3, <2>4 DEF Still, Drawn
  <2>6. PICK m : m = SetActive(down, s)
    OBVIOUS
  <2>7. Same(down, m, {"primary", "alternate"}) /\ active_grid(m) = s
    BY <2>2, <2>6, SetActiveReads DEF Still, Drawn
  <2>8. m.rows = down.rows /\ m.cols = down.cols /\ m.scroll_ops = down.scroll_ops /\ DOMAIN m = Fields
    BY <2>7 DEF Same, Fields
  <2>9. Still(h, m)
    BY <2>2, <2>3, <2>5, <2>7, <2>8 DEF Still, Drawn
  <2>10. newline_action(k, wrap) = m
    BY <1>2, <2>1, <2>3, <2>4, <2>6 DEF newline_action
  <2> QED
    BY <2>9, <2>10, StillExplains
<1> QED
  BY <1>1, <1>2

(* IL, DL and SD, and the reverse line feed.                                 *)
LEMMA RegionExplains ==
  ASSUME NEW h, h.scroll_ops = <<>>, NEW k, Still(h, k)
  PROVE  /\ \A p0 : Explains(h, il(k, p0)) /\ Explains(h, dl(k, p0)) /\ Explains(h, sd(k, p0))
         /\ Explains(h, reverse_index(k))
<1>1. ASSUME NEW m, Still(h, m), NEW top, NEW bottom, NEW n
      PROVE  /\ Explains(h, mark_all(SetActive(record_scroll(m, ScrollOp("Up", top, bottom, n)),
                              shift_up(active_grid(m), top, bottom, n, m.cols, Hard))))
             /\ Explains(h, mark_all(SetActive(record_scroll(m, ScrollOp("Down", top, bottom, n)),
                              shift_down(active_grid(m), top, bottom, n, m.cols))))
  <2>1. PICK u, d : u = ScrollOp("Up", top, bottom, n) /\ d = ScrollOp("Down", top, bottom, n)
    OBVIOUS
  <2>2. /\ u.dir = "Up" /\ u.top = top /\ u.bottom = bottom /\ u.rows = n
        /\ d.dir = "Down" /\ d.top = top /\ d.bottom = bottom /\ d.rows = n
    BY <2>1 DEF ScrollOp
  <2>3. PICK up, down : /\ up = shift_up(active_grid(m), u.top, u.bottom, u.rows, m.cols, Hard)
                        /\ down = shift_down(active_grid(m), d.top, d.bottom, d.rows, m.cols)
    OBVIOUS
  <2>4. up.cells = Scrolled(h, u) /\ "cells" \in DOMAIN up
    BY <1>1, <2>2, <2>3, ScrolledRows
  <2>5. down.cells = Scrolled(h, d) /\ "cells" \in DOMAIN down
    BY <1>1, <2>2, <2>3, ScrolledRows
  <2>6. Explains(h, mark_all(SetActive(record_scroll(m, u), up)))
    BY <1>1, <2>4, ShiftExplains
  <2>7. Explains(h, mark_all(SetActive(record_scroll(m, d), down)))
    BY <1>1, <2>5, ShiftExplains
  <2> QED
    BY <2>1, <2>2, <2>3, <2>6, <2>7
<1>2. Explains(h, k)
  BY StillExplains
<1>3. \A p0 : Explains(h, il(k, p0)) /\ Explains(h, dl(k, p0)) /\ Explains(h, sd(k, p0))
  BY <1>1, <1>2 DEF il, dl, sd
<1>4. Explains(h, reverse_index(k))
  <2>1. PICK free : free = clear_pending_wrap(k)
    OBVIOUS
  <2>2. Still(h, free)
    BY <2>1, SettingsStill
  <2>3. \A v : Still(h, [free EXCEPT !.row = v])
    BY <2>2, SettingsStill
  <2>4. \A v : Explains(h, [free EXCEPT !.row = v])
    BY <2>3, StillExplains
  <2>5. Explains(h, mark_all(SetActive(record_scroll(free,
                       ScrollOp("Down", free.scroll_top, free.scroll_bottom, 1)),
                     shift_down(active_grid(free), free.scroll_top, free.scroll_bottom, 1, free.cols))))
    BY <1>1, <2>2
  <2> QED
    BY <2>1, <2>4, <2>5 DEF reverse_index
<1> QED
  BY <1>3, <1>4

(* Erases, switches, resets and resizes repaint: nothing is recorded, and    *)
(* everything is marked in the end.                                          *)
Unrecorded(k) == DOMAIN k = Fields /\ k.scroll_ops = <<>>
Repainted(k) == Unrecorded(k) /\ k.dirty = (0..k.rows-1) \X (0..k.cols-1)

(* The steps of an erase.                                                    *)
LEMMA EraseUnrecorded ==
  ASSUME NEW k, Unrecorded(k)
  PROVE  /\ \A s : Unrecorded(SetActive(k, s))
         /\ \A r : Unrecorded(SetCursorCells(k, r)) /\ Unrecorded(blank_rows(k, r))
         /\ Unrecorded(erase_right(k)) /\ Unrecorded(erase_left(k))
         /\ Unrecorded(preserve_visible_rows(k)) /\ Unrecorded(clear_scrollback(k))
         /\ \A e : Unrecorded(emit(k, e))
<1>0. DOMAIN k = Fields /\ k.scroll_ops = <<>>
  BY DEF Unrecorded
<1>1. \A s : Unrecorded(SetActive(k, s))
  <2> SUFFICES ASSUME NEW s PROVE Unrecorded(SetActive(k, s))
    OBVIOUS
  <2>1. PICK m : m = SetActive(k, s)
    OBVIOUS
  <2>2. Same(k, m, {"primary", "alternate"})
    BY <1>0, <2>1, SetActiveReads
  <2> QED
    BY <1>0, <2>1, <2>2 DEF Same, Fields, Unrecorded
<1>2. \A r : Unrecorded(SetCursorCells(k, r)) /\ Unrecorded(blank_rows(k, r))
  BY <1>1 DEF SetCursorCells, blank_rows
<1>3. Unrecorded(erase_right(k)) /\ Unrecorded(erase_left(k))
  BY <1>2 DEF erase_right, erase_left
<1>4. \A e : Unrecorded(emit(k, e))
  BY <1>0 DEF Unrecorded, emit, Fields
<1>5. Unrecorded(clear_scrollback(k))
  BY <1>0 DEF Unrecorded, clear_scrollback, Fields
<1>6. Unrecorded(preserve_visible_rows(k))
  <2>1. PICK clean : clean = [k EXCEPT !.mutated = FALSE]
    OBVIOUS
  <2>2. Unrecorded(clean)
    BY <1>0, <2>1 DEF Unrecorded, Fields
  <2>3. ASSUME NEW rows PROVE Unrecorded(push_scrollback(clean, rows))
    BY <2>2 DEF Unrecorded, push_scrollback, Fields
  <2>4. ASSUME NEW rows, NEW block
        PROVE  Unrecorded([push_scrollback(clean, rows) EXCEPT !.last_preserved_block = block])
    <3>1. PICK m : m = push_scrollback(clean, rows)
      OBVIOUS
    <3>2. DOMAIN m = Fields /\ m.scroll_ops = <<>>
      BY <2>3, <3>1 DEF Unrecorded
    <3>3. Unrecorded([m EXCEPT !.last_preserved_block = block])
      BY <3>2 DEF Unrecorded, Fields
    <3> QED
      BY <3>1, <3>3
  <2> QED
    BY <2>1, <2>2, <2>4 DEF preserve_visible_rows
<1> QED
  BY <1>1, <1>2, <1>3, <1>4, <1>5, <1>6

(* What may follow a repaint.                                                *)
LEMMA SameRepainted ==
  ASSUME NEW k, Repainted(k), NEW m, NEW X, Same(k, m, X), {"rows", "cols", "dirty", "scroll_ops"} \cap X = {}
  PROVE  Repainted(m)
<1>1. {"rows", "cols", "dirty", "scroll_ops"} \subseteq Fields \ X
  BY DEF Fields
<1>2. m.rows = k.rows /\ m.cols = k.cols /\ m.dirty = k.dirty /\ m.scroll_ops = k.scroll_ops
  BY <1>1 DEF Same
<1> QED
  BY <1>2 DEF Repainted, Unrecorded, Same

(* ED.                                                                       *)
LEMMA EraseDisplayRepaints ==
  ASSUME NEW k, Unrecorded(k)
  PROVE  \A mode : Repainted(erase_display(k, mode))
<1> SUFFICES ASSUME NEW mode PROVE Repainted(erase_display(k, mode))
  OBVIOUS
<1>1. PICK saved : saved = preserve_visible_rows(k)
  OBVIOUS
<1>2. Unrecorded(saved)
  BY <1>1, EraseUnrecorded
<1>3. Unrecorded(erase_right(k)) /\ Unrecorded(erase_right(saved)) /\ Unrecorded(clear_scrollback(k))
  BY <1>2, EraseUnrecorded
<1>4. \A rows : Unrecorded(blank_rows(erase_right(k), rows)) /\ Unrecorded(blank_rows(erase_right(saved), rows))
  BY <1>3, EraseUnrecorded
<1>5. \A rows : Unrecorded(blank_rows(k, rows)) /\ Unrecorded(blank_rows(saved, rows))
  BY <1>2, EraseUnrecorded
<1>6. \A rows : Unrecorded(erase_left(blank_rows(k, rows)))
  BY <1>5, EraseUnrecorded
<1>7. \A rows : Unrecorded(blank_rows(clear_scrollback(k), rows))
  BY <1>3, EraseUnrecorded
<1>8. \A rows, e : Unrecorded(emit(blank_rows(clear_scrollback(k), rows), e))
  BY <1>7, EraseUnrecorded
<1>9. PICK m : /\ erase_display(k, mode) = mark_all(m)
               /\ m = IF mode = 0 THEN blank_rows(erase_right(IF k.row = 0 /\ k.col = 0 THEN saved ELSE k),
                                                  k.row+1..k.rows-1)
                      ELSE IF mode = 1 THEN erase_left(blank_rows(k, 0..k.row-1))
                      ELSE IF mode = 2 THEN blank_rows(saved, 0..k.rows-1)
                      ELSE IF mode = 3 THEN emit(blank_rows(clear_scrollback(k), 0..k.rows-1),
                                                 <<"ScrollbackClear">>)
                      ELSE k
  BY <1>1 DEF erase_display
<1>10. Unrecorded(m)
  BY <1>4, <1>5, <1>6, <1>8, <1>9
<1> QED
  BY <1>9, <1>10, MarkAllReads DEF Repainted, Unrecorded, Same

(* The alternate screen, RIS and resizes.                                    *)
LEMMA SwitchRepaints ==
  ASSUME NEW k, Unrecorded(k)
  PROVE  /\ \A on : Repainted(set_alt_screen(k, on)) /\ Repainted(alt_1049(k, on))
         /\ Repainted(ris(k))
         /\ \A rows1, cols1 : Repainted(set_size(k, rows1, cols1))
<1>0. DOMAIN k = Fields /\ k.scroll_ops = <<>>
  BY DEF Unrecorded
<1>1. ASSUME NEW m, Unrecorded(m) PROVE Repainted(mark_all(m))
  BY <1>1, MarkAllReads DEF Repainted, Unrecorded, Same
<1>2. ASSUME NEW m, Unrecorded(m), NEW on PROVE Repainted(set_alt_screen(m, on))
  <2>1. PICK a : a = [m EXCEPT !.alt = on, !.hyperlink = 0]
    OBVIOUS
  <2>2. Unrecorded(a)
    BY <1>2, <2>1 DEF Unrecorded, Fields
  <2> QED
    BY <1>1, <2>1, <2>2 DEF set_alt_screen
<1> DEFINE X == {"pending_wrap", "last_print", "col", "row", "kitty", "events"}
<1>3. {"rows", "cols", "dirty", "scroll_ops"} \cap X = {}
  OBVIOUS
<1>4. ASSUME NEW on PROVE Repainted(alt_1049(k, on))
  <2>1. CASE on
    <3>1. PICK saved : saved = save_cursor(k)
      OBVIOUS
    <3>2. Unrecorded(saved)
      BY <1>0, <3>1 DEF Unrecorded, save_cursor, Fields
    <3>3. PICK m : m = set_alt_screen(saved, TRUE)
      OBVIOUS
    <3>4. Repainted(m)
      BY <1>2, <3>2, <3>3
    <3>5. Same(m, clear_pending_wrap(m), X)
      BY <3>4 DEF Same, clear_pending_wrap, Repainted, Unrecorded
    <3> HIDE DEF X
    <3>6. Repainted(clear_pending_wrap(m))
      BY <1>3, <3>4, <3>5, SameRepainted
    <3> QED
      BY <2>1, <3>1, <3>3, <3>6 DEF alt_1049
  <2>2. CASE ~on
    <3>1. PICK m : m = set_alt_screen(k, FALSE)
      OBVIOUS
    <3>2. Repainted(m)
      BY <1>2, <3>1
    <3>3. PICK left : left = restore_saved_cursor(m)
      OBVIOUS
    <3>4. Same(m, left, X)
      BY <3>2, <3>3 DEF Same, restore_saved_cursor, Repainted, Unrecorded
    <3>5. PICK events : events = left.events \o [i \in 1..Len(k.kitty) |-> <<"KittyPop">>]
      OBVIOUS
    <3>6. PICK n : n = [left EXCEPT !.kitty = <<>>, !.events = events]
      OBVIOUS
    <3>7. Same(m, n, X)
      BY <3>4, <3>6 DEF Same
    <3>8. alt_1049(k, on) = n
      BY <2>2, <3>1, <3>3, <3>5, <3>6 DEF alt_1049
    <3> HIDE DEF X
    <3> QED
      BY <1>3, <3>2, <3>7, <3>8, SameRepainted
  <2> QED
    BY <2>1, <2>2
<1>5. Repainted(ris(k))
  <2>1. PICK blank : blank = [k EXCEPT
          !.primary = blank_screen(k.rows, k.cols), !.alternate = blank_screen(k.rows, k.cols),
          !.alt = FALSE, !.pending_wrap = FALSE, !.row = 0, !.col = 0, !.pen = {},
          !.last_print = <<>>, !.scroll_top = 0, !.scroll_bottom = k.rows - 1]
    OBVIOUS
  <2>2. Unrecorded(blank)
    BY <1>0, <2>1 DEF Unrecorded, Fields
  <2>3. Unrecorded(reset_modes(blank))
    BY <2>2 DEF Unrecorded, Fields, reset_modes
  <2> QED
    BY <1>1, <2>1, <2>3 DEF ris
<1>6. ASSUME NEW rows1, NEW cols1 PROVE Repainted(set_size(k, rows1, cols1))
  <2>1. PICK rows, cols : rows = Greater(rows1, 1) /\ cols = Greater(cols1, 1)
    OBVIOUS
  <2>2. PICK m : m = [k EXCEPT
          !.rows = rows, !.cols = cols,
          !.primary = resize_screen(@, k.rows, k.cols, rows, cols),
          !.alternate = resize_screen(@, k.rows, k.cols, rows, cols),
          !.row = Lesser(@, rows - 1), !.col = Lesser(@, cols - 1),
          !.scroll_top = 0, !.scroll_bottom = rows - 1]
    OBVIOUS
  <2>3. Unrecorded(m)
    BY <1>0, <2>2 DEF Unrecorded, Fields
  <2>4. Unrecorded(clear_pending_wrap(m))
    BY <2>3 DEF Unrecorded, Fields, clear_pending_wrap
  <2> QED
    BY <1>1, <2>1, <2>2, <2>4 DEF set_size
<1> QED
  BY <1>2, <1>4, <1>5, <1>6

(* Erasing and editing the cursor's row.                                     *)
LEMMA EditLocal ==
  ASSUME NEW h, NEW k, Local(h, k)
  PROVE  \A p0 : /\ Local(h, erase_line(k, p0))
                 /\ Local(h, ich(k, p0)) /\ Local(h, dch(k, p0)) /\ Local(h, ech(k, p0))
<1>1. \A r : Local(h, SetCursorCells(k, r))
  BY DrawLocal
<1>2. \A r, row, a, b : Local(h, mark_range(SetCursorCells(k, r), row, a, b))
  BY <1>1, DrawLocal
<1>3. \A row, a, b : Local(h, mark_range(erase_right(k), row, a, b))
                     /\ Local(h, mark_range(erase_left(k), row, a, b))
  BY <1>2 DEF erase_right, erase_left
<1>4. \A p0 : Local(h, erase_line(k, p0))
  BY <1>2, <1>3 DEF erase_line
<1>5. \A p0 : Local(h, ich(k, p0)) /\ Local(h, dch(k, p0)) /\ Local(h, ech(k, p0))
  BY <1>2 DEF ich, dch, ech
<1> QED
  BY <1>4, <1>5

(* A cluster that grows and a glyph that is placed, where the cursor is.     *)
LEMMA PrintLocal ==
  ASSUME NEW h, NEW k, Local(h, k), NEW ch
  PROVE  /\ \A col : Local(h, [k EXCEPT !.pending_wrap = FALSE, !.col = col])
         /\ Local(h, join_cluster(k, ch))
         /\ \A width : Local(h, place_glyph(k, ch, width))
<1> DEFINE X == {"col", "pending_wrap", "last_print"}
<1>0. (ShownFields \cup {"row", "dirty"}) \cap X = {}
  BY DEF ShownFields
<1>1. \A col : Local(h, [k EXCEPT !.pending_wrap = FALSE, !.col = col])
  <2> SUFFICES ASSUME NEW col PROVE Local(h, [k EXCEPT !.pending_wrap = FALSE, !.col = col])
    OBVIOUS
  <2>1. PICK m : m = [k EXCEPT !.pending_wrap = FALSE, !.col = col]
    OBVIOUS
  <2>2. Same(k, m, X)
    BY <2>1 DEF Local, Drawn, Same
  <2> HIDE DEF X
  <2> QED
    BY <1>0, <2>1, <2>2, SameLocal
<1>2. Local(h, join_cluster(k, ch))
  <2>1. PICK cells, col, wrap, last, start, end :
          join_cluster(k, ch) = mark_range([SetCursorCells(k, cells) EXCEPT
            !.col = col, !.pending_wrap = wrap, !.last_print = last], k.row, start, end)
    BY DEF join_cluster
  <2>2. PICK m : m = SetCursorCells(k, cells)
    OBVIOUS
  <2>3. Local(h, m)
    BY <2>2, DrawLocal
  <2>4. PICK n : n = [m EXCEPT !.col = col, !.pending_wrap = wrap, !.last_print = last]
    OBVIOUS
  <2>5. Same(m, n, X)
    BY <2>3, <2>4 DEF Local, Drawn, Same
  <2> HIDE DEF X
  <2>6. Local(h, n)
    BY <1>0, <2>3, <2>5, SameLocal
  <2> QED
    BY <2>1, <2>2, <2>4, <2>6, DrawLocal
<1>3. ASSUME NEW width PROVE Local(h, place_glyph(k, ch, width))
  <2>1. PICK row : row = CursorCells(k)
    OBVIOUS
  <2>2. PICK cells : cells = write_cells(row, k.col, width, Cell(<<ch>>, width > 1, k.pen, k.hyperlink))
    OBVIOUS
  <2>3. PICK start, end :
          /\ start = IF row[k.col].is_wide_continuation /\ k.col > 0 THEN k.col - 1 ELSE k.col
          /\ end = IF width > 1 /\ k.col + 2 < k.cols /\ row[k.col+1].is_wide THEN k.col + 3
                   ELSE IF width < 2 /\ k.col + 1 < k.cols /\ row[k.col].is_wide THEN k.col + 2
                   ELSE k.col + width
    OBVIOUS
  <2>4. PICK m : m = mark_range(SetCursorCells(k, cells), k.row, start, end)
    OBVIOUS
  <2>5. Local(h, SetCursorCells(k, cells))
    BY DrawLocal
  <2>6. Local(h, m)
    BY <2>4, <2>5, DrawLocal
  <2>7. PICK after : after = Lesser(k.col + width, k.cols)
    OBVIOUS
  <2>8. PICK n : n = [m EXCEPT !.col = after, !.pending_wrap = (after = k.cols),
                               !.last_print = <<k.row, after>>]
    OBVIOUS
  <2>9. Same(m, n, X)
    BY <2>6, <2>8 DEF Local, Drawn, Same
  <2>10. place_glyph(k, ch, width) = n
    BY <2>1, <2>2, <2>3, <2>4, <2>7, <2>8 DEF place_glyph
  <2> HIDE DEF X
  <2> QED
    BY <1>0, <2>6, <2>9, <2>10, SameLocal
<1> QED
  BY <1>1, <1>2, <1>3

(* A printed scalar: the wrap it was waiting for may scroll, what is written *)
(* is in the cursor's row.                                                   *)
LEMMA PrintExplains ==
  ASSUME NEW h, Good(h), h.scroll_ops = <<>>, NEW ch
  PROVE  Explains(h, write_char_at_cursor(h, ch))
<1>1. PICK k : k = [h EXCEPT !.mutated = TRUE]
  OBVIOUS
<1>2. Good(k)
  BY <1>1, MutatedOK DEF Good
<1>3. Still(h, h) /\ Still(h, k)
  BY <1>1, GoodDrawn, SettingsStill
<1>4. Explains(h, k)
  BY <1>3, StillExplains
<1>5. ASSUME NEW m, Good(m), Explains(h, m), NEW n, Local(m, n) PROVE Explains(h, n)
  BY <1>5, GoodDrawn, LocalExplains
<1>6. Explains(h, join_cluster(k, ch))
  <2>1. Local(k, k)
    BY <1>2, GoodDrawn
  <2>2. Local(k, join_cluster(k, ch))
    BY <2>1, PrintLocal
  <2> QED
    BY <1>2, <1>4, <1>5, <2>2
<1>7. Explains(h, write_apart(k, ch))
  <2>1. PICK home : home = [k EXCEPT !.pending_wrap = FALSE, !.col = 0]
    OBVIOUS
  <2>2. Good(home)
    <3>1. k.cols \in Nat \ {0}
      BY <1>2, GoodReads
    <3>2. 0 \in 0..k.cols /\ FALSE \in BOOLEAN /\ (FALSE <=> 0 = k.cols)
      BY <3>1
    <3> QED
      BY <1>2, <2>1, <3>2, PlaceOK
  <2>3. Still(h, home)
    <3>1. DOMAIN k = Fields
      BY <1>2, GoodReads
    <3>2. Same(k, home, {"pending_wrap", "col"})
      BY <2>1, <3>1 DEF Same
    <3>3. ShownFields \cap {"pending_wrap", "col"} = {}
      BY DEF ShownFields
    <3> QED
      BY <1>3, <3>2, <3>3, SameStill
  <2>4. PICK wrapped : wrapped = IF k.pending_wrap /\ ~k.no_autowrap THEN newline_action(home, Soft) ELSE k
    OBVIOUS
  <2>5. Good(wrapped)
    BY <1>2, <2>2, <2>4, NewlineOK
  <2>6. Explains(h, wrapped)
    BY <1>4, <2>2, <2>3, <2>4, NewlineExplains
  <2>7. PICK col : col = Lesser(wrapped.col, k.cols - 1)
    OBVIOUS
  <2>8. PICK at : at = [wrapped EXCEPT !.pending_wrap = FALSE, !.col = col]
    OBVIOUS
  <2>9. Local(wrapped, at)
    <3>1. Local(wrapped, wrapped)
      BY <2>5, GoodDrawn
    <3> QED
      BY <2>8, <3>1, PrintLocal
  <2>10. Local(wrapped, place_glyph(at, ch, char_width(ch)))
    BY <2>9, PrintLocal
  <2>11. write_apart(k, ch) \in {wrapped, place_glyph(at, ch, char_width(ch))}
    BY <2>1, <2>4, <2>7, <2>8 DEF write_apart
  <2> QED
    BY <1>5, <2>5, <2>6, <2>10, <2>11
<1> QED
  BY <1>1, <1>4, <1>6, <1>7 DEF write_char_at_cursor

(* C0 controls and control sequences.                                        *)
LEMMA ControlExplains ==
  ASSUME NEW h, Good(h), h.scroll_ops = <<>>
  PROVE  /\ \A byte : Explains(h, execute(h, byte))
         /\ \A action, p0, p1 : Explains(h, csi_dispatch(h, action, p0, p1))
<1>0. DOMAIN h = Fields /\ Still(h, h) /\ Local(h, h) /\ Unrecorded(h)
  BY GoodReads, GoodDrawn DEF Unrecorded
<1>1. ASSUME NEW m, Still(h, m) PROVE Explains(h, m)
  BY <1>1, StillExplains
<1>2. ASSUME NEW m, Repainted(m) PROVE Explains(h, m)
  BY <1>2, RepaintExplains DEF Repainted, Unrecorded
<1>3. ASSUME NEW m, Local(h, m) PROVE Explains(h, m)
  BY <1>0, <1>1, <1>3, GoodDrawn, LocalExplains
<1>4. PICK free : free = clear_pending_wrap(h)
  OBVIOUS
<1>5. Good(free) /\ Still(h, free)
  BY <1>0, <1>4, ClearWrapOK, SettingsStill
<1>6. \A e : Still(h, emit(h, e))
  BY <1>0, SettingsStill
<1>7. \A byte : Explains(h, execute(h, byte))
  <2>1. \A wrap : Explains(h, newline_action(free, wrap))
    BY <1>5, NewlineExplains
  <2>2. \A v : Still(h, [free EXCEPT !.col = v]) /\ Still(h, [h EXCEPT !.col = v])
    BY <1>0, <1>5, SettingsStill
  <2>3. Still(h, backspace(h))
    BY <1>4, <1>5, <2>2 DEF backspace
  <2>4. /\ \A v : Explains(h, [free EXCEPT !.col = v])
        /\ \A e : Explains(h, emit(h, e))
        /\ Explains(h, backspace(h)) /\ Explains(h, h)
    BY <1>0, <1>1, <1>6, <2>2, <2>3
  <2> QED
    BY <1>4, <2>1, <2>4 DEF execute
<1>8. \A action, p0, p1 : Still(h, cursor_move(h, action, p0, p1))
  <2>1. \A r, c : Still(h, move_to(free, r, c))
    BY <1>5, SettingsStill
  <2> QED
    BY <1>4, <2>1 DEF cursor_move
<1>9. \A p0, p1 : Still(h, decstbm(h, p0, p1))
  <2> SUFFICES ASSUME NEW p0, NEW p1 PROVE Still(h, decstbm(h, p0, p1))
    OBVIOUS
  <2>1. PICK top, bottom : decstbm(h, p0, p1)
          = [free EXCEPT !.scroll_top = top, !.scroll_bottom = bottom, !.row = 0, !.col = 0]
    BY <1>4 DEF decstbm
  <2>2. PICK m : m = [free EXCEPT !.scroll_top = top, !.scroll_bottom = bottom, !.row = 0, !.col = 0]
    OBVIOUS
  <2>3. Same(free, m, {"scroll_top", "scroll_bottom", "row", "col"})
    BY <1>5, <2>2 DEF Still, Drawn, Same
  <2>4. ShownFields \cap {"scroll_top", "scroll_bottom", "row", "col"} = {}
    BY DEF ShownFields
  <2> QED
    BY <1>5, <2>1, <2>2, <2>3, <2>4, SameStill
<1>10. \A p0 : Still(h, kitty_push(h, p0)) /\ Still(h, kitty_pop(h, p0)) /\ Still(h, device_status(h, p0))
  <2>1. \A v : Still(h, [h EXCEPT !.kitty = v])
    BY <1>0, SettingsStill
  <2>2. \A v, e : Still(h, emit([h EXCEPT !.kitty = v], e))
    BY <2>1, SettingsStill
  <2> QED
    BY <1>0, <1>6, <2>2 DEF kitty_push, kitty_pop, device_status
<1>11. Still(h, decstr(h))
  <2> DEFINE X == {"pen", "scroll_top", "scroll_bottom", "pending_wrap", "last_print", "col", "no_autowrap",
                   "saved_row", "saved_col", "modes"}
  <2>1. PICK reset : reset = [h EXCEPT !.pen = {}, !.scroll_top = 0, !.scroll_bottom = h.rows - 1]
    OBVIOUS
  <2>2. Same(h, reset, X)
    BY <1>0, <2>1 DEF Same
  <2>3. PICK wrapping : wrapping = restore_autowrap(reset)
    OBVIOUS
  <2>4. Same(reset, wrapping, X)
    <3>1. DOMAIN reset = Fields
      BY <2>2 DEF Same
    <3>2. Same(reset, reset, X)
      BY <3>1 DEF Same
    <3>3. Same(reset, [clear_pending_wrap(reset) EXCEPT !.no_autowrap = FALSE], X)
      BY <3>1 DEF Same, clear_pending_wrap
    <3> QED
      BY <2>3, <3>2, <3>3 DEF restore_autowrap
  <2>5. PICK modes : decstr(h) = [wrapping EXCEPT !.last_print = <<>>, !.saved_row = 0, !.saved_col = 0,
                                                  !.modes = modes]
    BY <2>1, <2>3 DEF decstr
  <2>6. PICK m : m = [wrapping EXCEPT !.last_print = <<>>, !.saved_row = 0, !.saved_col = 0,
                                      !.modes = modes]
    OBVIOUS
  <2>7. Same(wrapping, m, X)
    BY <2>4, <2>6 DEF Same
  <2>8. ShownFields \cap X = {}
    BY DEF ShownFields
  <2> HIDE DEF X
  <2>9. Still(h, wrapping)
    BY <1>0, <2>2, <2>4, <2>8, SameStill
  <2> QED
    BY <2>5, <2>6, <2>7, <2>8, <2>9, SameStill
<1>12. /\ \A v : Still(h, [h EXCEPT !.cursor_style = v])
       /\ Still(h, save_cursor(h)) /\ Still(h, restore_saved_cursor(h))
  BY <1>0, SettingsStill
<1>13. \A p0 : /\ Explains(h, ich(h, p0)) /\ Explains(h, dch(h, p0)) /\ Explains(h, ech(h, p0))
               /\ Explains(h, erase_line(h, p0))
  BY <1>0, <1>3, EditLocal
<1>14. \A p0 : Explains(h, erase_display(h, p0))
  BY <1>0, <1>2, EraseDisplayRepaints
<1>15. \A p0 : Explains(h, il(h, p0)) /\ Explains(h, dl(h, p0)) /\ Explains(h, sd(h, p0))
  BY <1>0, RegionExplains
<1>16. \A count, wrap : Explains(h, scroll_up(h, count, wrap))
  BY <1>0, ScrollUpExplains
<1>17. /\ \A action, p0, p1 : Explains(h, cursor_move(h, action, p0, p1)) /\ Explains(h, decstbm(h, p0, p1))
       /\ \A p0 : /\ Explains(h, kitty_push(h, p0)) /\ Explains(h, kitty_pop(h, p0))
                  /\ Explains(h, device_status(h, p0))
       /\ \A e : Explains(h, emit(h, e))
       /\ \A v : Explains(h, [h EXCEPT !.cursor_style = v])
       /\ Explains(h, decstr(h)) /\ Explains(h, save_cursor(h)) /\ Explains(h, restore_saved_cursor(h))
       /\ Explains(h, h)
  BY <1>0, <1>1, <1>6, <1>8, <1>9, <1>10, <1>11, <1>12
<1>18. \A action, p0, p1 : Explains(h, csi_dispatch(h, action, p0, p1))
  <2> SUFFICES ASSUME NEW action, NEW p0, NEW p1 PROVE Explains(h, csi_dispatch(h, action, p0, p1))
    OBVIOUS
  <2> QED
    BY <1>13, <1>14, <1>15, <1>16, <1>17 DEF csi_dispatch
<1> QED
  BY <1>7, <1>18

(* Modes, escapes and OSC strings.                                           *)
LEMMA ModeExplains ==
  ASSUME NEW h, Good(h), h.scroll_ops = <<>>
  PROVE  /\ \A mode, on : Explains(h, set_dec_mode(h, mode, on))
         /\ \A byte : Explains(h, esc_dispatch(h, byte))
         /\ \A code, value : Explains(h, osc_dispatch(h, code, value))
<1>0. Still(h, h) /\ Unrecorded(h)
  BY GoodReads, GoodDrawn DEF Unrecorded
<1>1. ASSUME NEW m, Still(h, m) PROVE Explains(h, m)
  BY <1>1, StillExplains
<1>2. ASSUME NEW m, Repainted(m) PROVE Explains(h, m)
  BY <1>2, RepaintExplains DEF Repainted, Unrecorded
<1>3. \A v : /\ Still(h, [h EXCEPT !.modes = v]) /\ Still(h, [h EXCEPT !.no_autowrap = v])
             /\ Still(h, [h EXCEPT !.hyperlink = v])
  BY <1>0, SettingsStill
<1>4. \A v, e : Still(h, emit([h EXCEPT !.modes = v], e)) /\ Still(h, emit(h, e))
  BY <1>0, <1>3, SettingsStill
<1>5. /\ \A v : /\ Explains(h, [h EXCEPT !.modes = v]) /\ Explains(h, [h EXCEPT !.no_autowrap = v])
                /\ Explains(h, [h EXCEPT !.hyperlink = v])
      /\ \A v, e : Explains(h, emit([h EXCEPT !.modes = v], e)) /\ Explains(h, emit(h, e))
      /\ Explains(h, h)
  BY <1>0, <1>1, <1>3, <1>4
<1>6. \A on : Explains(h, set_alt_screen(h, on)) /\ Explains(h, alt_1049(h, on))
  BY <1>0, <1>2, SwitchRepaints
<1>7. \A mode, on : Explains(h, set_dec_mode(h, mode, on))
  <2> SUFFICES ASSUME NEW mode, NEW on PROVE Explains(h, set_dec_mode(h, mode, on))
    OBVIOUS
  <2>1. /\ Explains(h, emit([h EXCEPT !.modes.application_cursor = on], <<"ApplicationCursorKeys">>))
        /\ Explains(h, emit([h EXCEPT !.modes.focus_events = on], <<"FocusEvents">>))
        /\ Explains(h, emit([h EXCEPT !.modes.bracketed_paste = on], <<"BracketedPaste">>))
    BY <1>5
  <2>2. /\ Explains(h, [h EXCEPT !.modes.text_cursor_enable = IF on THEN "on" ELSE "off"])
        /\ Explains(h, [h EXCEPT !.modes.hide_cursor = ~on])
        /\ Explains(h, [h EXCEPT !.modes.mouse_mode = IF on THEN mode ELSE 0])
        /\ Explains(h, [h EXCEPT !.modes.mouse_encoding = IF on THEN mode ELSE 0])
        /\ Explains(h, [h EXCEPT !.modes.synchronized_update = on])
        /\ Explains(h, [h EXCEPT !.no_autowrap = ~on])
    BY <1>5
  <2> QED
    BY <1>5, <1>6, <2>1, <2>2 DEF set_dec_mode
<1>8. \A byte : Explains(h, esc_dispatch(h, byte))
  <2>1. /\ Explains(h, [h EXCEPT !.modes.application_keypad = TRUE])
        /\ Explains(h, [h EXCEPT !.modes.application_keypad = FALSE])
    BY <1>5
  <2>2. Explains(h, save_cursor(h)) /\ Explains(h, restore_saved_cursor(h))
    BY <1>0, <1>1, SettingsStill
  <2>3. Explains(h, reverse_index(h))
    BY <1>0, RegionExplains
  <2>4. Explains(h, ris(h))
    BY <1>0, <1>2, SwitchRepaints
  <2> QED
    BY <1>5, <2>1, <2>2, <2>3, <2>4 DEF esc_dispatch
<1>9. \A code, value : Explains(h, osc_dispatch(h, code, value))
  BY <1>5 DEF osc_dispatch
<1> QED
  BY <1>7, <1>8, <1>9

(* One sequence.                                                             *)
LEMMA PerformExplains ==
  ASSUME NEW h, Good(h), NEW seq
  PROVE  Explains(Drained(h), perform(h, seq))
<1>1. PICK k : k = Drained(h)
  OBVIOUS
<1>2. Good(k) /\ k.scroll_ops = <<>>
  BY <1>1, DrainedOK, GoodReads DEF Drained, Fields
<1>3. Explains(k, write_char_at_cursor(k, seq[2]))
  BY <1>2, PrintExplains
<1>4. Explains(k, execute(k, seq[2])) /\ Explains(k, csi_dispatch(k, seq[2], seq[3], seq[4]))
  BY <1>2, ControlExplains
<1>5. /\ Explains(k, set_dec_mode(k, seq[2], seq[3])) /\ Explains(k, esc_dispatch(k, seq[2]))
      /\ Explains(k, osc_dispatch(k, seq[2], seq[3]))
  BY <1>2, ModeExplains
<1>6. Explains(k, [k EXCEPT !.pen = apply_sgr(@, seq[2])])
  <2>1. Still(k, k)
    BY <1>2, GoodDrawn
  <2>2. \A v : Still(k, [k EXCEPT !.pen = v])
    BY <2>1, SettingsStill
  <2> QED
    BY <1>2, <2>2, StillExplains
<1> QED
  BY <1>1, <1>3, <1>4, <1>5, <1>6 DEF perform

(* Every sequence and every call of the handle.  A step that takes place     *)
(* begins with empty buffers; one that does not changes nothing, and what    *)
(* the buffers held then is not its own.                                     *)
LEMMA StepExplains == GridInv /\ Next => Explains(Drained(g), g') \/ UNCHANGED termvars
<1> SUFFICES ASSUME GridInv, Next, ~UNCHANGED termvars PROVE Explains(Drained(g), g')
  OBVIOUS
<1>0. Good(g)
  BY DEF GridInv
<1>1. PICK k : k = Drained(g)
  OBVIOUS
<1>2. Good(k) /\ k.scroll_ops = <<>> /\ DOMAIN k = Fields
  BY <1>0, <1>1, DrainedOK, GoodReads DEF Drained, Fields
<1>3. Still(k, k) /\ Unrecorded(k)
  BY <1>2, GoodDrawn DEF Unrecorded
<1>4. ASSUME NEW m, Still(k, m) PROVE Explains(k, m)
  BY <1>2, <1>4, StillExplains
<1>5. ASSUME NEW kind, Feeds(kind) PROVE Explains(k, g')
  BY <1>0, <1>1, <1>5, PerformExplains DEF Feeds, Step
<1>6. CASE FeedText \/ FeedControl \/ FeedCsi \/ FeedSgr \/ FeedMode \/ FeedEsc \/ FeedOsc
  BY <1>1, <1>5, <1>6 DEF FeedText, FeedControl, FeedCsi, FeedSgr, FeedMode, FeedEsc, FeedOsc
<1>7. CASE SetSize
  <2>1. PICK s : g' = set_size(k, s[1], s[2])
    BY <1>1, <1>7 DEF SetSize, Step
  <2>2. Repainted(g')
    BY <1>3, <2>1, SwitchRepaints
  <2> QED
    BY <1>1, <2>2, RepaintExplains DEF Repainted, Unrecorded
<1>8. CASE SetScrollback
  <2>1. PICK o : g' = set_scrollback(k, o)
    BY <1>1, <1>8 DEF SetScrollback, Step
  <2>2. Still(k, set_scrollback(k, o))
    BY <1>3, SettingsStill DEF set_scrollback
  <2> QED
    BY <1>1, <1>4, <2>1, <2>2
<1>9. CASE ClearScrollback
  <2>1. Still(k, clear_scrollback(k))
    BY <1>3, SettingsStill
  <2> QED
    BY <1>1, <1>4, <1>9, <2>1 DEF ClearScrollback, Step
<1>10. CASE ClearKittyStack
  <2>1. Still(k, clear_kitty_kb_stack(k))
    BY <1>3, SettingsStill DEF clear_kitty_kb_stack
  <2> QED
    BY <1>1, <1>4, <1>10, <2>1 DEF ClearKittyStack, Step
<1>11. CASE SetErasePolicy
  <2>1. PICK p : g' = set_erase_display_policy(k, p)
    BY <1>1, <1>11 DEF SetErasePolicy, Step
  <2>2. Still(k, set_erase_display_policy(k, p))
    BY <1>3, SettingsStill DEF set_erase_display_policy
  <2> QED
    BY <1>1, <1>4, <2>1, <2>2
<1>12. CASE Done
  BY <1>12 DEF Done
<1> QED
  BY <1>6, <1>7, <1>8, <1>9, <1>10, <1>11, <1>12 DEF Next

(* A renderer may scroll its own copy: whatever a step records as scrolled   *)
(* is all that happened to the rows but for the one with the cursor.         *)
THEOREM ScrollOpsSuffice == Spec => ScrollOpsExplain
<1>1. GridInv /\ [Next]_termvars => [Told(g, g')]_termvars
  <2> SUFFICES ASSUME GridInv, Next, ~UNCHANGED termvars PROVE Told(g, g')
    OBVIOUS
  <2>1. PICK k : k = Drained(g)
    OBVIOUS
  <2>2. Told(k, g')
    BY <2>1, StepExplains DEF Explains
  <2>3. Good(g)
    BY DEF GridInv
  <2>4. k.cols = g.cols /\ k.alt = g.alt /\ k.primary = g.primary /\ k.alternate = g.alternate
    BY <2>1, <2>3, GoodReads DEF Drained, Fields
  <2>5. active_grid(k) = active_grid(g)
    BY <2>4 DEF active_grid
  <2>6. \A op : Scrolled(k, op) = Scrolled(g, op)
    BY <2>4, <2>5 DEF Scrolled
  <2> QED
    BY <2>2, <2>6 DEF Told
<1>2. Told(g, g') =>
        \A i \in 1..Len(g'.scroll_ops) :
          LET op  == g'.scroll_ops[i]
              was == active_grid(g)
              now == active_grid(g').cells
              scrolled == IF op.dir = "Up"
                          THEN shift_up(was, op.top, op.bottom, op.rows, g.cols, Hard).cells
                          ELSE shift_down(was, op.top, op.bottom, op.rows, g.cols).cells
          IN op.top < op.bottom => \A r \in DOMAIN now : r = g'.row \/ now[r] = scrolled[r]
  BY DEF Told, Scrolled
<1>3. [Told(g, g')]_termvars => [ \A i \in 1..Len(g'.scroll_ops) :
        LET op  == g'.scroll_ops[i]
            was == active_grid(g)
            now == active_grid(g').cells
            scrolled == IF op.dir = "Up"
                        THEN shift_up(was, op.top, op.bottom, op.rows, g.cols, Hard).cells
                        ELSE shift_down(was, op.top, op.bottom, op.rows, g.cols).cells
        IN op.top < op.bottom =>
             \A r \in DOMAIN now : r = g'.row \/ now[r] = scrolled[r] ]_termvars
  BY <1>2
<1> QED
  BY <1>1, <1>3, GridInit, GridStep, PTL DEF Spec, ScrollOpsExplain

(* No row is missed: whatever a step changes outside the cursor's row it     *)
(* also marks dirty.                                                         *)
THEOREM NoRowMissed == Spec => OtherRowsMarked
<1>1. GridInv /\ [Next]_termvars => [Marked(g, g')]_termvars
  <2> SUFFICES ASSUME GridInv, Next, ~UNCHANGED termvars PROVE Marked(g, g')
    OBVIOUS
  <2>1. PICK k : k = Drained(g)
    OBVIOUS
  <2>2. Marked(k, g')
    BY <2>1, StepExplains DEF Explains
  <2>3. Good(g)
    BY DEF GridInv
  <2>4. k.rows = g.rows /\ k.cols = g.cols /\ k.alt = g.alt /\ k.primary = g.primary
        /\ k.alternate = g.alternate
    BY <2>1, <2>3, GoodReads DEF Drained, Fields
  <2>5. active_grid(k) = active_grid(g)
    BY <2>4 DEF active_grid
  <2> QED
    BY <2>2, <2>4, <2>5 DEF Marked
<1>2. [Marked(g, g')]_termvars
        => [ g'.rows = g.rows /\ g'.cols = g.cols =>
               \A p \in Changed : p \in g'.dirty \/ p[1] = g'.row ]_termvars
  <2> SUFFICES ASSUME Marked(g, g'), g'.rows = g.rows, g'.cols = g.cols, NEW p \in Changed
               PROVE  p \in g'.dirty \/ p[1] = g'.row
    OBVIOUS
  <2>1. PICK r \in 0..g.rows-1, c \in 0..g.cols-1 : p = <<r, c>>
    BY DEF Changed
  <2>2. active_grid(g).cells[r][c] # active_grid(g').cells[r][c]
    BY <2>1 DEF Changed
  <2> QED
    BY <2>1, <2>2 DEF Marked
<1> QED
  BY <1>1, <1>2, GridInit, GridStep, PTL DEF Spec, OtherRowsMarked
-----------------------------------------------------------------------------
(* The pen: what is written to change it is read as the change meant.        *)

(* A pen: each field at most once, with a value the field can have.          *)
PenColors == {"foreground", "background", "underline_color"}
PenFlags ==
  {"bold", "dim", "italic", "slow_blink", "rapid_blink", "inverse", "conceal",
   "strikethrough", "overline"}
IsColor(v) ==
  \/ \E n \in 0..255 : v = Idx(n)
  \/ \E r \in 0..255, b \in 0..255, e \in 0..255 : v = Rgb(r, b, e)
PenOK(a) ==
  /\ \A x \in a : \/ \E f \in PenFlags : x = <<f, <<>>>>
                  \/ \E f \in PenColors : \E v : IsColor(v) /\ x = <<f, v>>
                  \/ \E n \in 1..5 : x = <<"underline_style", <<n>>>>
  /\ \A x \in a, y \in a : x[1] = y[1] => x = y

(* The codes of the tables, one by one.                                      *)
LEMMA CodeTables ==
  /\ DOMAIN Sets = {1, 2, 3, 5, 6, 7, 8, 9, 53}
  /\ Sets[1] = "bold" /\ Sets[2] = "dim" /\ Sets[3] = "italic" /\ Sets[5] = "slow_blink"
  /\ Sets[6] = "rapid_blink" /\ Sets[7] = "inverse" /\ Sets[8] = "conceal"
  /\ Sets[9] = "strikethrough" /\ Sets[53] = "overline"
  /\ DOMAIN Clears = {22, 23, 24, 25, 27, 28, 29, 39, 49, 55, 59}
  /\ Clears[22] = {"bold", "dim"} /\ Clears[23] = {"italic"} /\ Clears[24] = {"underline_style"}
  /\ Clears[25] = {"slow_blink", "rapid_blink"} /\ Clears[27] = {"inverse"}
  /\ Clears[28] = {"conceal"} /\ Clears[29] = {"strikethrough"} /\ Clears[39] = {"foreground"}
  /\ Clears[49] = {"background"} /\ Clears[55] = {"overline"} /\ Clears[59] = {"underline_color"}
  /\ DOMAIN Extended = {38, 48, 58}
  /\ Extended[38] = "foreground" /\ Extended[48] = "background" /\ Extended[58] = "underline_color"
BY DEF Sets, Clears, Extended

-----------------------------------------------------------------------------
(* One turn of the loop of apply_sgr.                                        *)
SkipAt(params, i) ==
  IF First(params[i]) \in DOMAIN Extended THEN parse_sgr_color(params, i).skip ELSE 0
SgrTurn(params, s) ==
  IF s.i > Len(params) THEN s
  ELSE [i |-> s.i + 1 + SkipAt(params, s.i), attrs |-> apply_code(s.attrs, params, s.i)]
Turning(at, params) == \A k \in 1..Len(params) : at[k] = SgrTurn(params, at[k-1])

(* The loop has a run: else take the first number of turns it cannot make.   *)
LEMMA SgrRuns ==
  ASSUME NEW attrs, NEW params, Len(params) \in Nat, params # <<>>
  PROVE  \E at : /\ at[0] = [i |-> 1, attrs |-> attrs] /\ Turning(at, params)
                 /\ apply_sgr(attrs, params) = at[Len(params)].attrs
<1> DEFINE N == Len(params)
           start == [i |-> 1, attrs |-> attrs]
           P(k) == \E f : /\ f = [j \in 0..N |-> f[j]] /\ f[0] = start
                          /\ \A j \in 1..N : j <= k => f[j] = SgrTurn(params, f[j-1])
           T == {k \in Nat : ~P(k)}
<1>1. P(0)
  <2> DEFINE f == [j \in 0..N |-> start]
  <2>1. f = [j \in 0..N |-> f[j]] /\ f[0] = start
    OBVIOUS
  <2>2. \A j \in 1..N : ~(j <= 0)
    OBVIOUS
  <2> HIDE DEF f, start
  <2> QED
    BY <2>1, <2>2
<1>2. ASSUME NEW k \in Nat, P(k) PROVE P(k + 1)
  <2> HIDE DEF start
  <2>1. PICK f : /\ f = [j \in 0..N |-> f[j]] /\ f[0] = start
                 /\ \A j \in 1..N : j <= k => f[j] = SgrTurn(params, f[j-1])
    BY <1>2
  <2>2. PICK e : e = SgrTurn(params, f[k])
    OBVIOUS
  <2> DEFINE h == [j \in 0..N |-> IF j <= k THEN f[j] ELSE e]
  <2>3. \A j \in 0..N : h[j] = IF j <= k THEN f[j] ELSE e
    OBVIOUS
  <2>4. h = [j \in 0..N |-> h[j]]
    OBVIOUS
  <2> HIDE DEF h
  <2>5. h[0] = start
    BY <2>1, <2>3
  <2>6. ASSUME NEW j \in 1..N, j <= k + 1 PROVE h[j] = SgrTurn(params, h[j-1])
    <3>1. j - 1 \in 0..N /\ j - 1 <= k /\ j \in 0..N
      BY <2>6
    <3>2. h[j-1] = f[j-1]
      BY <2>3, <3>1
    <3>3. CASE j <= k
      BY <2>1, <2>3, <3>1, <3>2, <3>3
    <3>4. CASE ~(j <= k)
      <4>1. j - 1 = k
        BY <2>6, <3>4
      <4>2. h[j] = e
        BY <2>3, <3>1, <3>4
      <4> QED
        BY <2>2, <3>2, <4>1, <4>2
    <3> QED
      BY <3>3, <3>4
  <2> QED
    BY <2>4, <2>5, <2>6
<1>3. P(N)
  <2> HIDE DEF P
  <2> SUFFICES ASSUME ~P(N) PROVE FALSE
    OBVIOUS
  <2>1. T \subseteq Nat /\ T # {}
    OBVIOUS
  <2>2. PICK k \in T : \A m \in T : k <= m
    BY <2>1, LeastNatural
  <2>3. k # 0 /\ k \in Nat
    BY <1>1, <2>2
  <2>4. k - 1 \in Nat /\ ~(k <= k - 1) /\ (k - 1) + 1 = k
    BY <2>3
  <2>5. P(k - 1)
    BY <2>2, <2>4
  <2>6. P((k - 1) + 1)
    BY <1>2, <2>4, <2>5
  <2> QED
    BY <2>2, <2>4, <2>6
<1> DEFINE Turns(f) == [k \in 0..N |-> IF k = 0 THEN start ELSE SgrTurn(params, f[k-1])]
           at == CHOOSE f : f = Turns(f)
<1>4. apply_sgr(attrs, params) = at[N].attrs
  BY DEF apply_sgr, SgrTurn, SkipAt
<1> HIDE DEF start
<1>5. PICK f : /\ f = [j \in 0..N |-> f[j]] /\ f[0] = start
               /\ \A j \in 1..N : j <= N => f[j] = SgrTurn(params, f[j-1])
  BY <1>3
<1>6. f = Turns(f)
  <2>1. \A j \in 0..N : f[j] = IF j = 0 THEN start ELSE SgrTurn(params, f[j-1])
    BY <1>5
  <2> QED
    BY <1>5, <2>1
<1>7. at = Turns(at)
  BY <1>6
<1> HIDE DEF at
<1>8. at[0] = start /\ \A j \in 1..N : at[j] = SgrTurn(params, at[j-1])
  BY <1>7
<1> QED
  BY <1>4, <1>8 DEF Turning, start

(* The loop comes to parameter i with the pen a.                             *)
Comes(at, params, i, a) ==
  \E k \in 0..Len(params) : k < i /\ at[k] = [i |-> i, attrs |-> a]

(* Where it comes next.                                                      *)
LEMMA ComesOn ==
  ASSUME NEW at, NEW params, Len(params) \in Nat, Turning(at, params),
         NEW i \in 1..Len(params), NEW a, Comes(at, params, i, a),
         NEW n \in Nat, n = SkipAt(params, i)
  PROVE  Comes(at, params, i + 1 + n, apply_code(a, params, i))
<1>1. PICK k \in 0..Len(params) : k < i /\ at[k] = [i |-> i, attrs |-> a]
  BY DEF Comes
<1>2. k + 1 \in 1..Len(params) /\ (k + 1) - 1 = k /\ k + 1 \in 0..Len(params) /\ k + 1 < i + 1 + n
  BY <1>1
<1>3. at[k+1] = SgrTurn(params, at[k])
  BY <1>2 DEF Turning
<1>4. PICK b : b = apply_code(a, params, i)
  OBVIOUS
<1>5. SgrTurn(params, at[k]) = [i |-> i + 1 + n, attrs |-> b]
  BY <1>1, <1>4 DEF SgrTurn
<1> QED
  BY <1>2, <1>3, <1>4, <1>5 DEF Comes

(* The pen it has at the end is the one it returns.                          *)
LEMMA ComesToAnEnd ==
  ASSUME NEW at, NEW params, Len(params) \in Nat, Turning(at, params), NEW a,
         Comes(at, params, Len(params) + 1, a)
  PROVE  at[Len(params)].attrs = a
<1>1. PICK k \in 0..Len(params) : at[k] = [i |-> Len(params) + 1, attrs |-> a]
  BY DEF Comes
<1> DEFINE T == {m \in k..Len(params) : at[m] # at[k]}
<1>2. T = {}
  <2> SUFFICES ASSUME T # {} PROVE FALSE
    OBVIOUS
  <2>1. T \subseteq Nat
    OBVIOUS
  <2>2. PICK m \in T : \A j \in T : m <= j
    BY <2>1, LeastNatural
  <2>3. m \in k..Len(params) /\ at[m] # at[k] /\ m # k
    OBVIOUS
  <2>4. m - 1 \in k..Len(params) /\ m \in 1..Len(params) /\ ~(m <= m - 1)
    BY <2>3
  <2>5. at[m-1] = at[k]
    BY <2>2, <2>4
  <2>6. at[m] = SgrTurn(params, at[k])
    BY <2>4, <2>5 DEF Turning
  <2>7. SgrTurn(params, at[k]) = at[k]
    BY <1>1 DEF SgrTurn
  <2> QED
    BY <2>3, <2>6, <2>7
<1>3. Len(params) \in k..Len(params)
  OBVIOUS
<1>4. at[Len(params)] = at[k]
  BY <1>2, <1>3
<1> QED
  BY <1>1, <1>4

-----------------------------------------------------------------------------
(* A group of parameters, wherever it stands, turns the pen a into b.        *)
Params == Seq(Seq(Nat))
Stands(params, i, group) ==
  \A j \in 1..Len(group) : i + j - 1 \in 1..Len(params) /\ params[i+j-1] = group[j]
Makes(group, a, b) ==
  \A params \in Params, i \in Nat \ {0} : \A at :
    Turning(at, params) /\ Stands(params, i, group) /\ Comes(at, params, i, a)
      => Comes(at, params, i + Len(group), b)

(* Nothing written, and one group after another.                             *)
LEMMA MakesNone ==
  ASSUME NEW a
  PROVE  Makes(<<>>, a, a)
<1>1. \A i \in Nat : i + Len(<<>>) = i
  OBVIOUS
<1> QED
  BY <1>1 DEF Makes

(* The second group finds the pen the first one leaves.                      *)
LEMMA MakesBoth ==
  ASSUME NEW a, NEW b, NEW c, NEW p \in Params, NEW q \in Params, Makes(p, a, b), Makes(q, b, c)
  PROVE  p \o q \in Params /\ Makes(p \o q, a, c)
<1>0. p \o q \in Params
  BY DEF Params
<1> SUFFICES ASSUME NEW params \in Params, NEW i \in Nat \ {0}, NEW at, Turning(at, params),
                    Stands(params, i, p \o q), Comes(at, params, i, a)
             PROVE  Comes(at, params, i + Len(p \o q), c)
  BY <1>0 DEF Makes
<1>1. Len(p) \in Nat /\ Len(q) \in Nat /\ Len(p \o q) = Len(p) + Len(q)
  BY DEF Params
<1>2. \A j \in 1..Len(p) : j \in 1..Len(p \o q) /\ (p \o q)[j] = p[j]
  BY <1>1 DEF Params
<1>3. \A j \in 1..Len(q) : Len(p) + j \in 1..Len(p \o q) /\ (p \o q)[Len(p) + j] = q[j]
  BY <1>1 DEF Params
<1>4. Stands(params, i, p)
  BY <1>2 DEF Stands
<1>5. Stands(params, i + Len(p), q)
  <2> SUFFICES ASSUME NEW j \in 1..Len(q)
               PROVE  (i + Len(p)) + j - 1 \in 1..Len(params) /\ params[(i + Len(p)) + j - 1] = q[j]
    BY DEF Stands
  <2>1. PICK m : m = Len(p) + j
    OBVIOUS
  <2>2. m \in 1..Len(p \o q) /\ (p \o q)[m] = q[j]
    BY <1>3, <2>1
  <2>3. i + m - 1 \in 1..Len(params) /\ params[i + m - 1] = q[j]
    BY <2>2 DEF Stands
  <2>4. (i + Len(p)) + j - 1 = i + m - 1
    BY <1>1, <2>1
  <2> QED
    BY <2>3, <2>4
<1>6. Comes(at, params, i + Len(p), b)
  BY <1>4 DEF Makes
<1>7. i + Len(p) \in Nat \ {0}
  BY <1>1
<1>8. Comes(at, params, (i + Len(p)) + Len(q), c)
  BY <1>5, <1>6, <1>7 DEF Makes
<1>9. (i + Len(p)) + Len(q) = i + Len(p \o q)
  BY <1>1
<1> QED
  BY <1>8, <1>9

(* What apply_sgr makes of the whole.                                        *)
LEMMA MakesAll ==
  ASSUME NEW params \in Params, params # <<>>, NEW a, NEW b, Makes(params, a, b)
  PROVE  apply_sgr(a, params) = b
<1>1. Len(params) \in Nat
  BY DEF Params
<1>2. PICK at : /\ at[0] = [i |-> 1, attrs |-> a] /\ Turning(at, params)
                /\ apply_sgr(a, params) = at[Len(params)].attrs
  BY <1>1, SgrRuns
<1>3. Comes(at, params, 1, a)
  <2>1. 0 \in 0..Len(params) /\ 0 < 1
    BY <1>1
  <2> QED
    BY <1>2, <2>1 DEF Comes
<1>4. Stands(params, 1, params)
  <2>1. \A j \in 1..Len(params) : 1 + j - 1 = j
    BY <1>1
  <2> QED
    BY <2>1 DEF Stands
<1>5. Comes(at, params, 1 + Len(params), b)
  BY <1>2, <1>3, <1>4 DEF Makes
<1>6. 1 + Len(params) = Len(params) + 1
  BY <1>1
<1> QED
  BY <1>1, <1>2, <1>5, <1>6, ComesToAnEnd

(* One code that is no extended colour.                                      *)
LEMMA MakesCode ==
  ASSUME NEW p \in Seq(Nat), p # <<>>, p[1] \notin DOMAIN Extended, NEW a
  PROVE  <<p>> \in Params /\ Makes(<<p>>, a, apply_code(a, <<p>>, 1))
<1>1. <<p>> \in Params /\ Len(<<p>>) = 1 /\ <<p>>[1] = p
  BY DEF Params
<1> SUFFICES ASSUME NEW params \in Params, NEW i \in Nat \ {0}, NEW at, Turning(at, params),
                    Stands(params, i, <<p>>), Comes(at, params, i, a)
             PROVE  Comes(at, params, i + 1, apply_code(a, <<p>>, 1))
  BY <1>1 DEF Makes
<1>2. i \in 1..Len(params) /\ params[i] = p
  BY <1>1 DEF Stands
<1>3. SkipAt(params, i) = 0
  BY <1>2 DEF SkipAt, First
<1>4. apply_code(a, params, i) = apply_code(a, <<p>>, 1)
  BY <1>1, <1>2 DEF apply_code, First
<1>5. Len(params) \in Nat /\ 0 \in Nat /\ i + 1 + 0 = i + 1
  BY DEF Params
<1>6. Comes(at, params, i + 1 + 0, apply_code(a, params, i))
  BY <1>2, <1>3, <1>5, ComesOn
<1> QED
  BY <1>4, <1>5, <1>6

(* The codes the writer uses, apart from the extended colours.               *)
LEMMA CodeEffects ==
  ASSUME NEW a
  PROVE  /\ \A code \in DOMAIN Sets :
              /\ <<<<code>>>> \in Params
              /\ Makes(<<<<code>>>>, a, With(a, Sets[code], <<>>))
         /\ \A code \in DOMAIN Clears :
              /\ <<<<code>>>> \in Params
              /\ Makes(<<<<code>>>>, a, Without(a, Clears[code]))
         /\ \A n \in 0..7 :
              /\ << <<n + 30>> >> \in Params /\ << <<n + 40>> >> \in Params
              /\ Makes(<< <<n + 30>> >>, a, With(a, "foreground", Idx(n)))
              /\ Makes(<< <<n + 40>> >>, a, With(a, "background", Idx(n)))
         /\ \A n \in 8..15 :
              /\ << <<n + 82>> >> \in Params /\ << <<n + 92>> >> \in Params
              /\ Makes(<< <<n + 82>> >>, a, With(a, "foreground", Idx(n)))
              /\ Makes(<< <<n + 92>> >>, a, With(a, "background", Idx(n)))
         /\ <<<<4>>>> \in Params /\ Makes(<<<<4>>>>, a, With(a, "underline_style", <<1>>))
         /\ \A n \in 2..5 :
              << <<4, n>> >> \in Params /\ Makes(<< <<4, n>> >>, a, With(a, "underline_style", <<n>>))
<1>1. DOMAIN Sets = {1, 2, 3, 5, 6, 7, 8, 9, 53} /\ DOMAIN Extended = {38, 48, 58}
  BY CodeTables
<1>2. DOMAIN Clears = {22, 23, 24, 25, 27, 28, 29, 39, 49, 55, 59}
  BY CodeTables
<1>3. ASSUME NEW code \in Nat, code \notin DOMAIN Extended
      PROVE  /\ <<<<code>>>> \in Params /\ Makes(<<<<code>>>>, a, apply_code(a, <<<<code>>>>, 1))
             /\ First(<<<<code>>>>[1]) = code /\ Len(<<<<code>>>>[1]) = 1
  <2>1. PICK p : p = <<code>>
    OBVIOUS
  <2>2. p \in Seq(Nat) /\ p # <<>> /\ p[1] = code /\ Len(p) = 1
    BY <2>1
  <2>3. <<p>> \in Params /\ Makes(<<p>>, a, apply_code(a, <<p>>, 1)) /\ <<p>>[1] = p
    BY <1>3, <2>2, MakesCode
  <2> QED
    BY <2>1, <2>2, <2>3 DEF First
<1>4. ASSUME NEW code \in DOMAIN Sets
      PROVE  <<<<code>>>> \in Params /\ Makes(<<<<code>>>>, a, With(a, Sets[code], <<>>))
  <2>1. code \in Nat /\ code \notin DOMAIN Extended /\ code # 0
    BY <1>1
  <2>2. apply_code(a, <<<<code>>>>, 1) = With(a, Sets[code], <<>>)
    BY <1>3, <2>1 DEF apply_code
  <2> QED
    BY <1>3, <2>1, <2>2
<1>5. ASSUME NEW code \in DOMAIN Clears
      PROVE  <<<<code>>>> \in Params /\ Makes(<<<<code>>>>, a, Without(a, Clears[code]))
  <2>1. code \in Nat /\ code \notin DOMAIN Extended /\ code \notin DOMAIN Sets /\ code \notin {0, 4, 21}
    BY <1>1, <1>2
  <2>2. apply_code(a, <<<<code>>>>, 1) = Without(a, Clears[code])
    BY <1>3, <2>1 DEF apply_code
  <2> QED
    BY <1>3, <2>1, <2>2
<1>6. ASSUME NEW code \in 30..107, code \notin DOMAIN Extended, code \notin DOMAIN Sets,
             code \notin DOMAIN Clears
      PROVE  /\ <<<<code>>>> \in Params
             /\ code \in 30..37 => Makes(<<<<code>>>>, a, With(a, "foreground", Idx(code - 30)))
             /\ code \in 40..47 => Makes(<<<<code>>>>, a, With(a, "background", Idx(code - 40)))
             /\ code \in 90..97 => Makes(<<<<code>>>>, a, With(a, "foreground", Idx(code - 82)))
             /\ code \in 100..107 => Makes(<<<<code>>>>, a, With(a, "background", Idx(code - 92)))
  <2>1. code \in Nat /\ code \notin {0, 4, 21}
    OBVIOUS
  <2>2. First(<<<<code>>>>[1]) = code
    BY <1>3, <1>6, <2>1
  <2>3. /\ code \in 30..37 => apply_code(a, <<<<code>>>>, 1) = With(a, "foreground", Idx(code - 30))
        /\ code \in 40..47 => apply_code(a, <<<<code>>>>, 1) = With(a, "background", Idx(code - 40))
        /\ code \in 90..97 => apply_code(a, <<<<code>>>>, 1) = With(a, "foreground", Idx(code - 82))
        /\ code \in 100..107 => apply_code(a, <<<<code>>>>, 1) = With(a, "background", Idx(code - 92))
    BY <1>6, <2>1, <2>2 DEF apply_code
  <2> QED
    BY <1>3, <1>6, <2>1, <2>3
<1>7. ASSUME NEW n \in 0..7
      PROVE  /\ << <<n + 30>> >> \in Params /\ << <<n + 40>> >> \in Params
             /\ Makes(<< <<n + 30>> >>, a, With(a, "foreground", Idx(n)))
             /\ Makes(<< <<n + 40>> >>, a, With(a, "background", Idx(n)))
  <2>1. PICK c, d : c = n + 30 /\ d = n + 40
    OBVIOUS
  <2>2. /\ c \in 30..37 /\ d \in 40..47 /\ c \in 30..107 /\ d \in 30..107 /\ c - 30 = n /\ d - 40 = n
        /\ c \notin {38, 48, 58, 53, 39, 49, 55, 59} /\ d \notin {38, 48, 58, 53, 39, 49, 55, 59}
    BY <2>1
  <2>3. /\ c \notin DOMAIN Extended /\ c \notin DOMAIN Sets /\ c \notin DOMAIN Clears
        /\ d \notin DOMAIN Extended /\ d \notin DOMAIN Sets /\ d \notin DOMAIN Clears
    BY <1>1, <1>2, <2>2
  <2> QED
    BY <1>6, <2>1, <2>2, <2>3
<1>8. ASSUME NEW n \in 8..15
      PROVE  /\ << <<n + 82>> >> \in Params /\ << <<n + 92>> >> \in Params
             /\ Makes(<< <<n + 82>> >>, a, With(a, "foreground", Idx(n)))
             /\ Makes(<< <<n + 92>> >>, a, With(a, "background", Idx(n)))
  <2>1. PICK c, d : c = n + 82 /\ d = n + 92
    OBVIOUS
  <2>2. /\ c \in 90..97 /\ d \in 100..107 /\ c \in 30..107 /\ d \in 30..107 /\ c - 82 = n /\ d - 92 = n
    BY <2>1
  <2>3. /\ c \notin DOMAIN Extended /\ c \notin DOMAIN Sets /\ c \notin DOMAIN Clears
        /\ d \notin DOMAIN Extended /\ d \notin DOMAIN Sets /\ d \notin DOMAIN Clears
    BY <1>1, <1>2, <2>2
  <2> QED
    BY <1>6, <2>1, <2>2, <2>3
<1>9. <<<<4>>>> \in Params /\ Makes(<<<<4>>>>, a, With(a, "underline_style", <<1>>))
  <2>1. 4 \in Nat /\ 4 \notin DOMAIN Extended /\ 4 \notin DOMAIN Sets
    BY <1>1
  <2>2. apply_code(a, <<<<4>>>>, 1) = With(a, "underline_style", <<1>>)
    <3>1. First(<<<<4>>>>[1]) = 4 /\ Len(<<<<4>>>>[1]) = 1
      BY <1>3, <2>1
    <3>2. underline_style_from_sgr(a, 1) = With(a, "underline_style", <<1>>)
      BY DEF underline_style_from_sgr
    <3> QED
      BY <2>1, <3>1, <3>2 DEF apply_code
  <2> QED
    BY <1>3, <2>1, <2>2
<1>10. ASSUME NEW n \in 2..5
       PROVE  << <<4, n>> >> \in Params /\ Makes(<< <<4, n>> >>, a, With(a, "underline_style", <<n>>))
  <2>1. PICK p : p = <<4, n>>
    OBVIOUS
  <2>2. p \in Seq(Nat) /\ p # <<>> /\ p[1] = 4 /\ p[2] = n /\ Len(p) = 2
    BY <2>1
  <2>3. PICK q : q = <<p>>
    OBVIOUS
  <2>4. q \in Params /\ Makes(q, a, apply_code(a, q, 1))
    BY <1>1, <2>2, <2>3, MakesCode
  <2>5. q[1] = p
    BY <2>3
  <2>6. First(q[1]) = 4 /\ Len(q[1]) > 1 /\ q[1][2] = n
    BY <2>2, <2>5 DEF First
  <2>7. underline_style_from_sgr(a, n) = With(a, "underline_style", <<n>>)
    BY DEF underline_style_from_sgr
  <2>8. apply_code(a, q, 1) = With(a, "underline_style", <<n>>)
    <3>1. 4 \notin DOMAIN Sets /\ 4 # 0
      BY <1>1
    <3> QED
      BY <2>6, <2>7, <3>1 DEF apply_code
  <2> QED
    BY <2>1, <2>3, <2>4, <2>8
<1> QED
  BY <1>4, <1>5, <1>7, <1>8, <1>9, <1>10

(* The extended colours, indexed and direct.                                 *)
LEMMA IndexedEffect ==
  ASSUME NEW a, NEW code \in DOMAIN Extended, NEW n \in 0..255
  PROVE  /\ << <<code>>, <<5>>, <<n>> >> \in Params
         /\ Makes(<< <<code>>, <<5>>, <<n>> >>, a, With(a, Extended[code], Idx(n)))
<1>0. code \in {38, 48, 58} /\ code \in Nat
  BY CodeTables
<1>1. PICK group : group = << <<code>>, <<5>>, <<n>> >>
  OBVIOUS
<1>2. /\ group \in Params /\ Len(group) = 3
      /\ group[1] = <<code>> /\ group[2] = <<5>> /\ group[3] = <<n>>
  BY <1>0, <1>1 DEF Params
<1> SUFFICES ASSUME NEW params \in Params, NEW i \in Nat \ {0}, NEW at, Turning(at, params),
                    Stands(params, i, group), Comes(at, params, i, a)
             PROVE  Comes(at, params, i + 3, With(a, Extended[code], Idx(n)))
  BY <1>1, <1>2 DEF Makes
<1>3. /\ 1 \in 1..Len(group) /\ 2 \in 1..Len(group) /\ 3 \in 1..Len(group)
      /\ i + 1 - 1 = i /\ i + 2 - 1 = i + 1 /\ i + 3 - 1 = i + 2
  BY <1>2
<1>4. /\ i \in 1..Len(params) /\ i + 2 \in 1..Len(params)
      /\ params[i] = <<code>> /\ params[i+1] = <<5>> /\ params[i+2] = <<n>>
  BY <1>2, <1>3 DEF Stands
<1>5. First(<<code>>) = code /\ First(<<5>>) = 5 /\ First(<<n>>) = n /\ Len(<<code>>) = 1
  BY DEF First
<1>6. Len(params) \in Nat
  BY DEF Params
<1>7. parse_sgr_color(params, i) = [color |-> Idx(n), skip |-> 2]
  <2>1. U8(n) = n
    BY DEF U8
  <2> QED
    BY <1>4, <1>5, <1>6, <2>1 DEF parse_sgr_color
<1>8. SkipAt(params, i) = 2
  BY <1>4, <1>5, <1>7 DEF SkipAt
<1>9. apply_code(a, params, i) = With(a, Extended[code], Idx(n))
  <2>1. /\ code \notin DOMAIN Sets /\ code \notin DOMAIN Clears /\ code \notin {0, 4, 21}
        /\ code \notin 30..37 /\ code \notin 40..47 /\ code \notin 90..97 /\ code \notin 100..107
    BY <1>0, CodeTables
  <2>2. Idx(n) # <<>>
    BY DEF Idx
  <2> QED
    BY <1>4, <1>5, <1>7, <2>1, <2>2 DEF apply_code
<1>10. Comes(at, params, i + 1 + 2, apply_code(a, params, i))
  BY <1>4, <1>6, <1>8, ComesOn
<1> QED
  BY <1>9, <1>10

(* The same for a colour given by its three parts.                           *)
LEMMA DirectEffect ==
  ASSUME NEW a, NEW code \in DOMAIN Extended,
         NEW r \in 0..255, NEW b \in 0..255, NEW e \in 0..255
  PROVE  /\ << <<code>>, <<2>>, <<r>>, <<b>>, <<e>> >> \in Params
         /\ Makes(<< <<code>>, <<2>>, <<r>>, <<b>>, <<e>> >>, a, With(a, Extended[code], Rgb(r, b, e)))
<1>0. code \in {38, 48, 58} /\ code \in Nat
  BY CodeTables
<1>1. PICK group : group = << <<code>>, <<2>>, <<r>>, <<b>>, <<e>> >>
  OBVIOUS
<1>2. /\ group \in Params /\ Len(group) = 5
      /\ group[1] = <<code>> /\ group[2] = <<2>> /\ group[3] = <<r>> /\ group[4] = <<b>> /\ group[5] = <<e>>
  BY <1>0, <1>1 DEF Params
<1> SUFFICES ASSUME NEW params \in Params, NEW i \in Nat \ {0}, NEW at, Turning(at, params),
                    Stands(params, i, group), Comes(at, params, i, a)
             PROVE  Comes(at, params, i + 5, With(a, Extended[code], Rgb(r, b, e)))
  BY <1>1, <1>2 DEF Makes
<1>3. /\ 1 \in 1..Len(group) /\ 2 \in 1..Len(group) /\ 3 \in 1..Len(group)
      /\ 4 \in 1..Len(group) /\ 5 \in 1..Len(group)
      /\ i + 1 - 1 = i /\ i + 2 - 1 = i + 1 /\ i + 3 - 1 = i + 2 /\ i + 4 - 1 = i + 3 /\ i + 5 - 1 = i + 4
  BY <1>2
<1>4. /\ i \in 1..Len(params) /\ i + 4 \in 1..Len(params)
      /\ params[i] = <<code>> /\ params[i+1] = <<2>> /\ params[i+2] = <<r>>
      /\ params[i+3] = <<b>> /\ params[i+4] = <<e>>
  BY <1>2, <1>3 DEF Stands
<1>5. /\ First(<<code>>) = code /\ First(<<2>>) = 2 /\ First(<<r>>) = r /\ First(<<b>>) = b
      /\ First(<<e>>) = e /\ Len(<<code>>) = 1
  BY DEF First
<1>6. Len(params) \in Nat
  BY DEF Params
<1>7. parse_sgr_color(params, i) = [color |-> Rgb(r, b, e), skip |-> 4]
  <2>1. U8(r) = r /\ U8(b) = b /\ U8(e) = e
    BY DEF U8
  <2> QED
    BY <1>4, <1>5, <1>6, <2>1 DEF parse_sgr_color
<1>8. SkipAt(params, i) = 4
  BY <1>4, <1>5, <1>7 DEF SkipAt
<1>9. apply_code(a, params, i) = With(a, Extended[code], Rgb(r, b, e))
  <2>1. /\ code \notin DOMAIN Sets /\ code \notin DOMAIN Clears /\ code \notin {0, 4, 21}
        /\ code \notin 30..37 /\ code \notin 40..47 /\ code \notin 90..97 /\ code \notin 100..107
    BY <1>0, CodeTables
  <2>2. Rgb(r, b, e) # <<>>
    BY DEF Rgb
  <2> QED
    BY <1>4, <1>5, <1>7, <2>1, <2>2 DEF apply_code
<1>10. Comes(at, params, i + 1 + 4, apply_code(a, params, i))
  BY <1>4, <1>6, <1>8, ComesOn
<1> QED
  BY <1>9, <1>10

-----------------------------------------------------------------------------
(* The fields F as the target has them, the others still as they were.       *)
Mix(target, prev, F) == {x \in target : x[1] \in F} \cup {x \in prev : x[1] \notin F}

(* The two have the same value of a field.                                   *)
Agree(target, prev, f) == \A v : <<f, v>> \in target <=> <<f, v>> \in prev

(* One more field: turned to a value, returned to its default, or the same.  *)
LEMMA MixSet ==
  ASSUME NEW target, NEW prev, PenOK(target), NEW F, NEW f, NEW v, <<f, v>> \in target
  PROVE  With(Mix(target, prev, F), f, v) = Mix(target, prev, F \cup {f})
<1>1. \A x \in target : x[1] = f => x = <<f, v>>
  BY DEF PenOK
<1>2. <<f, v>>[1] = f
  OBVIOUS
<1> QED
  BY <1>1, <1>2 DEF With, Without, Mix

(* A field the target lacks, cleared.                                        *)
LEMMA MixClear ==
  ASSUME NEW target, NEW prev, NEW F, NEW f, ~Has(target, f)
  PROVE  Without(Mix(target, prev, F), {f}) = Mix(target, prev, F \cup {f})
BY DEF Has, Without, Mix

(* A field that needs nothing.                                               *)
LEMMA MixSame ==
  ASSUME NEW target, NEW prev, PenOK(target), PenOK(prev), NEW F, NEW f,
         Agree(target, prev, f)
  PROVE  Mix(target, prev, F) = Mix(target, prev, F \cup {f})
<1>0. \A x \in target \cup prev : x = <<x[1], x[2]>>
  BY DEF PenOK
<1>1. \A x : x \in target /\ x[1] = f <=> x \in prev /\ x[1] = f
  BY <1>0 DEF Agree
<1> QED
  BY <1>1 DEF Mix

(* The value of a field.                                                     *)
LEMMA PenValue ==
  ASSUME NEW a, PenOK(a), NEW f
  PROVE  /\ Has(a, f) => <<f, Value(a, f)>> \in a
         /\ ~Has(a, f) => Value(a, f) = <<>>
         /\ \A v : <<f, v>> \in a => Value(a, f) = v
         /\ f \in PenFlags /\ Has(a, f) => <<f, <<>>>> \in a
         /\ f \in PenColors /\ Has(a, f) => IsColor(Value(a, f))
         /\ f = "underline_style" /\ Has(a, f) => \E n \in 1..5 : Value(a, f) = <<n>>
<1>0. \A x \in a : x = <<x[1], x[2]>>
  BY DEF PenOK
<1>1. CASE ~Has(a, f)
  <2>1. \A v : <<f, v>> \notin a
    <3>1. \A v : <<f, v>>[1] = f
      OBVIOUS
    <3> QED
      BY <1>1, <3>1 DEF Has
  <2> QED
    BY <1>1, <2>1 DEF Value
<1>2. CASE Has(a, f)
  <2>1. PICK x : x = CHOOSE y \in a : y[1] = f
    OBVIOUS
  <2>2. x \in a /\ x[1] = f
    BY <1>2, <2>1 DEF Has
  <2>3. Value(a, f) = x[2]
    BY <1>2, <2>1 DEF Value
  <2>4. x = <<f, Value(a, f)>>
    BY <1>0, <2>2, <2>3
  <2>5. \A v : <<f, v>> \in a => Value(a, f) = v
    <3>1. \A v : <<f, v>>[1] = f /\ <<f, v>>[2] = v
      OBVIOUS
    <3>2. \A y \in a : y[1] = f => y = x
      BY <2>2 DEF PenOK
    <3> QED
      BY <2>3, <3>1, <3>2
  <2>6. \/ \E n \in PenFlags : x = <<n, <<>>>>
        \/ \E n \in PenColors : \E v : IsColor(v) /\ x = <<n, v>>
        \/ \E n \in 1..5 : x = <<"underline_style", <<n>>>>
    BY <2>2 DEF PenOK
  <2>7. PICK w : w = Value(a, f)
    OBVIOUS
  <2>8. \A n, v : x = <<n, v>> => n = f /\ v = w
    BY <2>4, <2>7
  <2>9. /\ f \notin PenColors \/ (f \notin PenFlags /\ f # "underline_style")
        /\ f \notin PenFlags \/ f # "underline_style"
    BY DEF PenColors, PenFlags
  <2>10. \/ f \in PenFlags /\ w = <<>>
         \/ f \in PenColors /\ IsColor(w)
         \/ f = "underline_style" /\ \E n \in 1..5 : w = <<n>>
    <3> HIDE DEF PenFlags, PenColors, IsColor
    <3> QED
      BY <2>6, <2>8
  <2> QED
    BY <1>2, <2>2, <2>4, <2>5, <2>7, <2>9, <2>10
<1> QED
  BY <1>1, <1>2

(* A flag that both have or both lack.                                       *)
LEMMA FlagsAgree ==
  ASSUME NEW target, NEW prev, PenOK(target), PenOK(prev), NEW f \in PenFlags,
         Has(target, f) <=> Has(prev, f)
  PROVE  Agree(target, prev, f)
<1>1. \A v : <<f, v>>[1] = f
  OBVIOUS
<1>2. ASSUME NEW a, NEW v, PenOK(a) PROVE <<f, v>> \in a <=> Has(a, f) /\ v = <<>>
  <2>1. <<f, v>> \in a => Has(a, f)
    BY <1>1 DEF Has
  <2>2. Has(a, f) => <<f, <<>>>> \in a
    BY <1>2, PenValue
  <2>3. (<<f, v>> \in a => Value(a, f) = v) /\ (<<f, <<>>>> \in a => Value(a, f) = <<>>)
    BY <1>2, PenValue
  <2> QED
    BY <2>1, <2>2, <2>3
<1> QED
  BY <1>2 DEF Agree

(* The flags, each in a group of its own.                                    *)
LEMMA FlagMakes ==
  ASSUME NEW target, NEW prev, PenOK(target), PenOK(prev), NEW F, NEW on \in DOMAIN Sets,
         NEW off \in DOMAIN Clears, Clears[off] = {Sets[on]}, Sets[on] \in PenFlags
  PROVE  /\ flag_params(target, prev, Sets[on], on, off) \in Params
         /\ Makes(flag_params(target, prev, Sets[on], on, off),
                  Mix(target, prev, F), Mix(target, prev, F \cup {Sets[on]}))
<1>1. PICK f : f = Sets[on]
  OBVIOUS
<1>2. PICK m, n : m = Mix(target, prev, F) /\ n = Mix(target, prev, F \cup {f})
  OBVIOUS
<1>3. CASE Has(target, f) = Has(prev, f)
  <2>1. Agree(target, prev, f)
    <3>1. Has(target, f) <=> Has(prev, f)
      BY <1>3 DEF Has
    <3> QED
      BY <1>1, <3>1, FlagsAgree
  <2>2. m = n
    BY <1>2, <2>1, MixSame
  <2>3. flag_params(target, prev, f, on, off) = <<>>
    BY <1>3 DEF flag_params
  <2>4. <<>> \in Params
    BY DEF Params
  <2> QED
    BY <1>1, <1>2, <2>2, <2>3, <2>4, MakesNone
<1>4. CASE Has(target, f) # Has(prev, f) /\ Has(target, f)
  <2>1. flag_params(target, prev, f, on, off) = <<<<on>>>>
    BY <1>4 DEF flag_params
  <2>2. <<f, <<>>>> \in target
    BY <1>1, <1>4, PenValue
  <2>3. With(m, f, <<>>) = n
    BY <1>2, <2>2, MixSet
  <2>4. <<<<on>>>> \in Params /\ Makes(<<<<on>>>>, m, With(m, f, <<>>))
    BY <1>1, CodeEffects
  <2> QED
    BY <1>1, <1>2, <2>1, <2>3, <2>4
<1>5. CASE Has(target, f) # Has(prev, f) /\ ~Has(target, f)
  <2>1. flag_params(target, prev, f, on, off) = <<<<off>>>>
    BY <1>5 DEF flag_params
  <2>2. Without(m, {f}) = n
    BY <1>2, <1>5, MixClear
  <2>3. <<<<off>>>> \in Params /\ Makes(<<<<off>>>>, m, Without(m, {f}))
    BY <1>1, CodeEffects
  <2> QED
    BY <1>1, <1>2, <2>1, <2>2, <2>3
<1> QED
  BY <1>3, <1>4, <1>5

(* A field with the same value, where no value is written as the default.    *)
LEMMA ValuesAgree ==
  ASSUME NEW target, NEW prev, PenOK(target), PenOK(prev), NEW f \in PenColors \cup {"underline_style"},
         Value(target, f) = Value(prev, f)
  PROVE  Agree(target, prev, f)
<1>1. ~IsColor(<<>>) /\ \A n : <<n>> # <<>>
  BY DEF IsColor, Idx, Rgb
<1>2. \A v : <<f, v>>[1] = f
  OBVIOUS
<1>3. ASSUME NEW a, PenOK(a) PROVE Has(a, f) <=> Value(a, f) # <<>>
  <2>1. ~Has(a, f) => Value(a, f) = <<>>
    BY <1>3, PenValue
  <2>2. /\ f \in PenColors /\ Has(a, f) => IsColor(Value(a, f))
        /\ f = "underline_style" /\ Has(a, f) => \E n \in 1..5 : Value(a, f) = <<n>>
    BY <1>3, PenValue
  <2> QED
    BY <1>1, <2>1, <2>2
<1>4. ASSUME NEW a, NEW v, PenOK(a) PROVE <<f, v>> \in a <=> Value(a, f) # <<>> /\ v = Value(a, f)
  <2>1. <<f, v>> \in a => Has(a, f)
    BY <1>2 DEF Has
  <2>2. Has(a, f) => <<f, Value(a, f)>> \in a
    BY <1>4, PenValue
  <2>3. <<f, v>> \in a => Value(a, f) = v
    BY <1>4, PenValue
  <2> QED
    BY <1>3, <1>4, <2>1, <2>2, <2>3
<1> QED
  BY <1>4 DEF Agree

(* The colours: the short form, the bright one, the extended one, the reset. *)
ColorGroup(target, prev, field, base, bright, extended, reset) ==
  IF Value(target, field) = Value(prev, field) THEN <<>>
  ELSE color_params(Value(target, field), base, bright, extended, reset)

(* The parameters of a colour, read, are that colour.                        *)
LEMMA ColorParams ==
  ASSUME NEW a, NEW v, IsColor(v)
  PROVE  /\ color_params(v, 30, 82, 38, 39) \in Params
         /\ Makes(color_params(v, 30, 82, 38, 39), a, With(a, "foreground", v))
         /\ color_params(v, 40, 92, 48, 49) \in Params
         /\ Makes(color_params(v, 40, 92, 48, 49), a, With(a, "background", v))
         /\ color_params(v, 0, 0, 58, 59) \in Params
         /\ Makes(color_params(v, 0, 0, 58, 59), a, With(a, "underline_color", v))
<1>0. /\ 38 \in DOMAIN Extended /\ 48 \in DOMAIN Extended /\ 58 \in DOMAIN Extended
      /\ Extended[38] = "foreground" /\ Extended[48] = "background" /\ Extended[58] = "underline_color"
  BY CodeTables
<1>1. CASE \E r \in 0..255, b \in 0..255, e \in 0..255 : v = Rgb(r, b, e)
  <2>1. PICK r \in 0..255, b \in 0..255, e \in 0..255 : v = Rgb(r, b, e)
    BY <1>1
  <2>2. v # <<>> /\ v[1] = "Rgb" /\ v[2] = r /\ v[3] = b /\ v[4] = e
    BY <2>1 DEF Rgb
  <2>3. \A base, bright, extended, reset :
          color_params(v, base, bright, extended, reset)
            = << <<extended>>, <<2>>, <<r>>, <<b>>, <<e>> >>
    BY <2>2 DEF color_params
  <2>4. \A code \in DOMAIN Extended :
          /\ << <<code>>, <<2>>, <<r>>, <<b>>, <<e>> >> \in Params
          /\ Makes(<< <<code>>, <<2>>, <<r>>, <<b>>, <<e>> >>, a, With(a, Extended[code], v))
    BY <2>1, DirectEffect
  <2> QED
    BY <1>0, <2>3, <2>4
<1>2. CASE \E n \in 0..255 : v = Idx(n)
  <2>1. PICK n \in 0..255 : v = Idx(n)
    BY <1>2
  <2>2. v # <<>> /\ v[1] = "Idx" /\ v[2] = n /\ v[1] # "Rgb"
    BY <2>1 DEF Idx
  <2>3. \A code \in DOMAIN Extended :
          /\ << <<code>>, <<5>>, <<n>> >> \in Params
          /\ Makes(<< <<code>>, <<5>>, <<n>> >>, a, With(a, Extended[code], v))
    BY <2>1, IndexedEffect
  <2>4. color_params(v, 0, 0, 58, 59) = << <<58>>, <<5>>, <<n>> >>
    BY <2>2 DEF color_params
  <2>5. CASE n \in 0..7
    <3>1. /\ color_params(v, 30, 82, 38, 39) = << <<n + 30>> >>
          /\ color_params(v, 40, 92, 48, 49) = << <<n + 40>> >>
      BY <2>2, <2>5 DEF color_params
    <3>2. /\ << <<n + 30>> >> \in Params /\ << <<n + 40>> >> \in Params
          /\ Makes(<< <<n + 30>> >>, a, With(a, "foreground", v))
          /\ Makes(<< <<n + 40>> >>, a, With(a, "background", v))
      BY <2>1, <2>5, CodeEffects
    <3> QED
      BY <1>0, <2>3, <2>4, <3>1, <3>2
  <2>6. CASE n \in 8..15
    <3>1. /\ color_params(v, 30, 82, 38, 39) = << <<n + 82>> >>
          /\ color_params(v, 40, 92, 48, 49) = << <<n + 92>> >>
      BY <2>2, <2>6 DEF color_params
    <3>2. /\ << <<n + 82>> >> \in Params /\ << <<n + 92>> >> \in Params
          /\ Makes(<< <<n + 82>> >>, a, With(a, "foreground", v))
          /\ Makes(<< <<n + 92>> >>, a, With(a, "background", v))
      BY <2>1, <2>6, CodeEffects
    <3> QED
      BY <1>0, <2>3, <2>4, <3>1, <3>2
  <2>7. CASE n \in 16..255
    <3>1. /\ color_params(v, 30, 82, 38, 39) = << <<38>>, <<5>>, <<n>> >>
          /\ color_params(v, 40, 92, 48, 49) = << <<48>>, <<5>>, <<n>> >>
      BY <2>2, <2>7 DEF color_params
    <3> QED
      BY <1>0, <2>3, <2>4, <3>1
  <2> QED
    BY <2>5, <2>6, <2>7
<1>3. \/ \E n \in 0..255 : v = Idx(n)
      \/ \E r \in 0..255, b \in 0..255, e \in 0..255 : v = Rgb(r, b, e)
  BY DEF IsColor
<1> QED
  BY <1>1, <1>2, <1>3

(* So each colour's group brings its field to the target's.                  *)
LEMMA ColorMakes ==
  ASSUME NEW target, NEW prev, PenOK(target), PenOK(prev), NEW F
  PROVE  /\ ColorGroup(target, prev, "foreground", 30, 82, 38, 39) \in Params
         /\ Makes(ColorGroup(target, prev, "foreground", 30, 82, 38, 39),
                  Mix(target, prev, F), Mix(target, prev, F \cup {"foreground"}))
         /\ ColorGroup(target, prev, "background", 40, 92, 48, 49) \in Params
         /\ Makes(ColorGroup(target, prev, "background", 40, 92, 48, 49),
                  Mix(target, prev, F), Mix(target, prev, F \cup {"background"}))
         /\ ColorGroup(target, prev, "underline_color", 0, 0, 58, 59) \in Params
         /\ Makes(ColorGroup(target, prev, "underline_color", 0, 0, 58, 59),
                  Mix(target, prev, F), Mix(target, prev, F \cup {"underline_color"}))
<1> DEFINE Fits(f, base, bright, extended, reset) ==
             /\ \A a, v : IsColor(v) =>
                  /\ color_params(v, base, bright, extended, reset) \in Params
                  /\ Makes(color_params(v, base, bright, extended, reset), a, With(a, f, v))
             /\ reset \in DOMAIN Clears /\ Clears[reset] = {f} /\ f \in PenColors
<1>1. ASSUME NEW f, NEW base, NEW bright, NEW extended, NEW reset,
             Fits(f, base, bright, extended, reset)
      PROVE  /\ ColorGroup(target, prev, f, base, bright, extended, reset) \in Params
             /\ Makes(ColorGroup(target, prev, f, base, bright, extended, reset),
                      Mix(target, prev, F), Mix(target, prev, F \cup {f}))
  <2>0. PICK group : group = ColorGroup(target, prev, f, base, bright, extended, reset)
    OBVIOUS
  <2>1. PICK m, n : m = Mix(target, prev, F) /\ n = Mix(target, prev, F \cup {f})
    OBVIOUS
  <2>2. PICK v : v = Value(target, f)
    OBVIOUS
  <2> SUFFICES group \in Params /\ Makes(group, m, n)
    BY <2>0, <2>1
  <2>3. CASE v = Value(prev, f)
    <3>1. Agree(target, prev, f)
      BY <1>1, <2>2, <2>3, ValuesAgree
    <3>2. m = n
      BY <2>1, <3>1, MixSame
    <3>3. group = <<>>
      BY <2>0, <2>2, <2>3 DEF ColorGroup
    <3>4. <<>> \in Params
      BY DEF Params
    <3> QED
      BY <3>2, <3>3, <3>4, MakesNone
  <2>4. CASE v # Value(prev, f) /\ Has(target, f)
    <3>1. IsColor(v) /\ <<f, v>> \in target
      BY <1>1, <2>2, <2>4, PenValue
    <3>2. group = color_params(v, base, bright, extended, reset)
      BY <2>0, <2>2, <2>4 DEF ColorGroup
    <3>3. With(m, f, v) = n
      BY <2>1, <3>1, MixSet
    <3> QED
      BY <1>1, <3>1, <3>2, <3>3
  <2>5. CASE v # Value(prev, f) /\ ~Has(target, f)
    <3>1. v = <<>>
      BY <2>2, <2>5, PenValue
    <3>2. group = <<<<reset>>>>
      BY <2>0, <2>2, <2>5, <3>1 DEF ColorGroup, color_params
    <3>3. Without(m, {f}) = n
      BY <2>1, <2>5, MixClear
    <3>4. <<<<reset>>>> \in Params /\ Makes(<<<<reset>>>>, m, Without(m, {f}))
      BY <1>1, CodeEffects
    <3> QED
      BY <3>2, <3>3, <3>4
  <2> QED
    BY <2>3, <2>4, <2>5
<1>2. /\ {39, 49, 59} \subseteq DOMAIN Clears /\ Clears[39] = {"foreground"}
      /\ Clears[49] = {"background"} /\ Clears[59] = {"underline_color"}
      /\ {"foreground", "background", "underline_color"} \subseteq PenColors
  BY CodeTables DEF PenColors
<1>3. Fits("foreground", 30, 82, 38, 39) /\ Fits("background", 40, 92, 48, 49)
      /\ Fits("underline_color", 0, 0, 58, 59)
  BY <1>2, ColorParams
<1> HIDE DEF Fits
<1> QED
  BY <1>1, <1>3

(* Bold and dim, and the two blinks: one code clears both.                   *)
LEMMA PairMakes ==
  ASSUME NEW target, NEW prev, PenOK(target), PenOK(prev), NEW F
  PROVE  /\ intensity_params(target, prev) \in Params
         /\ Makes(intensity_params(target, prev), Mix(target, prev, F),
                  Mix(target, prev, (F \cup {"bold"}) \cup {"dim"}))
         /\ blink_params(target, prev) \in Params
         /\ Makes(blink_params(target, prev), Mix(target, prev, F),
                  Mix(target, prev, (F \cup {"slow_blink"}) \cup {"rapid_blink"}))
<1> DEFINE Fits(f, h, on, also, off, x) ==
             /\ f \in PenFlags /\ h \in PenFlags /\ f # h
             /\ on \in DOMAIN Sets /\ also \in DOMAIN Sets /\ Sets[on] = f /\ Sets[also] = h
             /\ off \in DOMAIN Clears /\ Clears[off] = {f, h}
             /\ \/ x = <<<<off>>>>
                \/ /\ x = <<>>
                   /\ Has(target, f) \/ ~Has(prev, f)
                   /\ Has(target, h) \/ ~Has(prev, h)
           Group(f, h, on, also, x) ==
             x \o (IF Has(target, f) THEN <<<<on>>>> ELSE <<>>)
               \o (IF Has(target, h) THEN <<<<also>>>> ELSE <<>>)
<1>1. ASSUME NEW f, NEW h, NEW on, NEW also, NEW off, NEW x, Fits(f, h, on, also, off, x)
      PROVE  Group(f, h, on, also, x) \in Params
             /\ Makes(Group(f, h, on, also, x), Mix(target, prev, F),
                      Mix(target, prev, (F \cup {f}) \cup {h}))
  <2>0. PICK group : group = Group(f, h, on, also, x)
    OBVIOUS
  <2>1. PICK m, n : m = Mix(target, prev, F) /\ n = Mix(target, prev, (F \cup {f}) \cup {h})
    OBVIOUS
  <2>2. PICK y, z : /\ y = (IF Has(target, f) THEN <<<<on>>>> ELSE <<>>)
                    /\ z = (IF Has(target, h) THEN <<<<also>>>> ELSE <<>>)
    OBVIOUS
  <2>3. PICK a : a = IF x = <<>> THEN m ELSE Without(m, {f, h})
    OBVIOUS
  <2>4. PICK b : b = IF Has(target, f) THEN With(a, f, <<>>) ELSE a
    OBVIOUS
  <2>5. PICK c : c = IF Has(target, h) THEN With(b, h, <<>>) ELSE b
    OBVIOUS
  <2>6. <<>> \in Params
    BY DEF Params
  <2>7. x \in Params /\ Makes(x, m, a)
    <3>1. <<<<off>>>> \in Params /\ Makes(<<<<off>>>>, m, Without(m, {f, h}))
      BY <1>1, CodeEffects
    <3>2. <<<<off>>>> # <<>>
      OBVIOUS
    <3>3. CASE x = <<<<off>>>>
      BY <2>3, <3>1, <3>2, <3>3
    <3>4. CASE x = <<>>
      <4>1. a = m
        BY <2>3, <3>4
      <4>2. Makes(<<>>, m, m)
        BY MakesNone
      <4> QED
        BY <2>6, <3>4, <4>1, <4>2
    <3> QED
      BY <1>1, <3>3, <3>4
  <2>8. y \in Params /\ Makes(y, a, b)
    <3>1. <<<<on>>>> \in Params /\ Makes(<<<<on>>>>, a, With(a, f, <<>>))
      BY <1>1, CodeEffects
    <3> QED
      BY <2>2, <2>4, <2>6, <3>1, MakesNone
  <2>9. z \in Params /\ Makes(z, b, c)
    <3>1. <<<<also>>>> \in Params /\ Makes(<<<<also>>>>, b, With(b, h, <<>>))
      BY <1>1, CodeEffects
    <3> QED
      BY <2>2, <2>5, <2>6, <3>1, MakesNone
  <2>10. PICK w : w = x \o y
    OBVIOUS
  <2>11. w \in Params /\ Makes(w, m, b)
    BY <2>7, <2>8, <2>10, MakesBoth
  <2>12. group = w \o z
    BY <2>0, <2>2, <2>10
  <2>13. group \in Params /\ Makes(group, m, c)
    BY <2>9, <2>11, <2>12, MakesBoth
  <2>14. c = n
    <3> DEFINE here(v) == <<v, <<>>>>
    <3>1. ASSUME NEW v \in {f, h}, NEW d \in {target, prev}
          PROVE  /\ Has(d, v) <=> here(v) \in d
                 /\ \A e \in d : e[1] = v => e = here(v)
      <4>1. PenOK(d) /\ v \in PenFlags
        BY <1>1, <3>1
      <4>2. Has(d, v) => here(v) \in d
        BY <4>1, PenValue
      <4>3. here(v)[1] = v
        OBVIOUS
      <4>4. here(v) \in d => Has(d, v)
        BY <4>3 DEF Has
      <4>5. \A e \in d : e[1] = v => e = here(v)
        <5>1. \A e \in d : e[1] = v => Has(d, v)
          BY DEF Has
        <5> HIDE DEF here
        <5> QED
          BY <4>1, <4>2, <4>3, <5>1 DEF PenOK
      <4> QED
        BY <4>2, <4>4, <4>5
    <3>2. \A v : here(v)[1] = v
      OBVIOUS
    <3>3. /\ With(a, f, <<>>) = Without(a, {f}) \cup {here(f)}
          /\ With(b, h, <<>>) = Without(b, {h}) \cup {here(h)}
      BY DEF With
    <3> HIDE DEF here
    <3>4. \A e : e \in n <=> \/ e \in target /\ (e[1] \in F \/ e[1] = f \/ e[1] = h)
                             \/ e \in prev /\ ~(e[1] \in F \/ e[1] = f \/ e[1] = h)
      BY <2>1 DEF Mix
    <3>5. \A e : e \in m <=> (e \in target /\ e[1] \in F) \/ (e \in prev /\ e[1] \notin F)
      BY <2>1 DEF Mix
    <3>6. \A e : e[1] # f /\ e[1] # h => (e \in a <=> e \in m) /\ (e \in m <=> e \in n)
      BY <2>3, <3>4, <3>5 DEF Without
    <3>7. \A e : e[1] # f /\ e[1] # h => (e \in b <=> e \in a) /\ (e \in c <=> e \in b)
      BY <2>4, <2>5, <3>2, <3>3 DEF Without
    <3>8. \A e : e[1] = f => (e \in b <=> e \in n)
      <4> SUFFICES ASSUME NEW e, e[1] = f PROVE e \in b <=> e \in n
        OBVIOUS
      <4>0. e \in n <=> e \in target
        BY <3>4
      <4>1. CASE Has(target, f)
        <5>1. here(f) \in target /\ (e \in target => e = here(f))
          BY <3>1, <4>1
        <5>2. b = Without(a, {f}) \cup {here(f)}
          BY <2>4, <3>3, <4>1
        <5>3. e \notin Without(a, {f})
          BY DEF Without
        <5> QED
          BY <4>0, <5>1, <5>2, <5>3
      <4>2. CASE ~Has(target, f)
        <5>1. b = a /\ e \notin target
          BY <2>4, <4>2 DEF Has
        <5>2. e \notin a
          <6>1. CASE x # <<>>
            BY <2>3, <6>1 DEF Without
          <6>2. CASE x = <<>>
            <7>0. <<<<off>>>> # <<>>
              OBVIOUS
            <7>1. e \notin prev
              BY <1>1, <4>2, <6>2, <7>0 DEF Has
            <7> QED
              BY <2>3, <3>5, <5>1, <6>2, <7>1
          <6> QED
            BY <6>1, <6>2
        <5> QED
          BY <4>0, <5>1, <5>2
      <4> QED
        BY <4>1, <4>2
    <3>9. \A e : e[1] = f => (e \in c <=> e \in b)
      BY <1>1, <2>5, <3>2, <3>3 DEF Without
    <3>10. \A e : e[1] = h => (e \in c <=> e \in n)
      <4> SUFFICES ASSUME NEW e, e[1] = h PROVE e \in c <=> e \in n
        OBVIOUS
      <4>0. e \in n <=> e \in target
        BY <3>4
      <4>1. CASE Has(target, h)
        <5>1. here(h) \in target /\ (e \in target => e = here(h))
          BY <3>1, <4>1
        <5>2. c = Without(b, {h}) \cup {here(h)}
          BY <2>5, <3>3, <4>1
        <5>3. e \notin Without(b, {h})
          BY DEF Without
        <5> QED
          BY <4>0, <5>1, <5>2, <5>3
      <4>2. CASE ~Has(target, h)
        <5>1. c = b /\ e \notin target
          BY <2>5, <4>2 DEF Has
        <5>2. e \notin a
          <6>1. CASE x # <<>>
            BY <2>3, <6>1 DEF Without
          <6>2. CASE x = <<>>
            <7>0. <<<<off>>>> # <<>>
              OBVIOUS
            <7>1. e \notin prev
              BY <1>1, <4>2, <6>2, <7>0 DEF Has
            <7> QED
              BY <2>3, <3>5, <5>1, <6>2, <7>1
          <6> QED
            BY <6>1, <6>2
        <5>3. e \in b => e \in a
          BY <1>1, <2>4, <3>2, <3>3 DEF Without
        <5> QED
          BY <4>0, <5>1, <5>2, <5>3
      <4> QED
        BY <4>1, <4>2
    <3>11. \A e : e \in c <=> e \in n
      BY <3>6, <3>7, <3>8, <3>9, <3>10
    <3> QED
      <4>1. c \subseteq n /\ n \subseteq c
        BY <3>11
      <4> QED
        BY <4>1
  <2> QED
    BY <2>0, <2>1, <2>13, <2>14
<1>2. ASSUME NEW f \in PenFlags, NEW h \in PenFlags, Has(target, f) <=> Has(prev, f),
             Has(target, h) <=> Has(prev, h)
      PROVE  <<>> \in Params
             /\ Makes(<<>>, Mix(target, prev, F), Mix(target, prev, (F \cup {f}) \cup {h}))
  <2>1. Agree(target, prev, f) /\ Agree(target, prev, h)
    BY <1>2, FlagsAgree
  <2>2. Mix(target, prev, F) = Mix(target, prev, F \cup {f})
    BY <2>1, MixSame
  <2>3. PICK G : G = F \cup {f}
    OBVIOUS
  <2>4. Mix(target, prev, G) = Mix(target, prev, G \cup {h})
    BY <2>1, MixSame
  <2>5. <<>> \in Params
    BY DEF Params
  <2> QED
    BY <2>2, <2>3, <2>4, <2>5, MakesNone
<1>3. {"bold", "dim", "slow_blink", "rapid_blink"} \subseteq PenFlags
  BY DEF PenFlags
<1>4. /\ {1, 2, 5, 6} \subseteq DOMAIN Sets /\ {22, 25} \subseteq DOMAIN Clears
      /\ Sets[1] = "bold" /\ Sets[2] = "dim" /\ Sets[5] = "slow_blink" /\ Sets[6] = "rapid_blink"
      /\ Clears[22] = {"bold", "dim"} /\ Clears[25] = {"slow_blink", "rapid_blink"}
  BY CodeTables
<1>5. \A a, f : Has(a, f) \in BOOLEAN
  BY DEF Has
<1>6. /\ intensity_params(target, prev) \in Params
      /\ Makes(intensity_params(target, prev), Mix(target, prev, F),
               Mix(target, prev, (F \cup {"bold"}) \cup {"dim"}))
  <2>1. CASE /\ Has(target, "bold") <=> Has(prev, "bold")
             /\ Has(target, "dim") <=> Has(prev, "dim")
    <3>1. intensity_params(target, prev) = <<>>
      BY <1>5, <2>1 DEF intensity_params
    <3> QED
      BY <1>2, <1>3, <2>1, <3>1
  <2>2. CASE ~(/\ Has(target, "bold") <=> Has(prev, "bold")
               /\ Has(target, "dim") <=> Has(prev, "dim"))
    <3>1. PICK x : x = IF ~(Has(target, "bold") /\ Has(target, "dim"))
                       THEN <<<<22>>>> ELSE <<>>
      OBVIOUS
    <3>2. intensity_params(target, prev) = Group("bold", "dim", 1, 2, x)
      BY <1>5, <2>2, <3>1 DEF intensity_params
    <3>3. Fits("bold", "dim", 1, 2, 22, x)
      <4>1. 1 \in DOMAIN Sets /\ 2 \in DOMAIN Sets /\ 22 \in DOMAIN Clears
        BY <1>4
      <4>2. "bold" \in PenFlags /\ "dim" \in PenFlags /\ "bold" # "dim"
        BY <1>3
      <4> QED
        BY <1>4, <3>1, <4>1, <4>2
    <3> HIDE DEF Fits, Group
    <3> QED
      BY <1>1, <3>2, <3>3
  <2> QED
    BY <2>1, <2>2
<1>7. /\ blink_params(target, prev) \in Params
      /\ Makes(blink_params(target, prev), Mix(target, prev, F),
               Mix(target, prev, (F \cup {"slow_blink"}) \cup {"rapid_blink"}))
  <2>1. CASE /\ Has(target, "slow_blink") <=> Has(prev, "slow_blink")
             /\ Has(target, "rapid_blink") <=> Has(prev, "rapid_blink")
    <3>1. blink_params(target, prev) = <<>>
      BY <1>5, <2>1 DEF blink_params
    <3> QED
      BY <1>2, <1>3, <2>1, <3>1
  <2>2. CASE ~(/\ Has(target, "slow_blink") <=> Has(prev, "slow_blink")
               /\ Has(target, "rapid_blink") <=> Has(prev, "rapid_blink"))
    <3>1. PICK x : x = IF Has(prev, "slow_blink") \/ Has(prev, "rapid_blink")
                       THEN <<<<25>>>> ELSE <<>>
      OBVIOUS
    <3>2. blink_params(target, prev) = Group("slow_blink", "rapid_blink", 5, 6, x)
      BY <1>5, <2>2, <3>1 DEF blink_params
    <3>3. Fits("slow_blink", "rapid_blink", 5, 6, 25, x)
      <4>1. 5 \in DOMAIN Sets /\ 6 \in DOMAIN Sets /\ 25 \in DOMAIN Clears
        BY <1>4
      <4>2. "slow_blink" \in PenFlags /\ "rapid_blink" \in PenFlags /\ "slow_blink" # "rapid_blink"
        BY <1>3
      <4> QED
        BY <1>4, <3>1, <4>1, <4>2
    <3> HIDE DEF Fits, Group
    <3> QED
      BY <1>1, <3>2, <3>3
  <2> QED
    BY <2>1, <2>2
<1> QED
  BY <1>6, <1>7

(* The underline: none, single, or one of the styles after the colon.        *)
LEMMA UnderlineMakes ==
  ASSUME NEW target, NEW prev, PenOK(target), PenOK(prev), NEW F
  PROVE  /\ underline_params(target, prev) \in Params
         /\ Makes(underline_params(target, prev), Mix(target, prev, F),
                  Mix(target, prev, F \cup {"underline_style"}))
<1>1. PICK group, f : group = underline_params(target, prev) /\ f = "underline_style"
  OBVIOUS
<1>2. PICK m, n : m = Mix(target, prev, F) /\ n = Mix(target, prev, F \cup {f})
  OBVIOUS
<1>3. PICK v : v = Value(target, f)
  OBVIOUS
<1> SUFFICES group \in Params /\ Makes(group, m, n)
  BY <1>1, <1>2
<1>4. CASE v = Value(prev, f)
  <2>1. Agree(target, prev, f)
    BY <1>1, <1>3, <1>4, ValuesAgree
  <2>2. m = n
    BY <1>2, <2>1, MixSame
  <2>3. group = <<>>
    BY <1>1, <1>3, <1>4 DEF underline_params
  <2>4. <<>> \in Params
    BY DEF Params
  <2> QED
    BY <2>2, <2>3, <2>4, MakesNone
<1>5. CASE v # Value(prev, f) /\ Has(target, f)
  <2>1. <<f, v>> \in target /\ \E i \in 1..5 : v = <<i>>
    BY <1>1, <1>3, <1>5, PenValue
  <2>2. PICK i \in 1..5 : v = <<i>>
    BY <2>1
  <2>3. With(m, f, v) = n
    BY <1>2, <2>1, MixSet
  <2>4. v # <<>> /\ v[1] = i /\ (v = <<1>> <=> i = 1)
    BY <2>2
  <2>5. CASE i = 1
    <3>1. group = <<<<4>>>>
      BY <1>1, <1>3, <1>5, <2>4, <2>5 DEF underline_params
    <3>2. <<<<4>>>> \in Params /\ Makes(<<<<4>>>>, m, With(m, "underline_style", <<1>>))
      BY CodeEffects
    <3> QED
      BY <1>1, <2>2, <2>3, <2>5, <3>1, <3>2
  <2>6. CASE i \in 2..5
    <3>1. group = << <<4, i>> >>
      BY <1>1, <1>3, <1>5, <2>4, <2>6 DEF underline_params
    <3>2. << <<4, i>> >> \in Params /\ Makes(<< <<4, i>> >>, m, With(m, "underline_style", <<i>>))
      BY <2>6, CodeEffects
    <3> QED
      BY <1>1, <2>2, <2>3, <3>1, <3>2
  <2> QED
    BY <2>5, <2>6
<1>6. CASE v # Value(prev, f) /\ ~Has(target, f)
  <2>1. v = <<>>
    BY <1>3, <1>6, PenValue
  <2>2. group = <<<<24>>>>
    BY <1>1, <1>3, <1>6, <2>1 DEF underline_params
  <2>3. Without(m, {f}) = n
    BY <1>2, <1>6, MixClear
  <2>4. 24 \in DOMAIN Clears /\ Clears[24] = {f}
    BY <1>1, CodeTables
  <2>5. <<<<24>>>> \in Params /\ Makes(<<<<24>>>>, m, Without(m, {f}))
    BY <2>4, CodeEffects
  <2> QED
    BY <2>2, <2>3, <2>5
<1> QED
  BY <1>4, <1>5, <1>6

(* The whole of what the writer writes.                                      *)
LEMMA GroupsMake ==
  ASSUME NEW target, NEW prev, PenOK(target), PenOK(prev), target # prev, target # {}
  PROVE  /\ write_attrs_diff(target, prev) \in Params
         /\ Makes(write_attrs_diff(target, prev), prev, target)
<1> DEFINE M(F) == Mix(target, prev, F)
           F1 == {} \cup {"foreground"}
           F2 == F1 \cup {"background"}
           F3 == (F2 \cup {"bold"}) \cup {"dim"}
           F4 == F3 \cup {"italic"}
           F5 == F4 \cup {"underline_style"}
           F6 == F5 \cup {"underline_color"}
           F7 == F6 \cup {"inverse"}
           F8 == F7 \cup {"strikethrough"}
           F9 == (F8 \cup {"slow_blink"}) \cup {"rapid_blink"}
           F10 == F9 \cup {"conceal"}
           F11 == F10 \cup {"overline"}
           G1 == ColorGroup(target, prev, "foreground", 30, 82, 38, 39)
           G2 == ColorGroup(target, prev, "background", 40, 92, 48, 49)
           G3 == intensity_params(target, prev)
           G4 == flag_params(target, prev, "italic", 3, 23)
           G5 == underline_params(target, prev)
           G6 == ColorGroup(target, prev, "underline_color", 0, 0, 58, 59)
           G7 == flag_params(target, prev, "inverse", 7, 27)
           G8 == flag_params(target, prev, "strikethrough", 9, 29)
           G9 == blink_params(target, prev)
           G10 == flag_params(target, prev, "conceal", 8, 28)
           G11 == flag_params(target, prev, "overline", 53, 55)
<1>1. M({}) = prev
  BY DEF Mix
<1>2. M(F11) = target
  <2>1. \A x \in target \cup prev : x[1] \in PenFlags \cup PenColors \cup {"underline_style"}
    BY DEF PenOK
  <2>2. PenFlags \cup PenColors \cup {"underline_style"} \subseteq F11
    BY DEF PenFlags, PenColors
  <2> HIDE DEF F11
  <2> QED
    BY <2>1, <2>2 DEF Mix
<1>3. ASSUME NEW F, NEW on, NEW off, NEW f, on \in DOMAIN Sets, off \in DOMAIN Clears,
             Sets[on] = f, Clears[off] = {f}, f \in PenFlags
      PROVE  /\ flag_params(target, prev, f, on, off) \in Params
             /\ Makes(flag_params(target, prev, f, on, off), M(F), M(F \cup {f}))
  BY <1>3, FlagMakes
<1>4. /\ G1 \in Params /\ Makes(G1, M({}), M(F1)) /\ G2 \in Params /\ Makes(G2, M(F1), M(F2))
      /\ G6 \in Params /\ Makes(G6, M(F5), M(F6))
  <2> HIDE DEF F2, F5
  <2>1. G1 \in Params /\ Makes(G1, M({}), M(F1))
    BY ColorMakes
  <2> HIDE DEF F1
  <2>2. G2 \in Params /\ Makes(G2, M(F1), M(F1 \cup {"background"}))
    BY ColorMakes
  <2>3. G6 \in Params /\ Makes(G6, M(F5), M(F6))
    BY ColorMakes
  <2> QED
    BY <2>1, <2>2, <2>3 DEF F2
<1>5. /\ G3 \in Params /\ Makes(G3, M(F2), M(F3)) /\ G9 \in Params /\ Makes(G9, M(F8), M(F9))
  <2> HIDE DEF F2, F8
  <2> QED
    BY PairMakes
<1>6. G5 \in Params /\ Makes(G5, M(F4), M(F5))
  <2> HIDE DEF F4
  <2> QED
    BY UnderlineMakes
<1>7. /\ G4 \in Params /\ Makes(G4, M(F3), M(F4)) /\ G7 \in Params /\ Makes(G7, M(F6), M(F7))
      /\ G8 \in Params /\ Makes(G8, M(F7), M(F8)) /\ G10 \in Params /\ Makes(G10, M(F9), M(F10))
      /\ G11 \in Params /\ Makes(G11, M(F10), M(F11))
  <2>1. /\ {3, 7, 8, 9, 53} \subseteq DOMAIN Sets /\ {23, 27, 28, 29, 55} \subseteq DOMAIN Clears
        /\ Sets[3] = "italic" /\ Sets[7] = "inverse" /\ Sets[8] = "conceal"
        /\ Sets[9] = "strikethrough" /\ Sets[53] = "overline"
        /\ Clears[23] = {"italic"} /\ Clears[27] = {"inverse"} /\ Clears[28] = {"conceal"}
        /\ Clears[29] = {"strikethrough"} /\ Clears[55] = {"overline"}
    BY CodeTables
  <2>2. {"italic", "inverse", "conceal", "strikethrough", "overline"} \subseteq PenFlags
    BY DEF PenFlags
  <2>3. ASSUME NEW F
        PROVE  /\ G4 \in Params /\ Makes(G4, M(F), M(F \cup {"italic"}))
               /\ G7 \in Params /\ Makes(G7, M(F), M(F \cup {"inverse"}))
               /\ G8 \in Params /\ Makes(G8, M(F), M(F \cup {"strikethrough"}))
               /\ G10 \in Params /\ Makes(G10, M(F), M(F \cup {"conceal"}))
               /\ G11 \in Params /\ Makes(G11, M(F), M(F \cup {"overline"}))
    <3>1. G4 \in Params /\ Makes(G4, M(F), M(F \cup {"italic"}))
      BY <1>3, <2>1, <2>2
    <3>2. G7 \in Params /\ Makes(G7, M(F), M(F \cup {"inverse"}))
      BY <1>3, <2>1, <2>2
    <3>3. G8 \in Params /\ Makes(G8, M(F), M(F \cup {"strikethrough"}))
      BY <1>3, <2>1, <2>2
    <3>4. G10 \in Params /\ Makes(G10, M(F), M(F \cup {"conceal"}))
      BY <1>3, <2>1, <2>2
    <3>5. G11 \in Params /\ Makes(G11, M(F), M(F \cup {"overline"}))
      BY <1>3, <2>1, <2>2
    <3> QED
      BY <3>1, <3>2, <3>3, <3>4, <3>5
  <2> HIDE DEF G4, G7, G8, G10, G11, M
  <2> QED
    BY <2>3
<1>8. write_attrs_diff(target, prev)
        = G1 \o G2 \o G3 \o G4 \o G5 \o G6 \o G7 \o G8 \o G9 \o G10 \o G11
  BY DEF write_attrs_diff, ColorGroup
<1> HIDE DEF M, F1, F2, F3, F4, F5, F6, F7, F8, F9, F10, F11,
             G1, G2, G3, G4, G5, G6, G7, G8, G9, G10, G11
<1>9. PICK p2, p3, p4, p5, p6 : /\ p2 = G1 \o G2 /\ p3 = p2 \o G3 /\ p4 = p3 \o G4
                                /\ p5 = p4 \o G5 /\ p6 = p5 \o G6
  OBVIOUS
<1>10. PICK p7, p8, p9, p10, p11 : /\ p7 = p6 \o G7 /\ p8 = p7 \o G8 /\ p9 = p8 \o G9
                                   /\ p10 = p9 \o G10 /\ p11 = p10 \o G11
  OBVIOUS
<1>11. p2 \in Params /\ Makes(p2, prev, M(F2))
  BY <1>1, <1>4, <1>9, MakesBoth
<1>12. p3 \in Params /\ Makes(p3, prev, M(F3))
  BY <1>5, <1>9, <1>11, MakesBoth
<1>13. p4 \in Params /\ Makes(p4, prev, M(F4))
  BY <1>7, <1>9, <1>12, MakesBoth
<1>14. p5 \in Params /\ Makes(p5, prev, M(F5))
  BY <1>6, <1>9, <1>13, MakesBoth
<1>15. p6 \in Params /\ Makes(p6, prev, M(F6))
  BY <1>4, <1>9, <1>14, MakesBoth
<1>16. p7 \in Params /\ Makes(p7, prev, M(F7))
  BY <1>7, <1>10, <1>15, MakesBoth
<1>17. p8 \in Params /\ Makes(p8, prev, M(F8))
  BY <1>7, <1>10, <1>16, MakesBoth
<1>18. p9 \in Params /\ Makes(p9, prev, M(F9))
  BY <1>5, <1>10, <1>17, MakesBoth
<1>19. p10 \in Params /\ Makes(p10, prev, M(F10))
  BY <1>7, <1>10, <1>18, MakesBoth
<1>20. p11 \in Params /\ Makes(p11, prev, M(F11))
  BY <1>7, <1>10, <1>19, MakesBoth
<1>21. write_attrs_diff(target, prev) = p11
  BY <1>8, <1>9, <1>10
<1> QED
  BY <1>2, <1>20, <1>21

(* Writing nothing changes nothing.                                          *)
LEMMA NothingMakesNothing ==
  ASSUME NEW a, NEW b, Makes(<<>>, a, b)
  PROVE  a = b
<1> DEFINE here == [i |-> 1, attrs |-> a]
           at == [k \in {0} |-> here]
<1>1. <<>> \in Params /\ Len(<<>>) = 0
  BY DEF Params
<1>2. Turning(at, <<>>) /\ Stands(<<>>, 1, <<>>)
  BY <1>1 DEF Turning, Stands
<1>3. at[0] = here
  OBVIOUS
<1> HIDE DEF at
<1>4. Comes(at, <<>>, 1, a)
  <2>1. 0 \in 0..Len(<<>>) /\ 0 < 1
    BY <1>1
  <2> QED
    BY <1>3, <2>1 DEF Comes
<1>5. Comes(at, <<>>, 1 + Len(<<>>), b)
  BY <1>1, <1>2, <1>4 DEF Makes
<1>6. PICK k \in 0..Len(<<>>) : at[k] = [i |-> 1 + Len(<<>>), attrs |-> b]
  BY <1>5 DEF Comes
<1>7. k = 0
  BY <1>1
<1>8. [i |-> 1, attrs |-> a].attrs = [i |-> 1 + Len(<<>>), attrs |-> b].attrs
  BY <1>3, <1>6, <1>7
<1> QED
  BY <1>8

(* The parameters of the one SGR that write_attrs_diff writes, read back by  *)
(* apply_sgr, turn the pen prev into exactly target, whatever the two are:   *)
(* no field is lost, and no reset takes along a field it shares a code with. *)
(* Nothing is written only when there is nothing to change.                  *)
THEOREM PenRoundTrip ==
  \A target, prev : PenOK(target) /\ PenOK(prev) =>
    IF target = prev THEN write_attrs_diff(target, prev) = <<>>
    ELSE /\ write_attrs_diff(target, prev) \in Params \ {<<>>}
         /\ apply_sgr(prev, write_attrs_diff(target, prev)) = target
<1> SUFFICES ASSUME NEW target, NEW prev, PenOK(target), PenOK(prev)
             PROVE  IF target = prev THEN write_attrs_diff(target, prev) = <<>>
                    ELSE /\ write_attrs_diff(target, prev) \in Params \ {<<>>}
                         /\ apply_sgr(prev, write_attrs_diff(target, prev)) = target
  OBVIOUS
<1>1. PICK params : params = write_attrs_diff(target, prev)
  OBVIOUS
<1>2. CASE target = prev
  BY <1>2 DEF write_attrs_diff
<1>3. CASE target # prev
  <2>1. params \in Params /\ Makes(params, prev, target)
    <3>1. CASE target = {}
      <4>1. params = <<<<0>>>>
        BY <1>1, <1>3, <3>1 DEF write_attrs_diff
      <4>2. PICK p, q : p = <<0>> /\ q = <<p>>
        OBVIOUS
      <4>3. p \in Seq(Nat) /\ p # <<>> /\ p[1] = 0 /\ 0 \notin DOMAIN Extended
        BY <4>2, CodeTables
      <4>4. q \in Params /\ Makes(q, prev, apply_code(prev, q, 1))
        BY <4>2, <4>3, MakesCode
      <4>5. First(q[1]) = 0
        BY <4>2, <4>3 DEF First
      <4>6. apply_code(prev, q, 1) = {}
        BY <4>5 DEF apply_code
      <4> QED
        BY <3>1, <4>1, <4>2, <4>4, <4>6
    <3>2. CASE target # {}
      BY <1>1, <1>3, <3>2, GroupsMake
    <3> QED
      BY <3>1, <3>2
  <2>2. params # <<>>
    BY <1>3, <2>1, NothingMakesNothing
  <2>3. apply_sgr(prev, params) = target
    BY <2>1, <2>2, MakesAll
  <2> QED
    BY <1>1, <1>3, <2>1, <2>2, <2>3
<1> QED
  BY <1>2, <1>3

(* Whatever is read: a field set to a value it can have, or cleared.         *)
LEMMA PenEdits ==
  ASSUME NEW a, PenOK(a)
  PROVE  /\ \A X : PenOK(Without(a, X))
         /\ \A f \in PenFlags : PenOK(With(a, f, <<>>))
         /\ \A f \in PenColors : \A v : IsColor(v) => PenOK(With(a, f, v))
         /\ \A n \in 1..5 : PenOK(With(a, "underline_style", <<n>>))
<1>1. \A X : PenOK(Without(a, X))
  BY DEF PenOK, Without
<1>2. ASSUME NEW f, NEW v, \/ f \in PenFlags /\ v = <<>>
                           \/ f \in PenColors /\ IsColor(v)
                           \/ f = "underline_style" /\ \E n \in 1..5 : v = <<n>>
      PROVE  PenOK(With(a, f, v))
  <2>1. PICK b, x : b = Without(a, {f}) /\ x = <<f, v>>
    OBVIOUS
  <2>2. PenOK(b) /\ \A y \in b : y[1] # f
    BY <1>1, <2>1 DEF Without
  <2>3. With(a, f, v) = b \cup {x}
    BY <2>1 DEF With
  <2>4. x[1] = f
    BY <2>1
  <2>5. \/ \E e \in PenFlags : x = <<e, <<>>>>
        \/ \E e \in PenColors : \E w : IsColor(w) /\ x = <<e, w>>
        \/ \E n \in 1..5 : x = <<"underline_style", <<n>>>>
    BY <1>2, <2>1
  <2> HIDE DEF PenFlags, PenColors, IsColor
  <2>6. PICK c : c = b \cup {x}
    OBVIOUS
  <2>7. \A y \in c, z \in c : y[1] = z[1] => y = z
    BY <2>2, <2>4, <2>6 DEF PenOK
  <2>8. PenOK(c)
    BY <2>2, <2>5, <2>6, <2>7 DEF PenOK
  <2> QED
    BY <2>3, <2>6, <2>8
<1> QED
  BY <1>1, <1>2

(* A colour read is a colour.                                                *)
LEMMA ColorRead ==
  ASSUME NEW params \in Params, NEW i \in 1..Len(params)
  PROVE  /\ \/ parse_sgr_color(params, i).color = <<>>
            \/ IsColor(parse_sgr_color(params, i).color)
         /\ parse_sgr_color(params, i).skip \in Nat
<1>1. \A n \in Nat : U8(n) \in 0..255
  BY DEF U8
<1>2. /\ \A n \in Nat : IsColor(Idx(U8(n)))
      /\ \A r \in Nat, b \in Nat, e \in Nat : IsColor(Rgb(U8(r), U8(b), U8(e)))
  BY <1>1 DEF IsColor
<1>3. Len(params) \in Nat /\ \A k \in 1..Len(params) : params[k] \in Seq(Nat)
  BY DEF Params
<1>4. \A p \in Seq(Nat) : First(p) \in Nat
  BY DEF First
<1>5. PICK c : c = parse_sgr_color(params, i)
  OBVIOUS
<1>6. CASE Len(params[i]) > 1
  <2>1. PICK v : v = Tail(params[i])
    OBVIOUS
  <2>2. v \in Seq(Nat) /\ Len(v) \in Nat /\ Len(v) >= 1
    BY <1>3, <1>6, <2>1
  <2>3. \A k \in 1..Len(v) : v[k] \in Nat
    BY <2>2
  <2>4. c = [color |-> parse_sgr_color_values(v), skip |-> 0]
    BY <1>5, <1>6, <2>1 DEF parse_sgr_color
  <2>5. parse_sgr_color_values(v) = <<>> \/ IsColor(parse_sgr_color_values(v))
    <3>1. PICK start : start = IF Len(v) >= 5 /\ v[2] = 0 THEN 3 ELSE 2
      OBVIOUS
    <3>2. start \in {2, 3}
      BY <3>1
    <3>3. CASE v[1] = 5 /\ Len(v) >= 2
      <4>1. parse_sgr_color_values(v) = Idx(U8(v[2])) /\ v[2] \in Nat
        BY <2>2, <2>3, <3>3 DEF parse_sgr_color_values
      <4> QED
        BY <1>2, <4>1
    <3>4. CASE ~(v[1] = 5 /\ Len(v) >= 2) /\ v[1] = 2 /\ Len(v) >= start + 2
      <4>1. parse_sgr_color_values(v) = Rgb(U8(v[start]), U8(v[start+1]), U8(v[start+2]))
        BY <3>1, <3>4 DEF parse_sgr_color_values
      <4>2. v[start] \in Nat /\ v[start+1] \in Nat /\ v[start+2] \in Nat
        BY <2>2, <2>3, <3>2, <3>4
      <4> QED
        BY <1>2, <4>1, <4>2
    <3>5. CASE ~(v[1] = 5 /\ Len(v) >= 2) /\ ~(v[1] = 2 /\ Len(v) >= start + 2)
      BY <3>1, <3>5 DEF parse_sgr_color_values
    <3> QED
      BY <3>3, <3>4, <3>5
  <2> QED
    BY <1>5, <2>4, <2>5
<1>7. CASE ~(Len(params[i]) > 1)
  <2>1. CASE i + 2 <= Len(params) /\ First(params[i+1]) = 5
    <3>1. c = [color |-> Idx(U8(First(params[i+2]))), skip |-> 2]
      BY <1>5, <1>7, <2>1 DEF parse_sgr_color
    <3>2. i + 2 \in 1..Len(params)
      BY <1>3, <2>1
    <3>3. IsColor(Idx(U8(First(params[i+2]))))
      BY <1>2, <1>3, <1>4, <3>2
    <3> QED
      BY <1>5, <3>1, <3>3
  <2>2. CASE /\ ~(i + 2 <= Len(params) /\ First(params[i+1]) = 5)
             /\ i + 4 <= Len(params) /\ First(params[i+1]) = 2
    <3>1. PICK r, b, e : r = First(params[i+2]) /\ b = First(params[i+3]) /\ e = First(params[i+4])
      OBVIOUS
    <3>2. c = [color |-> Rgb(U8(r), U8(b), U8(e)), skip |-> 4]
      BY <1>5, <1>7, <2>2, <3>1 DEF parse_sgr_color
    <3>3. i + 2 \in 1..Len(params) /\ i + 3 \in 1..Len(params) /\ i + 4 \in 1..Len(params)
      BY <1>3, <2>2
    <3>4. r \in Nat /\ b \in Nat /\ e \in Nat
      BY <1>3, <1>4, <3>1, <3>3
    <3> QED
      BY <1>2, <1>5, <3>2, <3>4
  <2>3. CASE /\ ~(i + 2 <= Len(params) /\ First(params[i+1]) = 5)
             /\ ~(i + 4 <= Len(params) /\ First(params[i+1]) = 2)
    BY <1>5, <1>7, <2>3 DEF parse_sgr_color
  <2> QED
    BY <2>1, <2>2, <2>3
<1> QED
  BY <1>6, <1>7

(* One code of any number.                                                   *)
LEMMA CodeKeepsPen ==
  ASSUME NEW params \in Params, NEW i \in 1..Len(params), NEW a, PenOK(a)
  PROVE  PenOK(apply_code(a, params, i))
<1>1. PICK code : code = First(params[i])
  OBVIOUS
<1>2. code \in Nat
  BY <1>1 DEF First, Params
<1>3. PenOK({})
  BY DEF PenOK
<1>4. /\ \A c \in DOMAIN Sets : Sets[c] \in PenFlags
      /\ \A c \in DOMAIN Extended : Extended[c] \in PenColors
      /\ "foreground" \in PenColors /\ "background" \in PenColors
  BY CodeTables DEF PenFlags, PenColors
<1>5. \A n \in 0..255 : IsColor(Idx(n))
  BY DEF IsColor
<1>6. \A style : PenOK(underline_style_from_sgr(a, style))
  <2> SUFFICES ASSUME NEW style PROVE PenOK(underline_style_from_sgr(a, style))
    OBVIOUS
  <2>1. PenOK(Without(a, {"underline_style"})) /\ PenOK(With(a, "underline_style", <<1>>))
    BY PenEdits
  <2>2. style \in 2..5 => PenOK(With(a, "underline_style", <<style>>))
    BY PenEdits
  <2> QED
    BY <2>1, <2>2 DEF underline_style_from_sgr
<1>7. PenOK(With(a, "underline_style", <<2>>))
  BY PenEdits
<1>8. /\ \A c \in DOMAIN Sets : PenOK(With(a, Sets[c], <<>>))
      /\ \A X : PenOK(Without(a, X))
  BY <1>4, PenEdits
<1>9. /\ code \in 30..37 => PenOK(With(a, "foreground", Idx(code - 30)))
      /\ code \in 40..47 => PenOK(With(a, "background", Idx(code - 40)))
      /\ code \in 90..97 => PenOK(With(a, "foreground", Idx(code - 82)))
      /\ code \in 100..107 => PenOK(With(a, "background", Idx(code - 92)))
  <2>1. /\ code \in 30..37 => code - 30 \in 0..255
        /\ code \in 40..47 => code - 40 \in 0..255
        /\ code \in 90..97 => code - 82 \in 0..255
        /\ code \in 100..107 => code - 92 \in 0..255
    BY <1>2
  <2> QED
    BY <1>4, <1>5, <2>1, PenEdits
<1>10. code \in DOMAIN Extended /\ parse_sgr_color(params, i).color # <<>>
         => PenOK(With(a, Extended[code], parse_sgr_color(params, i).color))
  BY <1>4, ColorRead, PenEdits
<1> QED
  BY <1>1, <1>3, <1>6, <1>7, <1>8, <1>9, <1>10 DEF apply_code

(* A pen that any SGR leaves is a pen: PenRoundTrip's premise holds of every *)
(* pen apply_sgr makes, beginning with the default one and whatever the      *)
(* parameters, those of a colour cut short or out of range included.         *)
THEOREM PensStayPens ==
  /\ PenOK({})
  /\ \A a, params : PenOK(a) /\ params \in Params => PenOK(apply_sgr(a, params))
<1>1. PenOK({})
  BY DEF PenOK
<1>2. ASSUME NEW a, NEW params, PenOK(a), params \in Params PROVE PenOK(apply_sgr(a, params))
  <2>1. CASE params = <<>>
    BY <1>1, <2>1 DEF apply_sgr
  <2>2. CASE params # <<>>
    <3>1. Len(params) \in Nat
      BY <1>2 DEF Params
    <3>2. PICK at : /\ at[0] = [i |-> 1, attrs |-> a] /\ Turning(at, params)
                    /\ apply_sgr(a, params) = at[Len(params)].attrs
      BY <2>2, <3>1, SgrRuns
    <3> DEFINE Well(k) == at[k].i \in Nat \ {0} /\ PenOK(at[k].attrs)
               T == {k \in 0..Len(params) : ~Well(k)}
    <3>3. Well(0)
      BY <1>2, <3>2
    <3>4. ASSUME NEW k \in 1..Len(params), Well(k - 1) PROVE Well(k)
      <4>1. PICK s : s = at[k-1]
        OBVIOUS
      <4>2. at[k] = SgrTurn(params, s)
        BY <3>2, <4>1 DEF Turning
      <4>3. s.i \in Nat \ {0} /\ PenOK(s.attrs)
        BY <3>4, <4>1
      <4>4. CASE s.i > Len(params)
        BY <4>2, <4>3, <4>4 DEF SgrTurn
      <4>5. CASE ~(s.i > Len(params))
        <5>1. s.i \in 1..Len(params)
          BY <3>1, <4>3, <4>5
        <5>2. SkipAt(params, s.i) \in Nat
          BY <1>2, <5>1, ColorRead DEF SkipAt
        <5>3. PenOK(apply_code(s.attrs, params, s.i))
          BY <1>2, <4>3, <5>1, CodeKeepsPen
        <5>4. PICK n, b : n = s.i + 1 + SkipAt(params, s.i) /\ b = apply_code(s.attrs, params, s.i)
          OBVIOUS
        <5>5. at[k] = [i |-> n, attrs |-> b]
          BY <4>2, <4>5, <5>4 DEF SgrTurn
        <5>6. n \in Nat \ {0} /\ PenOK(b)
          BY <4>3, <5>2, <5>3, <5>4
        <5> QED
          BY <5>5, <5>6
      <4> QED
        BY <4>4, <4>5
    <3>5. T = {}
      <4> SUFFICES ASSUME T # {} PROVE FALSE
        OBVIOUS
      <4>1. T \subseteq Nat
        OBVIOUS
      <4>2. PICK k \in T : \A m \in T : k <= m
        BY <4>1, LeastNatural
      <4> HIDE DEF Well
      <4>3. k \in 0..Len(params) /\ ~Well(k) /\ k # 0
        BY <3>3, <4>2
      <4>4. k \in 1..Len(params) /\ k - 1 \in 0..Len(params) /\ ~(k <= k - 1)
        BY <3>1, <4>3
      <4>5. Well(k - 1)
        BY <4>2, <4>4
      <4> QED
        BY <3>4, <4>3, <4>4, <4>5
    <3>6. Len(params) \in 0..Len(params)
      BY <3>1
    <3>7. Well(Len(params))
      <4> HIDE DEF Well
      <4> QED
        BY <3>5, <3>6
    <3> QED
      BY <3>2, <3>7
  <2> QED
    BY <2>1, <2>2
<1> QED
  BY <1>1, <1>2
=============================================================================
