-------------------------------- MODULE Grid --------------------------------
(***************************************************************************)
(* The terminal grid (grid.rs DamageGrid) and what each parsed sequence    *)
(* does to it (grid/perform.rs).  The whole grid is one record, and every  *)
(* operation maps a grid to the grid it leaves, so that the serializer's   *)
(* output can be replayed into a second grid.                              *)
(*                                                                         *)
(* The three output buffers of the grid - damage, scroll operations and    *)
(* passthrough events - hold what the last operation put there: the model  *)
(* drains them before every operation.                                     *)
(***************************************************************************)
EXTENDS Cells, Sgr, SequencesExt

CONSTANTS
  ScrollbackLimit,   (* the scrollback limit of a new grid                    *)
  KittyCap           (* KITTY_KB_STACK_CAP                                    *)

ASSUME GridAssumption ==
  ScrollbackLimit \in Nat /\ KittyCap \in Nat

Hard == "Hard"
Soft == "Soft"

-----------------------------------------------------------------------------
(* Construction and access.                                                  *)

blank_screen(rows, cols) ==
  [ cells |-> [r \in 0..rows-1 |-> blank_row(cols)],
    wraps |-> [r \in 0..rows-1 |-> Hard] ]

(* The polled terminal modes at power on.                                    *)
PowerOnModes ==
  [ hide_cursor |-> FALSE, bracketed_paste |-> FALSE, application_cursor |-> FALSE,
    focus_events |-> FALSE, application_keypad |-> FALSE, synchronized_update |-> FALSE,
    text_cursor_enable |-> "unset", mouse_mode |-> 0, mouse_encoding |-> 0 ]

new(rows, cols) ==
  [ rows |-> rows, cols |-> cols,
    primary |-> blank_screen(rows, cols), alternate |-> blank_screen(rows, cols),
    alt |-> FALSE,
    scrollback |-> <<>>, scrollback_limit |-> ScrollbackLimit, scrollback_offset |-> 0,
    last_preserved_block |-> <<>>, mutated |-> FALSE, erase_policy |-> "SaveToScrollback",
    row |-> 0, col |-> 0, saved_row |-> 0, saved_col |-> 0,
    pending_wrap |-> FALSE, no_autowrap |-> FALSE, last_print |-> <<>>,
    scroll_top |-> 0, scroll_bottom |-> rows - 1,
    pen |-> {}, hyperlink |-> 0,
    modes |-> PowerOnModes, cursor_style |-> 0, kitty |-> <<>>,
    dirty |-> {}, scroll_ops |-> <<>>, events |-> <<>> ]

active_grid(g) == IF g.alt THEN g.alternate ELSE g.primary

SetActive(g, screen) ==
  IF g.alt THEN [g EXCEPT !.alternate = screen] ELSE [g EXCEPT !.primary = screen]

CursorCells(g) == active_grid(g).cells[g.row]

SetCursorCells(g, row) ==
  LET screen == active_grid(g) IN
  SetActive(g, [screen EXCEPT !.cells = [@ EXCEPT ![g.row] = row]])

Drained(g) == [g EXCEPT !.dirty = {}, !.scroll_ops = <<>>, !.events = <<>>]

mark_range(g, row, start, end) ==
  [g EXCEPT !.dirty = @ \cup ({row} \X (start..Lesser(end, g.cols)-1))]

mark_all(g) == [g EXCEPT !.dirty = (0..g.rows-1) \X (0..g.cols-1)]

emit(g, event) == [g EXCEPT !.events = Append(@, event)]

-----------------------------------------------------------------------------
(* Cursor.                                                                   *)

clear_pending_wrap(g) ==
  [g EXCEPT !.pending_wrap = FALSE, !.last_print = <<>>, !.col = Lesser(@, g.cols - 1)]

restore_autowrap(g) ==
  IF g.no_autowrap THEN [clear_pending_wrap(g) EXCEPT !.no_autowrap = FALSE] ELSE g

save_cursor(g) == [g EXCEPT !.saved_row = g.row, !.saved_col = g.col]

(* Mutant: the restored phantom column does not re-arm the wrap.             *)
RestoreUnarmed(g) ==
  [g EXCEPT !.pending_wrap = FALSE, !.last_print = <<>>,
            !.row = Lesser(g.saved_row, g.rows - 1), !.col = Lesser(g.saved_col, g.cols)]

(* A saved phantom column comes back as a pending wrap; so does a saved      *)
(* column that a resize has since pushed off the grid.                       *)
restore_saved_cursor(g) ==
  [g EXCEPT !.last_print = <<>>,
            !.pending_wrap = g.saved_col >= g.cols,
            !.row = Lesser(g.saved_row, g.rows - 1),
            !.col = Lesser(g.saved_col, g.cols)]

move_to(g, row, col) ==
  [g EXCEPT !.row = Lesser(row, g.rows - 1), !.col = Lesser(col, g.cols - 1)]

-----------------------------------------------------------------------------
(* Scrolling.                                                                *)

(* The newest scrollback_limit rows survive.                                 *)
push_scrollback(g, rows) ==
  LET all == g.scrollback \o rows
      excess == Greater(Len(all) - g.scrollback_limit, 0)
  IN [g EXCEPT !.scrollback = SubSeq(all, excess + 1, Len(all))]

(* Rows top .. bottom shifted by n rows: up leaves blanks with the given     *)
(* wrap at the bottom, down leaves hard-wrapped blanks at the top.           *)
shift_up(screen, top, bottom, n, cols, wrap) ==
  [ cells |-> [r \in DOMAIN screen.cells |->
                 IF r < top \/ r > bottom THEN screen.cells[r]
                 ELSE IF r + n <= bottom THEN screen.cells[r+n] ELSE blank_row(cols)],
    wraps |-> [r \in DOMAIN screen.wraps |->
                 IF r < top \/ r > bottom THEN screen.wraps[r]
                 ELSE IF r + n <= bottom THEN screen.wraps[r+n] ELSE wrap] ]

shift_down(screen, top, bottom, n, cols) ==
  [ cells |-> [r \in DOMAIN screen.cells |->
                 IF r < top \/ r > bottom THEN screen.cells[r]
                 ELSE IF r - n >= top THEN screen.cells[r-n] ELSE blank_row(cols)],
    wraps |-> [r \in DOMAIN screen.wraps |->
                 IF r < top \/ r > bottom THEN screen.wraps[r]
                 ELSE IF r - n >= top THEN screen.wraps[r-n] ELSE Hard] ]

ScrollOp(dir, top, bottom, n) == [dir |-> dir, top |-> top, bottom |-> bottom, rows |-> n]

record_scroll(g, op) == [g EXCEPT !.scroll_ops = Append(@, op)]

(* Mutant: the alternate screen's rows reach the scrollback too.             *)
ScrollUpFeedsAlways(g, count, wrap) ==
  LET top == g.scroll_top  bottom == g.scroll_bottom
      n == Lesser(count, bottom - top + 1)
      screen == active_grid(g)
      leaving == [i \in 1..n |-> [cells |-> screen.cells[top+i-1], wrap |-> screen.wraps[top+i-1]]]
      recorded == record_scroll([g EXCEPT !.mutated = TRUE], ScrollOp("Up", top, bottom, n))
      fed == IF top < bottom /\ top = 0 /\ g.scrollback_limit > 0
             THEN push_scrollback(recorded, leaving) ELSE recorded
      moved == IF top >= bottom THEN fed
               ELSE SetActive(fed, shift_up(screen, top, bottom, n, g.cols, wrap))
  IN [moved EXCEPT !.dirty = @ \cup ((top..bottom) \X (0..g.cols-1))]

(* scroll_up: a region of one row records the operation and marks the row,   *)
(* but nothing moves.  Rows leaving the top of the primary screen go to the  *)
(* scrollback.                                                               *)
scroll_up(g, count, wrap) ==
  LET top == g.scroll_top  bottom == g.scroll_bottom
      n == Lesser(count, bottom - top + 1)
      screen == active_grid(g)
      leaving == [i \in 1..n |-> [cells |-> screen.cells[top+i-1], wrap |-> screen.wraps[top+i-1]]]
      recorded == record_scroll([g EXCEPT !.mutated = TRUE], ScrollOp("Up", top, bottom, n))
      fed == IF top < bottom /\ ~g.alt /\ top = 0 /\ g.scrollback_limit > 0
             THEN push_scrollback(recorded, leaving) ELSE recorded
      moved == IF top >= bottom THEN fed
               ELSE SetActive(fed, shift_up(screen, top, bottom, n, g.cols, wrap))
  IN [moved EXCEPT !.dirty = @ \cup ((top..bottom) \X (0..g.cols-1))]

(* newline_action_with_wrap: below the region the last row is where it ends. *)
newline_action(g, wrap) ==
  IF g.row = g.scroll_bottom THEN scroll_up(g, 1, wrap)
  ELSE LET down == [g EXCEPT !.row = Lesser(@ + 1, g.rows - 1)]
           screen == active_grid(down)
       IN SetActive(down, [screen EXCEPT !.wraps = [@ EXCEPT ![down.row] = wrap]])

(* The non-blank span of the primary screen, as scrollback rows.             *)
visible_block(g) ==
  LET full == {r \in 0..g.rows-1 : \E c \in 0..g.cols-1 : has_contents(g.primary.cells[r][c])}
  IN IF full = {} THEN <<>>
     ELSE [i \in 1..(Max(full) - Min(full) + 1) |-> g.primary.cells[Min(full) + i - 1]]

(* Mutant: the flag is cleared before the policy is looked at.               *)
PreserveForgetsFirst(g) ==
  LET block == visible_block(g)
      clean == [g EXCEPT !.mutated = FALSE] IN
  IF g.erase_policy = "Discard" \/ g.alt \/ g.scrollback_limit = 0 \/ ~g.mutated \/ block = <<>>
     \/ block = g.last_preserved_block
  THEN clean
  ELSE [push_scrollback(clean, [i \in 1..Len(block) |-> [cells |-> block[i], wrap |-> Hard]])
          EXCEPT !.last_preserved_block = block]

(* preserve_visible_rows_to_scrollback: saves the block a full-screen erase  *)
(* is about to clear, unless nothing was written since the last time or the  *)
(* block is the one saved then.                                              *)
preserve_visible_rows(g) ==
  LET block == visible_block(g)
      clean == [g EXCEPT !.mutated = FALSE] IN
  IF g.erase_policy = "Discard" \/ g.alt \/ g.scrollback_limit = 0 \/ ~g.mutated \/ block = <<>>
  THEN g
  ELSE IF block = g.last_preserved_block THEN clean
  ELSE [push_scrollback(clean, [i \in 1..Len(block) |-> [cells |-> block[i], wrap |-> Hard]])
          EXCEPT !.last_preserved_block = block]

-----------------------------------------------------------------------------
(* Printing.                                                                 *)

(* The column of the cluster a joining scalar would extend: the last column  *)
(* under a pending wrap, the lead of the cell left of the cursor otherwise,  *)
(* -1 at the start of a row.                                                 *)
cluster_col(g) ==
  LET left == IF g.pending_wrap \/ g.col >= g.cols THEN g.cols - 1 ELSE g.col - 1 IN
  IF left > 0 /\ CursorCells(g)[left].is_wide_continuation THEN left - 1 ELSE left

(* What append_to_previous_cluster answers: the scalar starts a cell of its  *)
(* own, is dropped, or joins.                                                *)
cluster_verdict(g, ch) ==
  LET mark == char_width(ch) = 0
      col  == cluster_col(g)
      cell == CursorCells(g)[col]
  IN IF ~mark /\ g.last_print # <<g.row, g.col>> THEN "apart"
     ELSE IF col < 0 THEN (IF mark THEN "drop" ELSE "apart")
     ELSE IF ~mark /\ ~ends_with_zwj(cell) THEN "apart"
     ELSE IF mark /\ ~has_contents(cell) THEN "drop"
     ELSE IF Len(cell.contents) > MaxJoiners THEN (IF mark THEN "drop" ELSE "apart")
     ELSE "join"

(* The join: the cluster may change width, which moves the cursor that stood *)
(* at its end; one that grows up to the right margin arms the wrap.          *)
join_cluster(g, ch) ==
  LET col    == cluster_col(g)
      cell   == CursorCells(g)[col]
      joined == Append(cell.contents, ch)
      old    == cell_width(cell)
      width  == cluster_width(joined)
      row    == [CursorCells(g) EXCEPT ![col].contents = joined, ![col].hyperlink = g.hyperlink]
      at_end == g.col = col + old
      shrunk == at_end /\ g.col >= g.cols /\ width < old
      moved  == IF at_end /\ (g.col < g.cols \/ shrunk) THEN Lesser(col + width, g.cols) ELSE g.col
      parked == g.pending_wrap /\ ~shrunk
      grown  == (parked \/ moved >= g.cols) /\ col + width >= g.cols /\ width > old
      end    == IF grown THEN g.cols ELSE moved
      joined_g == SetCursorCells(g, set_cell_width(row, col, width, cell.attrs))
  IN mark_range([joined_g EXCEPT !.col = end, !.pending_wrap = parked \/ grown,
                                 !.last_print = <<g.row, end>>],
                g.row, col, col + Greater(Greater(old, width), 1))

(* Writing a glyph that starts a cell of its own.                            *)
place_glyph(g, ch, width) ==
  LET row   == CursorCells(g)
      glyph == Cell(<<ch>>, width > 1, g.pen, g.hyperlink)
      start == IF row[g.col].is_wide_continuation /\ g.col > 0 THEN g.col - 1 ELSE g.col
      end   == IF width > 1 /\ g.col + 2 < g.cols /\ row[g.col+1].is_wide THEN g.col + 3
               ELSE IF width < 2 /\ g.col + 1 < g.cols /\ row[g.col].is_wide THEN g.col + 2
               ELSE g.col + width
      after == Lesser(g.col + width, g.cols)
      written == SetCursorCells(g, write_cells(row, g.col, width, glyph))
  IN [mark_range(written, g.row, start, end)
        EXCEPT !.col = after, !.pending_wrap = after = g.cols, !.last_print = <<g.row, after>>]

(* The deferred wrap comes before the glyph; with autowrap off the glyph     *)
(* goes to the last column instead, and a wide one that does not fit is      *)
(* dropped with the cursor left where it is.                                 *)
write_apart(g, ch) ==
  LET width  == char_width(ch)
      wrapped == IF g.pending_wrap /\ ~g.no_autowrap
                 THEN newline_action([g EXCEPT !.pending_wrap = FALSE, !.col = 0], Soft) ELSE g
      col == Lesser(wrapped.col, g.cols - 1)
  IN IF (IF g.no_autowrap THEN width > g.cols - col ELSE wrapped.col >= g.cols) THEN wrapped
     ELSE place_glyph([wrapped EXCEPT !.pending_wrap = FALSE, !.col = col], ch, width)

write_char_at_cursor(g, ch) ==
  LET verdict == cluster_verdict(g, ch)
      mutated == [g EXCEPT !.mutated = TRUE]
  IN IF verdict = "join" THEN join_cluster(mutated, ch)
     ELSE IF verdict = "drop" THEN mutated
     ELSE write_apart(mutated, ch)

-----------------------------------------------------------------------------
(* Erasing.  Blanks take the pen's background.                               *)

blank_cell(g) == Cell(<<>>, FALSE, {x \in g.pen : x[1] = "background"}, 0)

blank_row_bce(g) == [c \in 0..g.cols-1 |-> blank_cell(g)]

(* The cursor's row, erased from the cursor on, or up to and with it.        *)
erase_right(g) == SetCursorCells(g, erase_cells_bce(CursorCells(g), g.col, g.cols, blank_cell(g)))

erase_left(g) ==
  SetCursorCells(g, erase_cells_bce(CursorCells(g), 0, Lesser(g.col, g.cols - 1) + 1, blank_cell(g)))

erase_line(g, mode) ==
  IF mode = 0 THEN mark_range(erase_right(g), g.row, g.col, g.cols)
  ELSE IF mode = 1 THEN mark_range(erase_left(g), g.row, 0, g.col + 1)
  ELSE IF mode = 2 THEN mark_range(SetCursorCells(g, blank_row_bce(g)), g.row, 0, g.cols)
  ELSE g

(* Whole rows blanked; their wrap flags stay.                                *)
blank_rows(g, rows) ==
  LET screen == active_grid(g) IN
  SetActive(g, [screen EXCEPT
    !.cells = [r \in DOMAIN @ |-> IF r \in rows THEN blank_row_bce(g) ELSE @[r]]])

clear_scrollback(g) == [g EXCEPT !.scrollback = <<>>, !.scrollback_offset = 0]

erase_display(g, mode) ==
  LET screen_rows == 0..g.rows-1
      below(h) == blank_rows(erase_right(h), g.row+1..g.rows-1)
  IN mark_all(
       IF mode = 0 THEN below(IF g.row = 0 /\ g.col = 0 THEN preserve_visible_rows(g) ELSE g)
       ELSE IF mode = 1 THEN erase_left(blank_rows(g, 0..g.row-1))
       ELSE IF mode = 2 THEN blank_rows(preserve_visible_rows(g), screen_rows)
       ELSE IF mode = 3 THEN emit(blank_rows(clear_scrollback(g), screen_rows), <<"ScrollbackClear">>)
       ELSE g)

-----------------------------------------------------------------------------
(* C0 controls.                                                              *)

TabStop == 8

backspace(g) ==
  IF g.pending_wrap THEN clear_pending_wrap(g)
  ELSE [g EXCEPT !.col = Greater(@ - 1, 0)]

execute(g, byte) ==
  LET free == clear_pending_wrap(g) IN
  IF byte = "LF" THEN newline_action(free, Hard)
  ELSE IF byte = "CR" THEN [free EXCEPT !.col = 0]
  ELSE IF byte = "BS" THEN backspace(g)
  ELSE IF byte = "HT" THEN [free EXCEPT !.col = Lesser((@ \div TabStop + 1) * TabStop, g.cols - 1)]
  ELSE IF byte = "BEL" THEN emit(g, <<"Bell">>)
  ELSE g

-----------------------------------------------------------------------------
(* CSI sequences, each with the parameters the code reads; n is at least 1   *)
(* where the code takes max(1).                                              *)

Count(p) == Greater(p, 1)

(* CUU, CUD, CUF, CUB, CNL, CPL, CHA, CUP, VPA: from a column inside the row.*)
cursor_move(g0, action, p0, p1) ==
  LET g == clear_pending_wrap(g0)
      n == Count(p0)
      at(p) == Greater(p - 1, 0)
  IN IF action = "A" THEN move_to(g, Greater(g.row - n, 0), g.col)
     ELSE IF action = "B" THEN move_to(g, g.row + n, g.col)
     ELSE IF action = "C" THEN move_to(g, g.row, g.col + n)
     ELSE IF action = "D" THEN move_to(g, g.row, Greater(g.col - n, 0))
     ELSE IF action = "E" THEN move_to(g, g.row + n, 0)
     ELSE IF action = "F" THEN move_to(g, Greater(g.row - n, 0), 0)
     ELSE IF action = "G" THEN move_to(g, g.row, at(p0))
     ELSE IF action = "d" THEN move_to(g, at(p0), g.col)
     ELSE move_to(g, at(p0), at(p1))

ich(g, p0) ==
  mark_range(SetCursorCells(g, insert_chars(CursorCells(g), g.col, Count(p0), g.cols)),
             g.row, g.col, g.cols)

dch(g, p0) ==
  mark_range(SetCursorCells(g, delete_chars(CursorCells(g), g.col, Count(p0), g.cols)),
             g.row, g.col, g.cols)

ech(g, p0) ==
  LET end == Lesser(g.col + Count(p0), g.cols) IN
  mark_range(SetCursorCells(g, erase_cells_bce(CursorCells(g), Lesser(g.col, end), end, blank_cell(g))),
             g.row, g.col, end)

(* IL and DL work between the cursor's row and the bottom margin, and do     *)
(* nothing outside the margins.                                              *)
InMargins(g) == g.scroll_top <= g.row /\ g.row <= g.scroll_bottom

(* Mutant: only the cursor's row is marked.                                  *)
IlMarksOneRow(g, p0) ==
  LET n == Lesser(Count(p0), g.scroll_bottom - g.row + 1) IN
  IF ~InMargins(g) THEN g
  ELSE mark_range(SetActive(record_scroll(g, ScrollOp("Down", g.row, g.scroll_bottom, n)),
                            shift_down(active_grid(g), g.row, g.scroll_bottom, n, g.cols)),
                  g.row, 0, g.cols)

il(g, p0) ==
  LET n == Lesser(Count(p0), g.scroll_bottom - g.row + 1) IN
  IF ~InMargins(g) THEN g
  ELSE mark_all(SetActive(record_scroll(g, ScrollOp("Down", g.row, g.scroll_bottom, n)),
                          shift_down(active_grid(g), g.row, g.scroll_bottom, n, g.cols)))

dl(g, p0) ==
  LET n == Lesser(Count(p0), g.scroll_bottom - g.row + 1) IN
  IF ~InMargins(g) THEN g
  ELSE mark_all(SetActive(record_scroll(g, ScrollOp("Up", g.row, g.scroll_bottom, n)),
                          shift_up(active_grid(g), g.row, g.scroll_bottom, n, g.cols, Hard)))

(* Mutant: the operation is recorded the way SU records its own.             *)
SdRecordsUp(g, p0) ==
  LET n == Lesser(Count(p0), g.scroll_bottom - g.scroll_top + 1) IN
  mark_all(SetActive(record_scroll(g, ScrollOp("Up", g.scroll_top, g.scroll_bottom, n)),
                     shift_down(active_grid(g), g.scroll_top, g.scroll_bottom, n, g.cols)))

sd(g, p0) ==
  LET n == Lesser(Count(p0), g.scroll_bottom - g.scroll_top + 1) IN
  mark_all(SetActive(record_scroll(g, ScrollOp("Down", g.scroll_top, g.scroll_bottom, n)),
                     shift_down(active_grid(g), g.scroll_top, g.scroll_bottom, n, g.cols)))

(* DECSTBM: an empty region means the whole screen; the cursor goes home.    *)
decstbm(g0, p0, p1) ==
  LET g == clear_pending_wrap(g0)
      top == Greater(p0 - 1, 0)
      bottom == IF p1 = 0 THEN g.rows - 1 ELSE Lesser(p1 - 1, g.rows - 1)
      valid == top < bottom
  IN [g EXCEPT !.scroll_top = IF valid THEN top ELSE 0,
               !.scroll_bottom = IF valid THEN bottom ELSE g.rows - 1,
               !.row = 0, !.col = 0]

(* The kitty keyboard stack: a push over the cap is forwarded, not tracked.  *)
kitty_push(g, p0) ==
  emit([g EXCEPT !.kitty = IF Len(@) < KittyCap THEN Append(@, Count(p0)) ELSE @], <<"KittyPush">>)

kitty_pop(g, p0) ==
  emit([g EXCEPT !.kitty = SubSeq(@, 1, Len(@) - Lesser(Count(p0), Len(@)))], <<"KittyPop">>)

clear_kitty_kb_stack(g) == [g EXCEPT !.kitty = <<>>]

(* DECSTR: the pen, the margins, autowrap, the cursor's visibility, the key  *)
(* modes and the saved cursor.                                               *)
decstr(g) ==
  LET reset == [g EXCEPT !.pen = {}, !.scroll_top = 0, !.scroll_bottom = g.rows - 1] IN
  [restore_autowrap(reset) EXCEPT
     !.last_print = <<>>, !.saved_row = 0, !.saved_col = 0,
     !.modes = [@ EXCEPT !.hide_cursor = FALSE, !.application_cursor = FALSE,
                         !.application_keypad = FALSE]]

(* DECRQM's answer for the modes the grid tracks: 1 set, 2 reset, 0 unknown. *)
decrqm_status(g, mode) ==
  LET answer(set) == IF set THEN 1 ELSE 2 IN
  IF mode = 1 THEN answer(g.modes.application_cursor)
  ELSE IF mode = 7 THEN answer(~g.no_autowrap)
  ELSE IF mode = 12 THEN answer(g.modes.text_cursor_enable = "on")
  ELSE IF mode = 25 THEN answer(~g.modes.hide_cursor)
  ELSE IF mode \in {47, 1047, 1049} THEN answer(g.alt)
  ELSE IF mode \in {1000, 1002, 1003} THEN answer(g.modes.mouse_mode = mode)
  ELSE IF mode = 1004 THEN answer(g.modes.focus_events)
  ELSE IF mode \in {1005, 1006, 1015} THEN answer(g.modes.mouse_encoding = mode)
  ELSE IF mode = 2004 THEN answer(g.modes.bracketed_paste)
  ELSE IF mode = 2026 THEN answer(g.modes.synchronized_update)
  ELSE 0

(* DSR: the cursor report names a column of the grid, never the phantom one. *)
device_status(g, p0) ==
  IF p0 = 5 THEN emit(g, <<"Reply">>)
  ELSE IF p0 = 6 THEN emit(g, <<"Reply", g.row + 1, Lesser(g.col, g.cols - 1) + 1>>)
  ELSE g

csi_dispatch(g, action, p0, p1) ==
  IF action \in {"A", "B", "C", "D", "E", "F", "G", "H", "f", "d"} THEN cursor_move(g, action, p0, p1)
  ELSE IF action = "@" THEN ich(g, p0)
  ELSE IF action = "P" THEN dch(g, p0)
  ELSE IF action = "X" THEN ech(g, p0)
  ELSE IF action = "J" THEN erase_display(g, p0)
  ELSE IF action = "K" THEN erase_line(g, p0)
  ELSE IF action = "L" THEN il(g, p0)
  ELSE IF action = "M" THEN dl(g, p0)
  ELSE IF action = "S" THEN scroll_up(g, Count(p0), Hard)
  ELSE IF action = "T" THEN sd(g, p0)
  ELSE IF action = "r" THEN decstbm(g, p0, p1)
  ELSE IF action = "s" THEN save_cursor(g)
  ELSE IF action = "u" THEN restore_saved_cursor(g)
  ELSE IF action = ">u" THEN kitty_push(g, p0)
  ELSE IF action = "<u" THEN kitty_pop(g, p0)
  ELSE IF action = " q" THEN [g EXCEPT !.cursor_style = p0]
  ELSE IF action = "!p" THEN decstr(g)
  ELSE IF action \in {"c", ">c", "?u"} THEN emit(g, <<"Reply">>)
  ELSE IF action = "n" THEN device_status(g, p0)
  ELSE IF action = "?$p" THEN emit(g, <<"Reply", decrqm_status(g, p0)>>)
  ELSE IF action = "$p" THEN emit(g, <<"Reply", 0>>)
  ELSE IF action = ">q" THEN g
  ELSE emit(g, IF action = ">m" /\ p0 = 4 THEN <<"UnhandledCsi">> ELSE <<"DroppedCsi">>)

-----------------------------------------------------------------------------
(* DEC private modes.                                                        *)

set_alt_screen(g, on) == mark_all([g EXCEPT !.alt = on, !.hyperlink = 0])

(* 1049 saves the cursor on the way in; on the way out it restores it and    *)
(* pops every kitty level the program left behind.                           *)
alt_1049(g, on) ==
  IF on THEN clear_pending_wrap(set_alt_screen(save_cursor(g), TRUE))
  ELSE LET left == restore_saved_cursor(set_alt_screen(g, FALSE)) IN
       [left EXCEPT !.kitty = <<>>, !.events = @ \o [i \in 1..Len(g.kitty) |-> <<"KittyPop">>]]

set_dec_mode(g, mode, on) ==
  IF mode = 7 THEN [g EXCEPT !.no_autowrap = ~on]
  ELSE IF mode \in {47, 1047} THEN set_alt_screen(g, on)
  ELSE IF mode = 1049 THEN alt_1049(g, on)
  ELSE IF mode = 1 THEN emit([g EXCEPT !.modes.application_cursor = on], <<"ApplicationCursorKeys">>)
  ELSE IF mode = 12 THEN [g EXCEPT !.modes.text_cursor_enable = IF on THEN "on" ELSE "off"]
  ELSE IF mode = 25 THEN [g EXCEPT !.modes.hide_cursor = ~on]
  ELSE IF mode \in {1000, 1002, 1003} THEN [g EXCEPT !.modes.mouse_mode = IF on THEN mode ELSE 0]
  ELSE IF mode = 1004 THEN emit([g EXCEPT !.modes.focus_events = on], <<"FocusEvents">>)
  ELSE IF mode \in {1005, 1006, 1015}
       THEN [g EXCEPT !.modes.mouse_encoding = IF on THEN mode ELSE 0]
  ELSE IF mode = 2004 THEN emit([g EXCEPT !.modes.bracketed_paste = on], <<"BracketedPaste">>)
  ELSE IF mode = 2026 THEN [g EXCEPT !.modes.synchronized_update = on]
  ELSE g

-----------------------------------------------------------------------------
(* Escapes and OSC strings.                                                  *)

reset_modes(g) ==
  [g EXCEPT !.modes = PowerOnModes, !.no_autowrap = FALSE, !.scrollback_offset = 0, !.hyperlink = 0]

reverse_index(g0) ==
  LET g == clear_pending_wrap(g0) IN
  IF g.row # g.scroll_top THEN [g EXCEPT !.row = Greater(@ - 1, 0)]
  ELSE mark_all(SetActive(record_scroll(g, ScrollOp("Down", g.scroll_top, g.scroll_bottom, 1)),
                          shift_down(active_grid(g), g.scroll_top, g.scroll_bottom, 1, g.cols)))

(* RIS keeps the scrollback, the saved cursor, the cursor style, the kitty   *)
(* stack and the erase policy.                                               *)
ris(g) ==
  LET blank == [g EXCEPT
        !.primary = blank_screen(g.rows, g.cols), !.alternate = blank_screen(g.rows, g.cols),
        !.alt = FALSE, !.pending_wrap = FALSE, !.row = 0, !.col = 0, !.pen = {},
        !.last_print = <<>>, !.scroll_top = 0, !.scroll_bottom = g.rows - 1]
  IN mark_all(reset_modes(blank))

esc_dispatch(g, byte) ==
  IF byte = "M" THEN reverse_index(g)
  ELSE IF byte = "7" THEN save_cursor(g)
  ELSE IF byte = "8" THEN restore_saved_cursor(g)
  ELSE IF byte = "=" THEN [g EXCEPT !.modes.application_keypad = TRUE]
  ELSE IF byte = ">" THEN [g EXCEPT !.modes.application_keypad = FALSE]
  ELSE IF byte = "c" THEN ris(g)
  ELSE g

(* handle_osc: titles, clipboard, working directory and notifications become *)
(* events, colour queries replies; OSC 8 opens the link named by the value,  *)
(* 0 closes it.                                                              *)
osc_dispatch(g, code, value) ==
  IF code \in {0, 1, 2, 7, 9, 52} THEN (IF value = "none" THEN g ELSE emit(g, <<"Osc", code>>))
  ELSE IF code \in {10, 11} THEN (IF value = "?" THEN emit(g, <<"Reply", code>>) ELSE g)
  ELSE IF code = 8 THEN [g EXCEPT !.hyperlink = value]
  ELSE g

-----------------------------------------------------------------------------
(* One parsed sequence, as the vte parser hands it over.                     *)
Text(ch)           == <<"print", ch>>
Control(byte)      == <<"execute", byte>>
Csi(action, p0, p1) == <<"csi", action, p0, p1>>
SgrSeq(params)     == <<"sgr", params>>
Mode(mode, on)     == <<"mode", mode, on>>
Esc(byte)          == <<"esc", byte>>
Osc(code, value)   == <<"osc", code, value>>

perform(g0, seq) ==
  LET g == Drained(g0)  kind == seq[1] IN
  IF kind = "print" THEN write_char_at_cursor(g, seq[2])
  ELSE IF kind = "execute" THEN execute(g, seq[2])
  ELSE IF kind = "csi" THEN csi_dispatch(g, seq[2], seq[3], seq[4])
  ELSE IF kind = "sgr" THEN [g EXCEPT !.pen = apply_sgr(@, seq[2])]
  ELSE IF kind = "mode" THEN set_dec_mode(g, seq[2], seq[3])
  ELSE IF kind = "esc" THEN esc_dispatch(g, seq[2])
  ELSE osc_dispatch(g, seq[2], seq[3])

(* Feeding a whole stream.                                                   *)
process(g, seqs) == FoldLeft(perform, g, seqs)

-----------------------------------------------------------------------------
(* The handle's own operations.                                              *)

(* The same size touches nothing.                                            *)
resize_screen(screen, rows0, cols0, rows, cols) ==
  IF rows = rows0 /\ cols = cols0 THEN screen
  ELSE [ cells |-> [r \in 0..rows-1 |->
           IF r < rows0 THEN resize_row(screen.cells[r], cols0, cols) ELSE blank_row(cols)],
         wraps |-> [r \in 0..rows-1 |-> IF r < rows0 THEN screen.wraps[r] ELSE Hard] ]

(* Mutant: a size of zero is taken as it is.                                 *)
SetSizeUnclamped(g0, rows1, cols1) ==
  mark_all(clear_pending_wrap([g0 EXCEPT
    !.rows = rows1, !.cols = cols1,
    !.primary = resize_screen(@, g0.rows, g0.cols, rows1, cols1),
    !.alternate = resize_screen(@, g0.rows, g0.cols, rows1, cols1),
    !.row = Lesser(@, Greater(rows1 - 1, 0)), !.col = Lesser(@, Greater(cols1 - 1, 0)),
    !.scroll_top = 0, !.scroll_bottom = rows1 - 1]))

(* A zero size is one: the operations index the cursor's row.                *)
set_size(g0, rows1, cols1) ==
  LET rows == Greater(rows1, 1)  cols == Greater(cols1, 1) IN
  mark_all(clear_pending_wrap([g0 EXCEPT
    !.rows = rows, !.cols = cols,
    !.primary = resize_screen(@, g0.rows, g0.cols, rows, cols),
    !.alternate = resize_screen(@, g0.rows, g0.cols, rows, cols),
    !.row = Lesser(@, rows - 1), !.col = Lesser(@, cols - 1),
    !.scroll_top = 0, !.scroll_bottom = rows - 1]))

set_scrollback(g, offset) == [g EXCEPT !.scrollback_offset = Lesser(offset, Len(g.scrollback))]

set_erase_display_policy(g, policy) == [g EXCEPT !.erase_policy = policy]
=============================================================================
