----------------------------- MODULE Serialize -----------------------------
(***************************************************************************)
(* The grid as a stream (grid/serialize.rs).  state_formatted writes the   *)
(* sequences that rebuild a grid in a new one, state_diff those that turn  *)
(* one state into another.  The writers produce the same parsed sequences  *)
(* Grid performs, so replaying is running process on what was written.     *)
(*                                                                         *)
(* A painter is what has been written so far, with the position and pen    *)
(* the replaying terminal has there.  Positions are <<row, col>>.          *)
(***************************************************************************)
EXTENDS Terminal

CONSTANTS
  Space,           (* U+0020                                                 *)
  NoClient         (* base when nobody follows by replay: Scenes[s].client   *)

ASSUME SpaceAssumption == Space \in Glyph /\ char_width(Space) = 1

VARIABLE base      (* the state a client was last brought to                 *)

replayvars == <<scene, g, steps, base>>

-----------------------------------------------------------------------------
(* Writers.                                                                  *)

write_move_to(to) ==
  IF to = <<0, 0>> THEN <<Csi("H", 0, 0)>> ELSE <<Csi("H", to[1] + 1, to[2] + 1)>>

write_move_from_to(from, to) ==
  IF to[1] = from[1] + 1 /\ to[2] = 0 THEN <<Control("CR"), Control("LF")>>
  ELSE IF from[1] = to[1] /\ from[2] < to[2] THEN <<Csi("C", to[2] - from[2], 0)>>
  ELSE IF to # from THEN write_move_to(to)
  ELSE <<>>

write_erase_chars(n) == IF n = 0 THEN <<>> ELSE <<Csi("X", n, 0)>>

write_pen(target, prev) ==
  LET params == write_attrs_diff(target, prev) IN
  IF params = <<>> THEN <<>> ELSE <<SgrSeq(params)>>

write_contents(cell) == [i \in 1..Len(cell.contents) |-> Text(cell.contents[i])]

write_mode(mode, on) == <<Mode(mode, on)>>

(* write_mouse_mode and write_mouse_encoding: one selects, 0 deselects prev. *)
write_mouse(mode, prev) ==
  IF mode = prev THEN <<>>
  ELSE IF mode = 0 THEN write_mode(prev, FALSE) ELSE write_mode(mode, TRUE)

write_keypad(on) == <<Esc(IF on THEN "=" ELSE ">")>>

write_cursor_style(style) == <<Csi(" q", style, 0)>>

Painter(out, pos, pen) == [out |-> out, pos |-> pos, pen |-> pen]

Write(p, seqs) == [p EXCEPT !.out = @ \o seqs]
MoveTo(p, seqs, pos) == [p EXCEPT !.out = @ \o seqs, !.pos = pos]
SwitchPen(p, attrs) == [p EXCEPT !.out = @ \o write_pen(attrs, p.pen), !.pen = attrs]

-----------------------------------------------------------------------------
(* Row painting.  A context is the screen, the row being painted and whether *)
(* it continues the row above.                                               *)

Ctx(screen, row, cols, wrapping) ==
  [cells |-> screen.cells[row], above |-> IF row > 0 THEN screen.cells[row-1] ELSE <<>>,
   row |-> row, cols |-> cols, wrapping |-> wrapping]

(* The cluster that ends left of col ends with a joiner.                     *)
JoinerBefore(cells, col) ==
  ends_with_zwj(cells[IF cells[col-1].is_wide_continuation /\ col >= 2 THEN col - 2 ELSE col - 1])

(* Mutant: the join barrier is forgotten.                                    *)
NoJoinHazard(cells, col) == FALSE

(* A glyph written at col right after its left neighbour would join it.      *)
zwj_join_hazard(cells, col) == col > 0 /\ JoinerBefore(cells, col)

(* The same for a glyph carried over by the pending wrap of the row above.   *)
zwj_wrap_hazard(ctx) == ctx.row > 0 /\ JoinerBefore(ctx.above, ctx.cols)

(* The replaying cursor is parked at the end of the row above.               *)
ParkedAbove(p, ctx) == p.pos[1] + 1 = ctx.row /\ p.pos[2] >= ctx.cols

(* The move before a content cell: none when the pending wrap or the last    *)
(* glyph leaves the cursor there, unless the glyph would then join.          *)
write_content_move(p, ctx, col) ==
  LET pos == <<ctx.row, col>>
      natural_wrap == ctx.wrapping /\ ParkedAbove(p, ctx) /\ col = 0
  IN IF p.pos = pos
     THEN IF zwj_join_hazard(ctx.cells, col) THEN Write(p, write_move_to(pos)) ELSE p
     ELSE IF natural_wrap
     THEN MoveTo(p, IF zwj_wrap_hazard(ctx) THEN write_move_to(pos) ELSE <<>>, pos)
     ELSE MoveTo(p, write_move_from_to(p.pos, pos), pos)

(* Mutant: narrowing is taken to touch only its own cell.                    *)
NarrowsQuietly(cell) == FALSE

(* Replaying the cell prints a wide glyph and then narrows it, which clears  *)
(* the cell to its right.                                                    *)
narrows_on_replay(cell) == ~cell.is_wide /\ char_width(cell.contents[1]) > 1

(* A run of equal blanks from erase[1], up to end or, when end is 0, to the  *)
(* end of the row.                                                           *)
flush_erase_run(p, erase, row, end) ==
  LET start == <<row, erase[1]>>
      at == SwitchPen(MoveTo(p, write_move_from_to(p.pos, start), start), erase[2])
  IN IF erase = <<>> THEN p
     ELSE Write(at, IF end > 0 THEN write_erase_chars(end - erase[1]) ELSE <<Csi("K", 0, 0)>>)

write_cell(p, ctx, col) ==
  LET cell == ctx.cells[col]
      at == SwitchPen(write_content_move(p, ctx, col), cell.attrs)
  IN MoveTo(at, write_contents(cell),
            <<ctx.row, Lesser(col + 1 + (IF cell.is_wide THEN 1 ELSE 0), ctx.cols)>>)

(* One column of the painting loop, against the cells the terminal shows:    *)
(* skip passes the second half of a wide glyph, repaint forces a cell that   *)
(* has not changed, erase is the run being collected.                        *)
paint_cell(s, ctx, shown, col, diff) ==
  LET cell  == ctx.cells[col]
      flush == s.erase # <<>> /\ (has_contents(cell) \/ cell.attrs # s.erase[2])
      p     == IF flush THEN flush_erase_run(s.p, s.erase, ctx.row, col) ELSE s.p
      erase == IF flush THEN <<>> ELSE s.erase
      next(q, e, repaint) == [p |-> q, erase |-> e, skip |-> cell.is_wide, repaint |-> repaint]
  IN IF s.skip THEN [s EXCEPT !.skip = FALSE]
     ELSE IF ~s.repaint /\ cell = shown[col] THEN next(p, erase, FALSE)
     ELSE IF has_contents(cell)
     THEN next(write_cell(p, ctx, col), erase, diff /\ narrows_on_replay(cell))
     ELSE next(p, IF erase = <<>> THEN <<col, cell.attrs>> ELSE erase, FALSE)

paint_cells(p, ctx, shown, repaint, diff) ==
  LET end == FoldLeft(LAMBDA s, col : paint_cell(s, ctx, shown, col, diff),
                      [p |-> p, erase |-> <<>>, skip |-> FALSE, repaint |-> repaint],
                      [i \in 1..ctx.cols |-> i - 1])
  IN flush_erase_run(end.p, end.erase, ctx.row, 0)

(* Performs a pending wrap with a space and takes the space away again.      *)
WrapBySpace(p, ctx, attrs) ==
  MoveTo(SwitchPen(p, attrs), <<Text(Space), Control("BS")>> \o write_erase_chars(1), <<ctx.row, 0>>)

(* Full paint of a row over blanks.                                          *)
write_row_formatted(p, ctx) ==
  LET start == <<ctx.row, 0>>
      begun == IF ~(ctx.wrapping /\ ctx.cells[0] = DefaultCell) THEN p
               ELSE IF ParkedAbove(p, ctx) /\ ~zwj_wrap_hazard(ctx) THEN WrapBySpace(p, ctx, {})
               ELSE MoveTo(p, write_move_to(start), start)
  IN paint_cells(begun, ctx, blank_row(ctx.cols), FALSE, FALSE)

(* The row as changes to the cells shown: a row that now continues the one   *)
(* above gets its first cell repainted through the wrap.                     *)
write_row_diff(p, ctx, shown, shown_wrapping) ==
  LET first == ctx.cells[0]
      wrap_redraw == /\ ctx.wrapping /\ ~shown_wrapping /\ first = shown[0]
                     /\ ParkedAbove(p, ctx) /\ ~zwj_wrap_hazard(ctx)
  IN IF wrap_redraw /\ ~has_contents(first)
     THEN paint_cells(WrapBySpace(p, ctx, first.attrs), ctx, shown, FALSE, TRUE)
     ELSE paint_cells(p, ctx, shown, wrap_redraw, TRUE)

-----------------------------------------------------------------------------
(* Cursor restore.  A parked cursor is parked again by redrawing the last    *)
(* cell, or, when that is blank, by a space that is erased between a save    *)
(* and a restore of the cursor.                                              *)

write_cursor_position_formatted(p, h) ==
  LET cells == active_grid(h).cells[h.row]
      last  == h.cols - 1
      lead  == IF h.cols >= 2 /\ cells[last].is_wide_continuation THEN last - 1 ELSE last
  IN IF p.pos = <<h.row, h.col>> \/ h.col < h.cols
     THEN write_move_from_to(p.pos, <<h.row, h.col>>)
     ELSE IF has_contents(cells[lead])
     THEN write_move_to(<<h.row, lead>>) \o write_pen(cells[lead].attrs, p.pen)
          \o write_contents(cells[lead]) \o write_pen(p.pen, cells[lead].attrs)
     ELSE write_move_to(<<h.row, last>>) \o <<Text(Space)>> \o write_pen(cells[last].attrs, p.pen)
          \o <<Esc("7"), Control("BS")>> \o write_erase_chars(1) \o <<Esc("8")>>
          \o write_pen(p.pen, cells[last].attrs)

-----------------------------------------------------------------------------
(* Contents.                                                                 *)

row_is_continuation(h, row) == row > 0 /\ active_grid(h).wraps[row] = Soft

RowCtx(h, row) == Ctx(active_grid(h), row, h.cols, row_is_continuation(h, row))

RowsOf(h) == [i \in 1..h.rows |-> i - 1]

write_autowrap_off(h) == IF h.no_autowrap THEN write_mode(7, FALSE) ELSE <<>>

(* The cursor and the pen, once the rows are painted.                        *)
finish_paint(p, h) ==
  p.out \o write_cursor_position_formatted(p, h) \o write_pen(h.pen, p.pen)

write_contents_full_paint(h) ==
  LET preamble == <<SgrSeq(<<<<0>>>>), Csi("H", 0, 0), Csi("J", 0, 0)>>
  IN finish_paint(FoldLeft(LAMBDA p, row : write_row_formatted(p, RowCtx(h, row)),
                           Painter(preamble, <<0, 0>>, {}), RowsOf(h)), h)

contents_formatted(h) ==
  write_mode(7, TRUE) \o write_mode(25, ~h.modes.hide_cursor)
  \o write_contents_full_paint(h) \o write_autowrap_off(h)

(* A changed size or screen cannot be diffed.                                *)
contents_diff(h, prev) ==
  LET shown == active_grid(prev)
      paint == FoldLeft(LAMBDA p, row : write_row_diff(p, RowCtx(h, row), shown.cells[row],
                                                       row_is_continuation(prev, row)),
                        Painter(<<>>, <<prev.row, prev.col>>, prev.pen), RowsOf(h))
      diffable == h.rows = prev.rows /\ h.cols = prev.cols /\ h.alt = prev.alt
  IN write_mode(7, TRUE)
     \o (IF h.modes.hide_cursor # prev.modes.hide_cursor
         THEN write_mode(25, ~h.modes.hide_cursor) ELSE <<>>)
     \o (IF diffable THEN finish_paint(paint, h) ELSE write_contents_full_paint(h))
     \o write_autowrap_off(h)

-----------------------------------------------------------------------------
(* Input modes.                                                              *)

input_mode_formatted(h) ==
  write_mode(7, ~h.no_autowrap) \o write_keypad(h.modes.application_keypad)
  \o write_mode(1, h.modes.application_cursor) \o write_mode(2004, h.modes.bracketed_paste)
  \o write_mouse(h.modes.mouse_mode, 0) \o write_mouse(h.modes.mouse_encoding, 0)
  \o (IF h.alt THEN write_mode(1049, TRUE) ELSE <<>>)
  \o write_mode(25, ~h.modes.hide_cursor) \o write_cursor_style(h.cursor_style)

input_mode_diff(h, prev) ==
  LET changed(field, seqs) == IF h.modes[field] # prev.modes[field] THEN seqs ELSE <<>> IN
  (IF h.no_autowrap # prev.no_autowrap THEN write_mode(7, ~h.no_autowrap) ELSE <<>>)
  \o changed("application_keypad", write_keypad(h.modes.application_keypad))
  \o changed("application_cursor", write_mode(1, h.modes.application_cursor))
  \o changed("bracketed_paste", write_mode(2004, h.modes.bracketed_paste))
  \o write_mouse(h.modes.mouse_mode, prev.modes.mouse_mode)
  \o write_mouse(h.modes.mouse_encoding, prev.modes.mouse_encoding)
  \o (IF h.alt # prev.alt THEN write_mode(1049, h.alt) ELSE <<>>)
  \o changed("hide_cursor", write_mode(25, ~h.modes.hide_cursor))
  \o (IF h.cursor_style # prev.cursor_style THEN write_cursor_style(h.cursor_style) ELSE <<>>)

state_formatted(h) == input_mode_formatted(h) \o contents_formatted(h)

state_diff(h, prev) == input_mode_diff(h, prev) \o contents_diff(h, prev)

(* state_eq: the part of the state the replay contract covers.               *)
ContractModes == {"hide_cursor", "application_keypad", "application_cursor", "bracketed_paste",
                  "mouse_mode", "mouse_encoding"}

ContractCell(cell) == [cell EXCEPT !.hyperlink = 0]

state_eq(h, k) ==
  /\ h.rows = k.rows /\ h.cols = k.cols
  /\ \A r \in 0..h.rows-1, c \in 0..h.cols-1 :
       ContractCell(active_grid(h).cells[r][c]) = ContractCell(active_grid(k).cells[r][c])
  /\ h.row = k.row /\ h.col = k.col /\ h.pen = k.pen
  /\ h.no_autowrap = k.no_autowrap /\ h.alt = k.alt /\ h.cursor_style = k.cursor_style
  /\ \A m \in ContractModes : h.modes[m] = k.modes[m]

-----------------------------------------------------------------------------
(* A client takes the state now and then, and is sent differences since.     *)

ReplayInit == Init /\ base = IF Scenes[scene].client THEN g ELSE NoClient

Work == Next /\ UNCHANGED base

Followed == base # NoClient

Checkpoint == Followed /\ base # g /\ base' = g /\ UNCHANGED termvars

ReplayNext == Work \/ Checkpoint

ReplaySpec == ReplayInit /\ [][ReplayNext]_replayvars

-----------------------------------------------------------------------------
Replica(h) == process(new(h.rows, h.cols), state_formatted(h))

(* Continuations whose attributes are not their lead's.  Writers give both    *)
(* halves one pen; only DCH, which closes a gap between two glyphs, can pair *)
(* a lead with the continuation of another.                                  *)
Mismatched(h) ==
  LET cells == active_grid(h).cells IN
  {rc \in (0..h.rows-1) \X (1..h.cols-1) :
     /\ cells[rc[1]][rc[2]].is_wide_continuation
     /\ cells[rc[1]][rc[2]].attrs # cells[rc[1]][rc[2] - 1].attrs}

(* The state h with the attributes of the lead in each of those.             *)
Rematched(h) ==
  LET screen == active_grid(h) IN
  SetActive(h, [screen EXCEPT !.cells =
    [r \in DOMAIN @ |-> [c \in DOMAIN @[r] |->
       IF <<r, c>> \in Mismatched(h) THEN [@[r][c] EXCEPT !.attrs = screen.cells[r][c-1].attrs]
       ELSE @[r][c]]]])

Reproduces(k, h) == IF Mismatched(h) = {} THEN state_eq(k, h) ELSE state_eq(k, Rematched(h))

(* "Replaying state_formatted into a fresh grid of the same dimensions       *)
(* reproduces the state", with wide and joined glyphs at the margin, a wrap  *)
(* pending over a blank and any pen: exactly, unless DCH left a mismatched   *)
(* pair on the screen.  Then the continuation comes back in its lead's       *)
(* attributes, and everything else still is as it was.                       *)
ReplayReproduces == Followed => Reproduces(Replica(g), g)

(* "Replaying prev.state_formatted() followed by self.state_diff(prev) into  *)
(* a fresh grid reproduces self's state", whatever happened in between, with *)
(* the same exception for the mismatched pairs of self.                      *)
DiffReproduces ==
  Followed /\ g.rows = base.rows /\ g.cols = base.cols =>
    Reproduces(process(Replica(base), state_diff(g, base)), g)

-----------------------------------------------------------------------------
(* What the documentation says and the code does not do (see README).        *)

(* The replay contract: "reproduces the state exactly, where state is        *)
(* visible cells: ... and the full SGR attribute set", from any state that   *)
(* `process` can reach.                                                      *)
ReplayExact == Followed => state_eq(Replica(g), g)
=============================================================================
