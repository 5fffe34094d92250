------------------------------ MODULE Terminal ------------------------------
(***************************************************************************)
(* The grid at work: a program's sequences and the handle's calls in any   *)
(* order, the views of history (grid.rs, snapshot.rs), and what must hold  *)
(* of them.                                                                *)
(***************************************************************************)
EXTENDS Grid

CONSTANTS
  Scenes       (* scenes by name: a size, the streams fed before the checked *)
               (* steps begin, what the steps may feed and resize to, the    *)
               (* offsets set_scrollback is called with and, as a bound, the *)
               (* number of steps                                            *)

(* What the vte parser hands over: a print carries a scalar, a control       *)
(* sequence its parameters as numbers.                                       *)
WellFormed(seq) ==
  /\ seq[1] = "print" => seq[2] \in Glyph
  /\ seq[1] = "csi" => seq[3] \in Nat /\ seq[4] \in Nat

(* A new grid has a cell: a session opens no PTY of size zero, and new does  *)
(* not clamp as set_size does.                                               *)
ASSUME SceneAssumption ==
  \A s \in DOMAIN Scenes :
       /\ Scenes[s].rows \in Nat \ {0} /\ Scenes[s].cols \in Nat \ {0}
       /\ \A p \in Scenes[s].preludes :
            p \in Seq(Range(p)) /\ \A i \in 1..Len(p) : WellFormed(p[i])
       /\ \A seq \in Scenes[s].stream : WellFormed(seq)
       /\ \A size \in Scenes[s].sizes : size[1] \in Nat /\ size[2] \in Nat
       /\ Scenes[s].offsets \subseteq Nat

VARIABLES
  scene,       (* the scene chosen                                           *)
  g,           (* the grid                                                   *)
  steps        (* history: operations since the prelude                      *)

termvars == <<scene, g, steps>>

-----------------------------------------------------------------------------
(* Views of the scrollback.                                                  *)

(* The rows at offset lines back from the live tail, at most max_rows.       *)
scrollback_rows_at_offset(offset, max_rows) ==
  LET len == Len(g.scrollback)
      start == len - Lesser(offset, len)
  IN IF offset = 0 \/ len = 0 \/ max_rows = 0 THEN <<>>
     ELSE SubSeq(g.scrollback, start + 1, Lesser(start + max_rows, len))

LiveRows == [i \in 1..g.rows |-> [cells |-> active_grid(g).cells[i-1],
                                  wrap  |-> active_grid(g).wraps[i-1]]]

(* dump_scrollback_view: history on top, the live screen below it.           *)
dump_scrollback_view(offset, viewport) ==
  LET draw == Lesser(viewport, g.rows)
      history == scrollback_rows_at_offset(offset, draw)
  IN IF offset = 0 \/ history = <<>> THEN LiveRows
     ELSE history \o SubSeq(LiveRows, 1, draw - Len(history))

(* scrollback_view: the same without copies, as a start and a prefix length. *)
scrollback_view(offset, viewport) ==
  LET len == Len(g.scrollback)
      draw == Lesser(viewport, g.rows)
      start == len - Lesser(offset, len)
  IN IF offset = 0 \/ len = 0 \/ viewport = 0
     THEN [rows |-> g.rows, start |-> 0, prefix |-> 0]
     ELSE [rows |-> draw, start |-> start,
           prefix |-> Lesser(Lesser(start + draw, len) - start, draw)]

(* GridView::cell and row_wrap.                                              *)
view_row(view, row) ==
  IF row < view.prefix THEN g.scrollback[view.start + row + 1] ELSE LiveRows[row - view.prefix + 1]

(* Mutant: the link lookup counts history rows from the newest.              *)
ContentRowBackwards(content_row) ==
  LET len == Len(g.scrollback)
      start == len - Lesser(g.scrollback_offset, len)
      prefix == Lesser(Lesser(start + g.rows, len) - start, g.rows)
  IN IF g.scrollback_offset = 0 THEN active_grid(g).cells[content_row]
     ELSE IF content_row < prefix THEN g.scrollback[start + prefix - content_row].cells
     ELSE active_grid(g).cells[content_row - prefix]

(* active_content_row_cells: the row a hyperlink is looked up in.            *)
active_content_row_cells(content_row) ==
  LET len == Len(g.scrollback)
      start == len - Lesser(g.scrollback_offset, len)
      prefix == Lesser(Lesser(start + g.rows, len) - start, g.rows)
  IN IF g.scrollback_offset = 0 THEN active_grid(g).cells[content_row]
     ELSE IF content_row < prefix THEN g.scrollback[start + content_row + 1].cells
     ELSE active_grid(g).cells[content_row - prefix]

-----------------------------------------------------------------------------
Init ==
  /\ scene \in DOMAIN Scenes
  /\ \E p \in Scenes[scene].preludes :
       g = Drained(process(new(Scenes[scene].rows, Scenes[scene].cols), p))
  /\ steps = 0

Step(next) == steps < Scenes[scene].steps /\ steps' = steps + 1 /\ g' = next /\ UNCHANGED scene

Feeds(kind) == \E seq \in Scenes[scene].stream : seq[1] = kind /\ Step(perform(g, seq))

FeedText       == Feeds("print")
FeedControl    == Feeds("execute")
FeedCsi        == Feeds("csi")
FeedSgr        == Feeds("sgr")
FeedMode       == Feeds("mode")
FeedEsc        == Feeds("esc")
FeedOsc        == Feeds("osc")
SetSize        == \E s \in Scenes[scene].sizes : Step(set_size(Drained(g), s[1], s[2]))
SetScrollback  == \E o \in Scenes[scene].offsets : Step(set_scrollback(Drained(g), o))
ClearScrollback == Step(clear_scrollback(Drained(g)))
ClearKittyStack == Step(clear_kitty_kb_stack(Drained(g)))
SetErasePolicy == \E p \in {"SaveToScrollback", "Discard"} :
                    Step(set_erase_display_policy(Drained(g), p))

Done == steps = Scenes[scene].steps /\ UNCHANGED termvars

Next ==
  \/ FeedText \/ FeedControl \/ FeedCsi \/ FeedSgr \/ FeedMode \/ FeedEsc \/ FeedOsc
  \/ SetSize \/ SetScrollback \/ ClearScrollback \/ ClearKittyStack \/ SetErasePolicy
  \/ Done

Spec == Init /\ [][Next]_termvars

-----------------------------------------------------------------------------
Screens == {g.primary, g.alternate}

(* Sizes agree, and everything the code indexes with is in range: the cursor *)
(* is on the grid or parked just past the last column, the view of history   *)
(* starts inside it and history inside its limit.                            *)
TypeOK ==
  /\ \A s \in Screens :
       /\ DOMAIN s.cells = 0..g.rows-1 /\ DOMAIN s.wraps = 0..g.rows-1
       /\ \A r \in 0..g.rows-1 : DOMAIN s.cells[r] = 0..g.cols-1
  /\ g.row \in 0..g.rows-1 /\ g.col \in 0..g.cols
  /\ 0 <= g.scroll_top /\ g.scroll_top <= g.scroll_bottom /\ g.scroll_bottom < g.rows
  /\ g.scrollback_offset <= Len(g.scrollback) /\ Len(g.scrollback) <= g.scrollback_limit

(* The cursor is parked exactly when a wrap is pending.  The write path      *)
(* drops a glyph when the cursor is parked without one, and joins, restores, *)
(* resizes and resets all touch the two separately.                          *)
ParkedIffPending == g.pending_wrap <=> g.col = g.cols

(* No operation separates a wide glyph from its continuation: neither screen *)
(* nor, at the width it was saved with, the scrollback holds half a glyph.   *)
WidePairs ==
  /\ \A s \in Screens : \A r \in 0..g.rows-1 : PairedRow(s.cells[r], g.cols)
  /\ \A i \in 1..Len(g.scrollback) :
       LET row == g.scrollback[i].cells IN PairedRow(row, Max(DOMAIN row) + 1)

(* A full-screen erase that skips saving because nothing was written since   *)
(* the last save loses nothing: without the flag the primary screen holds no *)
(* contents.  Only printing and scrolling set it.                            *)
UnmutatedIsBlank == g.mutated \/ visible_block(g) = <<>>

(* "The row layout matches": the copying view, the borrowed view and the     *)
(* link lookup show the same rows for every offset and viewport.             *)
ViewsAgree ==
  /\ \A offset \in 0..Len(g.scrollback)+1, viewport \in 0..g.rows+1 :
       LET view == scrollback_view(offset, viewport) IN
       dump_scrollback_view(offset, viewport) = [i \in 1..view.rows |-> view_row(view, i - 1)]
  /\ LET view == scrollback_view(g.scrollback_offset, g.rows) IN
     \A row \in 0..g.rows-1 : active_content_row_cells(row) = view_row(view, row).cells

-----------------------------------------------------------------------------
(* Action properties.                                                        *)

(* A full-screen program leaves no trace: as long as the alternate screen is *)
(* shown, nothing reaches the primary screen or the scrollback, other than   *)
(* an explicit clear of the history, a reset or a resize.                    *)
AlternateIsolated ==
  [][ g.alt /\ g'.alt /\ g'.rows = g.rows /\ g'.cols = g.cols =>
        /\ g'.primary = g.primary
        /\ g'.scrollback \in {g.scrollback, <<>>} ]_termvars

(* A recorded scroll operation tells all that happened to the rows, so that  *)
(* a renderer may scroll its own copy instead of repainting: rows in the     *)
(* region are where the operation puts them, the ones it vacates are blank,  *)
(* the others have not changed.  The cursor's row is left out, where the     *)
(* glyph that made the screen scroll is written.                             *)
ScrollOpsExplain ==
  [][ \A i \in 1..Len(g'.scroll_ops) :
        LET op  == g'.scroll_ops[i]
            was == active_grid(g)
            now == active_grid(g').cells
            scrolled == IF op.dir = "Up"
                        THEN shift_up(was, op.top, op.bottom, op.rows, g.cols, Hard).cells
                        ELSE shift_down(was, op.top, op.bottom, op.rows, g.cols).cells
        IN op.top < op.bottom =>
             \A r \in DOMAIN now : r = g'.row \/ now[r] = scrolled[r] ]_termvars

Changed == {p \in (0..g.rows-1) \X (0..g.cols-1) :
              active_grid(g).cells[p[1]][p[2]] # active_grid(g').cells[p[1]][p[2]]}

(* No row is missed: a cell that changes outside the cursor's row was        *)
(* marked dirty by the operation that changed it.                            *)
OtherRowsMarked ==
  [][ g'.rows = g.rows /\ g'.cols = g.cols =>
        \A p \in Changed : p \in g'.dirty \/ p[1] = g'.row ]_termvars

(* "The grid records which spans changed via the dirty tracker": every cell  *)
(* an operation changes is marked.                                           *)
DamageComplete ==
  [][ g'.rows = g.rows /\ g'.cols = g.cols => Changed \subseteq g'.dirty ]_termvars
=============================================================================
