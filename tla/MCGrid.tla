------------------------------- MODULE MCGrid -------------------------------
(***************************************************************************)
(* Instances of Terminal for TLC: one about the cells of a row, one about  *)
(* rows, screens and history.                                              *)
(***************************************************************************)
EXTENDS Terminal

(* "n" is a narrow and "w" a wide glyph with both presentations.             *)
McCharWidth ==
  [ch \in {"n", "w", "zwj", "vs15", "vs16"} |->
     IF ch = "w" THEN 2 ELSE IF ch = "n" THEN 1 ELSE 0]

Prints == {Text(ch) : ch \in {"n", "w", "zwj", "vs15", "vs16"}}
Finals(actions, params) == {Csi(a, p, 0) : a \in actions, p \in params}
Toggles(modes) == {Mode(m, on) : m \in modes, on \in BOOLEAN}

(* Every row of at most four glyphs.                                         *)
RowPreludes ==
  UNION {[1..n -> {Text("n"), Text("w"), Text("zwj")}] : n \in 0..4}

(* What works on the cells of a row and what moves or saves the cursor.      *)
RowStream ==
  Prints \cup Finals({"@", "P", "X"}, {1, 2, 5}) \cup Finals({"K", "J"}, 0..2)
  \cup Finals({"C", "D", "G"}, {1, 2}) \cup {Control("CR"), Control("BS"), Control("HT")}
  \cup {Esc("7"), Esc("8"), SgrSeq(<<<<41>>>>)} \cup {Csi("!p", 0, 0)} \cup Toggles({7})

RowScene == [rows |-> 2, cols |-> 4, preludes |-> RowPreludes, stream |-> RowStream,
             sizes |-> {<<2, 3>>, <<0, 0>>, <<2, 5>>}, offsets |-> {1, 2}, steps |-> 3,
             client |-> FALSE]

(* Screens with something on them, with and without margins and history.     *)
Lines(n) == [i \in 1..2*n |-> IF i % 2 = 1 THEN Text("n") ELSE Control("LF")]

ScreenPreludes ==
  { <<>>, Lines(1), Lines(4), Lines(4) \o <<Csi("r", 2, 3)>>,
    Lines(2) \o <<Csi("r", 1, 2)>>, Lines(3) \o <<Mode(1049, TRUE), Text("n")>>,
    Lines(4) \o <<Csi("J", 2, 0), Text("n")>> }

ScreenStream ==
  {Text("n"), Text("w"), Control("LF"), Control("CR"), Control("BEL")}
  \cup Finals({"S", "T", "L", "M"}, {1, 9}) \cup Finals({"A", "B", "H"}, {0, 3})
  \cup Finals({"J"}, 0..3) \cup {Csi("r", 2, 3), Csi("r", 2, 2)}
  \cup {Esc(b) : b \in {"M", "7", "8", "c", "="}} \cup Toggles({47, 1049})
  \cup {Csi(">u", 1, 0), Csi("<u", 1, 0), Csi("n", 6, 0), Osc(8, 1), Osc(0, "t")}
  \cup {Mode(m, TRUE) : m \in {1, 12, 25, 1000, 1004, 1006, 2004, 2026}}
  \cup {SgrSeq(<<<<41>>>>)}

ScreenScene == [rows |-> 3, cols |-> 2, preludes |-> ScreenPreludes, stream |-> ScreenStream,
                sizes |-> {<<2, 2>>, <<4, 3>>}, offsets |-> {1, 2}, steps |-> 3,
                client |-> FALSE]

GridScenes == [row |-> RowScene, screen |-> ScreenScene]
=============================================================================
