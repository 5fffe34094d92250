------------------------------ MODULE MCReplay ------------------------------
(***************************************************************************)
(* Instances of Serialize for TLC.                                         *)
(***************************************************************************)
EXTENDS MCGrid, Serialize

McSpacedWidth ==
  [ch \in {"n", "w", "zwj", "vs15", "vs16", "sp"} |->
     IF ch = "w" THEN 2 ELSE IF ch \in {"n", "sp"} THEN 1 ELSE 0]

(* Pens that differ in every field, in pairs that share a reset.             *)
Loud == SgrSeq(<< <<1>>, <<2>>, <<5>>, <<6>>, <<4, 3>>, <<31>>, <<44>>, <<58>>, <<5>>, <<9>> >>)
Pens == { Loud, SgrSeq(<< <<0>>, <<1>>, <<5>> >>), SgrSeq(<< <<0>>, <<2>>, <<6>>, <<41>> >>) }

ReplayPreludes ==
  {<<a, b, c, d>> : a \in {Text("n"), Text("w"), Loud}, b \in {Text("n"), Text("w")},
                    c \in Pens \cup {Text("zwj"), Text("vs16"), Text("vs15")},
                    d \in {Text("n"), Text("w"), Csi("K", 0, 0)}}

ReplayStream ==
  {Text(ch) : ch \in {"n", "w", "zwj", "vs15", "vs16"}}
  \cup {Csi("K", 0, 0), Csi("X", 1, 0), Csi("@", 1, 0), Csi("P", 1, 0), Csi("P", 2, 0)}
  \cup {Control("CR"), Control("LF"), Control("BS"), Csi("H", 0, 0), Esc("M")}
  \cup {Mode(7, FALSE), Mode(1049, TRUE), Mode(1000, TRUE), Mode(1049, FALSE)}
  \cup {SgrSeq(<<<<0>>>>)} \cup Pens

(* Two wide glyphs in different pens, the cursor between the first's halves: *)
(* a DCH of two pairs its lead with the second's continuation.               *)
PairPreludes == {<<Text("w"), p, Text("w"), Csi("H", 1, 2)>> : p \in Pens}

ReplayScenes ==
  [ main |-> [rows |-> 2, cols |-> 3, preludes |-> ReplayPreludes, stream |-> ReplayStream,
              sizes |-> {<<2, 4>>, <<1, 2>>}, offsets |-> {}, steps |-> 2, client |-> TRUE],
    pair |-> [rows |-> 1, cols |-> 4, preludes |-> PairPreludes, stream |-> ReplayStream,
              sizes |-> {<<1, 3>>}, offsets |-> {}, steps |-> 2, client |-> TRUE] ]

(* The grid alone, and followed by a client.                                 *)
AllScenes == GridScenes @@ ReplayScenes
=============================================================================
