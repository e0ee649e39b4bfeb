---------------------------- MODULE MCPayloadPanel ----------------------------
(* Small instances of PayloadPanel. *)
EXTENDS PayloadPanel, TLC
CONSTANTS a, b, c, c1, c2
\* every report of two short or long lines
TwoLines == [1..2 -> [node: {0, 1}, size: {1, 4}]]
\* those that node 0 begins: parse_follow_raw treats both nodes alike
TwoLinesFromNode0 == {lines \in TwoLines : lines[1].node = 0}
\* two flows of one capture and one of another
TwoCaptures == (a :> c1) @@ (b :> c1) @@ (c :> c2)
\* a flow of each capture
OneOfEach == (a :> c1) @@ (c :> c2)
=============================================================================
