------------------------------- MODULE MCPlayer -------------------------------
(* Small instances of Player.                                               *)
EXTENDS Player, TLC
CONSTANTS a, b
Between(x, y) == [start |-> x, end |-> y]
\* a: two gaps that share a packet, and one behind them; b: a short flow
MCGaps == a :> {Between(2, 4), Between(4, 6)} @@ b :> {Between(1, 3)}
MCSpan == a :> Between(0, 7) @@ b :> Between(-1, 4)
NoRtt == a :> Between(0, 7) @@ b :> None
MCFirst == Between(0, 5)
===============================================================================
