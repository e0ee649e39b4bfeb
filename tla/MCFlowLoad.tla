------------------------------ MODULE MCFlowLoad ------------------------------
(* Small instances of FlowLoad. *)
EXTENDS FlowLoad, TLC
CONSTANTS f1, f2, f3, s1, s2
\* a capture that is indexed and has two streams, one that is not and has one,
\* and one that is indexed and has none
ThreeKinds == (f1 :> {s1, s2}) @@ (f2 :> {s1}) @@ (f3 :> {})
TwoKinds == (f1 :> {s1, s2}) @@ (f2 :> {s1})
JustOne == f1 :> {s1}
=============================================================================
