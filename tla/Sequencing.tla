------------------------------ MODULE Sequencing ------------------------------
(***************************************************************************)
(* Selecting from a sequence and sorting one. SelectSeq and SortSeq are    *)
(* built into the prover without a definition, so nothing can be proved of *)
(* them; these are functions it can expand.                                *)
(***************************************************************************)
EXTENDS Integers, Sequences, FiniteSets

\* [x for x in s if Test(x)], as a function the prover can expand
Kept(s, Test(_)) ==
    LET kept[n \in 0..Len(s)] ==
            IF n = 0 THEN << >>
            ELSE IF Test(s[n]) THEN Append(kept[n - 1], s[n]) ELSE kept[n - 1]
    IN  kept[Len(s)]

\* Python's sort: what comes first, among equals what was first
Sorted(s, Before(_, _)) ==
    LET put[n \in 0..Len(s)] ==
            IF n = 0 THEN << >>
            ELSE LET rest == put[n - 1]
                     at == n - Cardinality({k \in 1..(n - 1) : Before(s[n], rest[k])})
                 IN  SubSeq(rest, 1, at - 1) \o <<s[n]>> \o SubSeq(rest, at, n - 1)
    IN  put[Len(s)]
=============================================================================
