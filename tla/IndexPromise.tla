---------------------------- MODULE IndexPromise ----------------------------
(***************************************************************************)
(* What the index of one capture promises, without files, threads or       *)
(* processes: builds take turns, only the build whose turn it is touches   *)
(* the published index, and a turn ends when its work has.                 *)
(***************************************************************************)
CONSTANTS Build, NoBuild

VARIABLES
    holder,     \* the build whose turn it is, or NoBuild
    working,    \* the builds that are at work on the index
    published   \* an index is offered to readers

vars == <<holder, working, published>>

Init == holder = NoBuild /\ working = {} /\ published = FALSE

Take(b) == holder = NoBuild /\ holder' = b /\ UNCHANGED <<working, published>>

Work(b) == holder = b /\ working = {} /\ working' = {b} /\ UNCHANGED <<holder, published>>

Withdraw(b) ==
    /\ holder = b /\ working = {b}
    /\ published' = FALSE
    /\ UNCHANGED <<holder, working>>

Publish(b) == holder = b /\ working = {b} /\ working' = {} /\ published' = TRUE /\ UNCHANGED holder

GiveUp(b) == holder = b /\ working = {b} /\ working' = {} /\ UNCHANGED <<holder, published>>

Release(b) == holder = b /\ working = {} /\ holder' = NoBuild /\ UNCHANGED <<working, published>>

Next == \E b \in Build :
    Take(b) \/ Work(b) \/ Withdraw(b) \/ Publish(b) \/ GiveUp(b) \/ Release(b)

Spec == Init /\ [][Next]_vars
=============================================================================
