---------------------------- MODULE FlowPartition ---------------------------
(***************************************************************************)
(* What a flow index promises of a capture: its frames are dealt out, each *)
(* to one flow or to none, a flow keeps its frames in capture order, and   *)
(* nothing dealt is ever moved or taken back.                              *)
(***************************************************************************)
EXTENDS Naturals, Sequences

VARIABLES
    frame,      \* frames seen so far
    members     \* one sequence of frame numbers per flow

vars == <<frame, members>>

Init == frame = 0 /\ members = << >>

PassOver == frame' = frame + 1 /\ UNCHANGED members

Join(f) ==
    /\ frame' = frame + 1
    /\ members' = [members EXCEPT ![f] = Append(@, frame + 1)]

Found ==
    /\ frame' = frame + 1
    /\ members' = Append(members, <<frame + 1>>)

Next == PassOver \/ Found \/ \E f \in DOMAIN members : Join(f)

Spec == Init /\ [][Next]_vars
=============================================================================
