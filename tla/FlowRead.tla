------------------------------ MODULE FlowRead ------------------------------
(***************************************************************************)
(* Reading one flow out of a published index: the chain walk that          *)
(* `packettrain-index extract` (main.rs) and original_frames (indexing.py) *)
(* both make, over the refs.bin and the manifest FlowScan leaves.          *)
(***************************************************************************)
EXTENDS FlowScan

CONSTANTS
    MaxPackets,     \* MAX_PACKETS: larger flows are refused unread
    MaxHoles        \* bound on the rows of refs.bin that were never filled

ASSUME ReadConstants == MaxPackets \in Nat /\ MaxHoles \in Nat

VARIABLES
    target,     \* the flow asked for, or 0
    current,    \* the reference to read next
    chain,      \* the frames read so far, last one first
    outcome,    \* "none", "walking", "ok", or why the request was refused
    holes       \* the rows of refs.bin that were never filled

walkVars == <<target, current, chain, outcome>>
readVars == <<walkVars, holes>>

Refusals == {"missing", "too_large", "damaged"}

InitRead ==
    /\ Init
    /\ target = 0 /\ current = 0 /\ chain = << >> /\ outcome = "none"
    /\ holes = {}

\* the row a reader finds: zeros are frame 0 of the first flow, linked to the
\* first reference
Row(i) == IF i \in holes THEN [frame |-> 0, previous |-> 1, owner |-> 1] ELSE refs[i]

Refuse(f, why) ==
    /\ target' = f /\ outcome' = why
    /\ current' = 0 /\ chain' = << >>

\* flow_packet_count and the row of the manifest; the flow may not exist
StartWalk(f) ==
    /\ done /\ outcome # "walking"
    /\ \/ f \notin 1..Len(flows) /\ Refuse(f, "missing")
       \/ f \in 1..Len(flows) /\ flows[f].packets > MaxPackets /\ Refuse(f, "too_large")
       \/ /\ f \in 1..Len(flows) /\ flows[f].packets <= MaxPackets
          /\ target' = f /\ current' = flows[f].lastRef
          /\ chain' = << >> /\ outcome' = "walking"
    /\ UNCHANGED <<vars, holes>>

\* The row to read next turns out never to have been filled: two scans that
\* shared refs.bin.tmp can publish one (see ReadyIsComplete in IndexBuild).
Hole ==
    /\ outcome = "walking" /\ current # 0
    /\ current \notin holes /\ Cardinality(holes) < MaxHoles
    /\ holes' = holes \cup {current}
    /\ UNCHANGED <<vars, walkVars>>

\* Mutant: the chain is not compared with the expected length on the way.
WalkStepUnbounded ==
    /\ outcome = "walking" /\ current # 0
    /\ IF Row(current).owner = target
       THEN /\ chain' = IF Len(chain) > MaxFrame THEN chain ELSE Append(chain, Row(current).frame)
            /\ current' = Row(current).previous
            /\ UNCHANGED <<target, outcome>>
       ELSE Refuse(target, "damaged")
    /\ UNCHANGED <<vars, holes>>

\* one turn of the loop, with the checks it makes on the row it reads
WalkStep ==
    /\ outcome = "walking" /\ current # 0
    /\ LET sound == current <= Len(refs) /\ Row(current).owner = target
           longer == Append(chain, Row(current).frame) IN
        \/ ~sound /\ Refuse(target, "damaged")
        \/ sound /\ Len(longer) > flows[target].packets /\ Refuse(target, "damaged")
        \/ /\ sound /\ Len(longer) <= flows[target].packets
           /\ chain' = longer /\ current' = Row(current).previous
           /\ UNCHANGED <<target, outcome>>
    /\ UNCHANGED <<vars, holes>>

\* Mutant: the chain is not reversed.
EndWalkUnreversed ==
    /\ outcome = "walking" /\ current = 0
    /\ Len(chain) = flows[target].packets
    /\ outcome' = "ok"
    /\ UNCHANGED <<target, current, chain>>
    /\ UNCHANGED <<vars, holes>>

\* chain.reverse() and the comparison with the expected count
EndWalk ==
    /\ outcome = "walking" /\ current = 0
    /\ \/ /\ Len(chain) = flows[target].packets
          /\ chain' = [n \in 1..Len(chain) |-> chain[Len(chain) + 1 - n]]
          /\ outcome' = "ok"
          /\ UNCHANGED <<target, current>>
       \/ Len(chain) # flows[target].packets /\ Refuse(target, "damaged")
    /\ UNCHANGED <<vars, holes>>

ReadNext ==
    \/ Next /\ UNCHANGED readVars
    \/ \E f \in 1..(Len(flows) + 1) : StartWalk(f)
    \/ WalkStep
    \/ EndWalk
    \/ Hole

\* a request that has started is carried on
ReadSpec == InitRead /\ [][ReadNext]_<<vars, readVars>> /\ WF_<<vars, readVars>>(WalkStep \/ EndWalk)

-----------------------------------------------------------------------------
(* Properties.                                                              *)

\* Over an index the scanner wrote, a walk that succeeds returns exactly the
\* frames of the flow, in capture order; and the integrity checks never fire: no
\* request is refused because a chain leaves the file, crosses into another
\* flow, loops, or has the wrong length.
WalkReturnsFlow ==
    holes = {} =>
        /\ outcome = "ok" =>
            /\ {chain[n] : n \in 1..Len(chain)} = {refs[i].frame : i \in OwnedBy(target)}
            /\ \A m, n \in 1..Len(chain) : m < n => chain[m] < chain[n]
        /\ outcome # "damaged"

\* An incomplete index is rejected: what a successful walk returns are frames
\* of the capture, not the zeros of a row nobody wrote.
AnswerIsFrames == outcome = "ok" => \A n \in 1..Len(chain) : chain[n] \in 1..frame

\* Every walk ends, even over a row that links back to itself.
WalkEnds == (outcome = "walking") ~> (outcome # "walking")
=============================================================================
