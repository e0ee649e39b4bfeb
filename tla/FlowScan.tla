------------------------------ MODULE FlowScan ------------------------------
(***************************************************************************)
(* The packet loop of `packettrain-index scan` (indexer/src/main.rs): it   *)
(* deals the frames of a capture out to connection generations and writes  *)
(* one reference per frame, linked backward to the previous reference of   *)
(* the same flow.                                                          *)
(*                                                                         *)
(* References and flows are numbered from 1 here and from 0 in the code;   *)
(* 0 stands for NO_REF and for "not in the map".  A parsed packet is what  *)
(* parse_tcp and canonical leave of it: the canonical key, whether the     *)
(* source is the left endpoint, the flags and the fragment key.  Byte      *)
(* offsets, timestamps and byte counters are left out.                     *)
(***************************************************************************)
EXTENDS Naturals, Sequences, FiniteSets

CONSTANTS
    Key,        \* canonical endpoint pairs
    Fragment,   \* fragment keys: (family, src, dst, ident)
    Flags,      \* the sets of TCP flags packets carry
    MaxFrame    \* bound on the frames of the capture

ASSUME ScanConstants ==
    /\ 0 \notin Fragment
    /\ Flags \subseteq SUBSET {"SYN", "ACK", "FIN", "RST"}
    /\ MaxFrame \in Nat

VARIABLES
    frame,          \* frames read
    flows,          \* the Flow records, in order of creation
    active,         \* [Key -> the flow packets of that key go to, or 0]
    generations,    \* [Key -> how many flows it has had]
    fragments,      \* [Fragment -> the flow its datagram belongs to, or 0]
    refs,           \* refs.bin
    done            \* the loop is over and the index published

vars == <<frame, flows, active, generations, fragments, refs, done>>

Side == {"left", "right"}

Flow == [key: Key, generation: Nat, client: Side, firstFrame: Nat, lastFrame: Nat,
         packets: Nat, syn: BOOLEAN, fin: SUBSET Side, rst: BOOLEAN,
         closed: BOOLEAN, firstRef: Nat, lastRef: Nat]

Ref == [frame: Nat, previous: Nat, owner: Nat]

Init ==
    /\ frame = 0
    /\ flows = << >>
    /\ active = [k \in Key |-> 0]
    /\ generations = [k \in Key |-> 0]
    /\ fragments = [x \in Fragment |-> 0]
    /\ refs = << >>
    /\ done = FALSE

\* Flow { ... } as pushed for the first packet of a connection
NewFlow(k, side) ==
    [key |-> k, generation |-> generations[k], client |-> side,
     firstFrame |-> frame + 1, lastFrame |-> frame + 1, packets |-> 0,
     syn |-> FALSE, fin |-> {}, rst |-> FALSE, closed |-> FALSE,
     firstRef |-> 0, lastRef |-> 0]

\* the flags a segment leaves in its flow; never those of a later fragment
Observe(f, side, flags) ==
    LET fins == IF "FIN" \in flags THEN f.fin \cup {side} ELSE f.fin
    IN  [f EXCEPT !.syn = @ \/ "SYN" \in flags,
                  !.fin = fins,
                  !.rst = @ \/ "RST" \in flags,
                  !.closed = @ \/ "RST" \in flags \/ fins = Side]

\* Mutant: last_ref is set once only.
CountKeepsHead(f) ==
    LET here == IF f.lastRef = 0 THEN Len(refs) + 1 ELSE f.lastRef
    IN  [f EXCEPT !.lastFrame = frame + 1, !.packets = @ + 1,
                  !.firstRef = here, !.lastRef = here]
\* the counters and chain ends every frame of a flow updates
Count(f) ==
    LET here == Len(refs) + 1
        first == IF f.firstRef = 0 THEN here ELSE f.firstRef
    IN  [f EXCEPT !.lastFrame = frame + 1, !.packets = @ + 1,
                  !.firstRef = first, !.lastRef = here]

\* Mutant: numbered from the last frame.
RefToLastFrame(i, previous) == [frame |-> frame, previous |-> previous, owner |-> i]

\* write_ref: linked to the reference that was the flow's last one so far
RefTo(i, previous) == [frame |-> frame + 1, previous |-> previous, owner |-> i]

\* a packet parse_tcp does not recognise
SkipFrame ==
    /\ frame' = frame + 1
    /\ UNCHANGED <<flows, active, generations, fragments, refs>>

\* a later fragment whose first fragment was not seen
SkipFragment(x) ==
    /\ fragments[x] = 0
    /\ SkipFrame

\* Mutant: the frame is not counted as a packet.
LaterFragmentUncounted(x) ==
    /\ fragments[x] # 0
    /\ LET i == fragments[x] IN
        /\ flows' = [flows EXCEPT ![i].lastRef = Len(refs) + 1]
        /\ refs' = Append(refs, RefTo(i, flows[i].lastRef))
    /\ frame' = frame + 1
    /\ UNCHANGED <<active, generations, fragments>>

\* a later fragment goes where its first fragment went
LaterFragment(x) ==
    /\ fragments[x] # 0
    /\ LET i == fragments[x] IN
        /\ flows' = [flows EXCEPT ![i] = Count(flows[i])]
        /\ refs' = Append(refs, RefTo(i, flows[i].lastRef))
    /\ frame' = frame + 1
    /\ UNCHANGED <<active, generations, fragments>>

\* Mutant: any handshake packet starts a new generation.
IsNewOnSyn(k, flags) == active[k] # 0 => "SYN" \in flags /\ "ACK" \notin flags

\* make_new: an unknown pair, or a new handshake on a closed connection
IsNew(k, flags) ==
    active[k] # 0 => "SYN" \in flags /\ "ACK" \notin flags /\ flows[active[k]].closed

\* Mutant: remembered under the number of the flow after it.
RememberNext(x, i) == fragments' = [y \in Fragment |-> IF y = x THEN i + 1 ELSE fragments[y]]

\* a first fragment is remembered for the later ones; x = 0: not a fragment
Remember(x, i) == fragments' = [y \in Fragment |-> IF y = x THEN i ELSE fragments[y]]

FoundFlow(k, side, flags, x) ==
    /\ IsNew(k, flags)
    /\ LET i == Len(flows) + 1
           f == NewFlow(k, side) IN
        /\ flows' = Append(flows, Count(Observe(f, side, flags)))
        /\ active' = [active EXCEPT ![k] = i]
        /\ refs' = Append(refs, RefTo(i, f.lastRef))
        /\ Remember(x, i)
    /\ generations' = [generations EXCEPT ![k] = @ + 1]
    /\ frame' = frame + 1

JoinFlow(k, side, flags, x) ==
    /\ ~IsNew(k, flags)
    /\ LET i == active[k] IN
        /\ flows' = [flows EXCEPT ![i] = Count(Observe(flows[i], side, flags))]
        /\ refs' = Append(refs, RefTo(i, flows[i].lastRef))
        /\ Remember(x, i)
    /\ frame' = frame + 1
    /\ UNCHANGED <<active, generations>>

ReadPacket ==
    /\ ~done /\ frame < MaxFrame
    /\ \/ SkipFrame
       \/ \E x \in Fragment : SkipFragment(x) \/ LaterFragment(x)
       \/ \E k \in Key, side \in Side, flags \in Flags, x \in Fragment \cup {0} :
            FoundFlow(k, side, flags, x) \/ JoinFlow(k, side, flags, x)
    /\ UNCHANGED done

\* the end of the capture: the tables are written out and published
EndOfCapture ==
    /\ ~done
    /\ done' = TRUE
    /\ UNCHANGED <<frame, flows, active, generations, fragments, refs>>

Next == ReadPacket \/ EndOfCapture

Spec == Init /\ [][Next]_vars

-----------------------------------------------------------------------------
(* Properties.                                                              *)

TypeOK ==
    /\ frame \in Nat
    /\ flows \in Seq(Flow)
    /\ active \in [Key -> 0..Len(flows)]
    /\ generations \in [Key -> Nat]
    /\ fragments \in [Fragment -> 0..Len(flows)]
    /\ refs \in Seq(Ref)
    /\ done \in BOOLEAN

\* Walking back over `previous` from any reference meets exactly the earlier
\* references of its owner: the link names the nearest one, and 0 only ends a
\* chain that has no earlier member.
Linked ==
    \A i \in 1..Len(refs) :
        /\ refs[i].owner \in 1..Len(flows)
        /\ refs[i].previous \in 0..(i - 1)
        /\ refs[i].previous # 0 => refs[refs[i].previous].owner = refs[i].owner
        /\ \A j \in (refs[i].previous + 1)..(i - 1) : refs[j].owner # refs[i].owner

\* last_ref is where a flow's chain really ends: no reference of the flow
\* comes after it, and a flow in the table always has one.
HeadsAreLast ==
    \A f \in 1..Len(flows) :
        /\ flows[f].lastRef \in 1..Len(refs)
        /\ refs[flows[f].lastRef].owner = f
        /\ \A j \in (flows[f].lastRef + 1)..Len(refs) : refs[j].owner # f

\* refs.bin is in capture order: a later reference has a later frame, so a
\* reversed chain is sorted and a frame is referenced once.
FramesAscend ==
    \A i, j \in 1..Len(refs) : i < j => refs[i].frame < refs[j].frame

\* refs.bin is the chains of all flows, laid out in capture order: walked back from
\* its last_ref over `previous`, a flow's chain has all its references, each of an
\* earlier frame than the one before.
ChainsAreWhole == Linked /\ HeadsAreLast /\ FramesAscend

\* Two connections of one endpoint pair never overlap: a new generation only
\* starts when every earlier one had been closed by RST or by both FINs, and
\* generations are numbered in that order.
ReuseAfterClose ==
    \A f, g \in 1..Len(flows) :
        f < g /\ flows[f].key = flows[g].key =>
            flows[f].closed /\ flows[f].generation < flows[g].generation

\* The manifest's row agrees with the references the flow owns: the packet count,
\* which both chain walkers take for the length of the chain, is their number,
\* and first_frame and last_frame are the frames of the chain's ends.
OwnedBy(f) == {i \in 1..Len(refs) : refs[i].owner = f}
CountsMatch ==
    \A f \in 1..Len(flows) :
        /\ flows[f].packets = Cardinality(OwnedBy(f))
        /\ flows[f].firstFrame = refs[flows[f].firstRef].frame
        /\ flows[f].lastFrame = refs[flows[f].lastRef].frame
        /\ refs[flows[f].firstRef].previous = 0

\* The frames flow f has among the references rs, in their order.
FramesOf(rs, f) ==
    LET frames[n \in 0..Len(rs)] ==
            IF n = 0 THEN << >>
            ELSE IF rs[n].owner = f THEN Append(frames[n - 1], rs[n].frame) ELSE frames[n - 1]
    IN  frames[Len(rs)]

\* The scan deals frames out to flows as FlowPartition says.
Partition == INSTANCE FlowPartition WITH
    frame <- frame, members <- [f \in 1..Len(flows) |-> FramesOf(refs, f)]
DealsFrames == Partition!Spec
=============================================================================
