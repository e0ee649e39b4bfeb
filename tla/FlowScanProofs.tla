--------------------------- MODULE FlowScanProofs ---------------------------
(***************************************************************************)
(* What holds of every index `packettrain-index scan` writes, and of every *)
(* walk over one, for any set of endpoint pairs, fragment keys and flag    *)
(* combinations and any length of capture.                                 *)
(*                                                                         *)
(* Three actions record a frame (FoundFlow, JoinFlow, LaterFragment); they *)
(* differ in which flow takes it and agree in what that does to refs.bin.  *)
(* Recorded states what they share, the lemmas about it carry the chain    *)
(* invariants, the counts and the dealing out of frames that FlowPartition *)
(* promises, and KeysOK carries what is known of the maps. The walks of    *)
(* FlowRead rest on what is known of the finished tables.                  *)
(***************************************************************************)
EXTENDS FlowRead, SequencingProofs, FiniteSetTheorems, SequenceTheorems, TLAPS

\* No reference is of a frame not read yet: what makes FramesAscend inductive.
FramesRead == \A i \in 1..Len(refs) : refs[i].frame <= frame

\* active names the newest flow of a key, and generations counts past the
\* generation number of each: what makes ReuseAfterClose inductive.
KeysOK ==
    \A f \in 1..Len(flows) :
        /\ f <= active[flows[f].key]
        /\ flows[active[flows[f].key]].key = flows[f].key
        /\ flows[f].generation < generations[flows[f].key]
ActiveOK == \A k \in Key : active[k] # 0 => flows[active[k]].key = k

ChainInv == Linked /\ HeadsAreLast /\ FramesRead /\ FramesAscend
KeyInv == KeysOK /\ ActiveOK /\ ReuseAfterClose
IInv == TypeOK /\ ChainInv /\ KeyInv

\* Frame frame + 1 goes to flow i, which becomes g, after the reference p.
Recorded(i, g, p) ==
    /\ frame' = frame + 1
    /\ refs' = Append(refs, RefTo(i, p))
    /\ g \in Flow /\ g.lastRef = Len(refs) + 1
    /\ \/ i \in 1..Len(flows) /\ p = flows[i].lastRef /\ flows' = [flows EXCEPT ![i] = g]
       \/ i = Len(flows) + 1 /\ p = 0 /\ flows' = Append(flows, g)

-----------------------------------------------------------------------------
(* The operators on flow records.                                           *)

\* Counting a frame keeps a record well formed, ends its chain at the new
\* reference and leaves its identity and its closing state alone.
LEMMA CountFlow ==
    ASSUME NEW f \in Flow, frame \in Nat, refs \in Seq(Ref)
    PROVE  /\ Count(f) \in Flow
           /\ Count(f).lastRef = Len(refs) + 1
           /\ Count(f).key = f.key /\ Count(f).generation = f.generation
           /\ Count(f).closed = f.closed
           /\ Count(f).packets = f.packets + 1
<1> DEFINE here == Len(refs) + 1
           first == IF f.firstRef = 0 THEN here ELSE f.firstRef
           next == frame + 1
           more == f.packets + 1
<1>1. here \in Nat
  BY LenProperties
<1>2. first \in Nat /\ next \in Nat /\ more \in Nat
  BY <1>1 DEF Flow
<1>3. Count(f) = [f EXCEPT !.lastFrame = next, !.packets = more,
                           !.firstRef = first, !.lastRef = here]
  BY Zenon DEF Count
<1> HIDE DEF here, first, next, more
<1>4. /\ Count(f) \in Flow
      /\ Count(f).lastRef = here /\ Count(f).packets = more
      /\ Count(f).key = f.key /\ Count(f).generation = f.generation
      /\ Count(f).closed = f.closed
  BY <1>1, <1>2, <1>3 DEF Flow
<1>5. QED
  BY <1>4 DEF here, more

\* Observing a segment's flags changes neither identity nor chain ends, and
\* never reopens a closed connection.
LEMMA ObserveFlow ==
    ASSUME NEW f \in Flow, NEW side \in Side, NEW flags \in Flags
    PROVE  /\ Observe(f, side, flags) \in Flow
           /\ Observe(f, side, flags).lastRef = f.lastRef
           /\ Observe(f, side, flags).packets = f.packets
           /\ Observe(f, side, flags).key = f.key
           /\ Observe(f, side, flags).generation = f.generation
           /\ f.closed => Observe(f, side, flags).closed
BY DEF Observe, Flow, Side

\* The record of a new connection is well formed.
LEMMA NewFlowIsFlow ==
    ASSUME NEW k \in Key, NEW side \in Side, frame \in Nat, generations \in [Key -> Nat]
    PROVE  /\ NewFlow(k, side) \in Flow
           /\ NewFlow(k, side).lastRef = 0 /\ NewFlow(k, side).packets = 0
           /\ NewFlow(k, side).key = k
           /\ NewFlow(k, side).generation = generations[k]
BY DEF NewFlow, Flow

-----------------------------------------------------------------------------
(* refs.bin.                                                                *)

\* What recording a frame leaves of the two tables, element by element.
LEMMA RecordedTables ==
    ASSUME TypeOK, NEW i \in Nat, NEW g, NEW p \in Nat, Recorded(i, g, p)
    PROVE  /\ refs' \in Seq(Ref) /\ Len(refs') = Len(refs) + 1
           /\ \A j \in 1..Len(refs) : refs'[j] = refs[j]
           /\ refs'[Len(refs) + 1] = RefTo(i, p)
           /\ flows' \in Seq(Flow) /\ Len(flows') \in Nat /\ Len(flows) <= Len(flows')
           /\ i \in 1..Len(flows') /\ flows'[i] = g
           /\ \A f \in 1..Len(flows') : f # i => f \in 1..Len(flows) /\ flows'[f] = flows[f]
<1>1. RefTo(i, p) \in Ref
  BY DEF RefTo, Ref, TypeOK
<1>2. /\ refs' \in Seq(Ref) /\ Len(refs') = Len(refs) + 1
      /\ \A j \in 1..Len(refs) : refs'[j] = refs[j]
      /\ refs'[Len(refs) + 1] = RefTo(i, p)
  BY <1>1, AppendProperties DEF Recorded, TypeOK
<1>3. Len(flows) \in Nat
  BY LenProperties DEF TypeOK
<1>4. CASE i \in 1..Len(flows) /\ flows' = [flows EXCEPT ![i] = g]
  BY <1>2, <1>3, <1>4, ExceptSeq DEF Recorded, TypeOK
<1>5. CASE i = Len(flows) + 1 /\ flows' = Append(flows, g)
  BY <1>2, <1>3, <1>5, AppendProperties DEF Recorded, TypeOK
<1>6. QED
  BY <1>4, <1>5 DEF Recorded

\* Recording a frame keeps refs.bin linked, with every flow's last_ref at the
\* end of its chain, and in capture order.
LEMMA RecordedChain ==
    ASSUME TypeOK, ChainInv, NEW i \in Nat, NEW g, NEW p \in Nat, Recorded(i, g, p)
    PROVE  ChainInv'
<1> DEFINE n == Len(refs)
<1>1. /\ n \in Nat /\ Len(flows) \in Nat /\ frame \in Nat
      /\ \A j \in 1..n : /\ refs[j].frame \in Nat
                        /\ refs[j].previous \in Nat /\ refs[j].owner \in Nat
  <2>1. \A j \in 1..n : refs[j] \in Ref
    BY ElementOfSeq DEF TypeOK
  <2>2. QED
    BY <2>1, LenProperties DEF TypeOK, Ref
<1>2. /\ refs' \in Seq(Ref) /\ Len(refs') = n + 1
      /\ \A j \in 1..n : refs'[j] = refs[j]
      /\ refs'[n + 1].owner = i /\ refs'[n + 1].previous = p
      /\ refs'[n + 1].frame = frame + 1
      /\ i \in 1..Len(flows') /\ Len(flows') \in Nat /\ Len(flows) <= Len(flows')
      /\ flows'[i] = g /\ g.lastRef = n + 1
      /\ \A f \in 1..Len(flows') : f # i => f \in 1..Len(flows) /\ flows'[f] = flows[f]
  BY RecordedTables DEF RefTo, Recorded
\* p is the last reference of flow i so far, 0 when it has none
<1>3. /\ p \in 0..n
      /\ p # 0 => refs[p].owner = i
      /\ \A j \in (p + 1)..n : refs[j].owner # i
  <2>1. CASE i \in 1..Len(flows) /\ p = flows[i].lastRef
    BY <1>1, <2>1 DEF ChainInv, HeadsAreLast
  <2>2. CASE i = Len(flows) + 1 /\ p = 0
    BY <1>1, <2>2 DEF ChainInv, Linked
  <2>3. QED
    BY <2>1, <2>2 DEF Recorded
<1>4. Linked'
  <2> SUFFICES ASSUME NEW r \in 1..(n + 1)
               PROVE  /\ refs'[r].owner \in 1..Len(flows')
                      /\ refs'[r].previous \in 0..(r - 1)
                      /\ refs'[r].previous # 0
                            => refs'[refs'[r].previous].owner = refs'[r].owner
                      /\ \A j \in (refs'[r].previous + 1)..(r - 1) :
                            refs'[j].owner # refs'[r].owner
    BY <1>2 DEF Linked
  <2>1. CASE r = n + 1
    <3>1. /\ refs'[r].owner = i /\ refs'[r].previous = p /\ r - 1 = n
          /\ \A j \in 1..n : refs'[j] = refs[j]
      BY <1>1, <1>2, <2>1
    <3>2. \A j \in (p + 1)..n : j \in 1..n
      BY <1>1, <1>3
    <3>3. p # 0 => p \in 1..n
      BY <1>1, <1>3
    <3>4. QED
      BY <1>2, <1>3, <3>1, <3>2, <3>3
  <2>2. CASE r \in 1..n
    <3>1. refs'[r] = refs[r] /\ refs[r].previous \in 0..(r - 1)
      BY <1>2, <2>2 DEF ChainInv, Linked
    <3>2. \A j \in 1..(r - 1) : refs'[j] = refs[j]
      BY <1>1, <1>2, <2>2
    <3>3. refs[r].owner \in 1..Len(flows')
      BY <1>1, <1>2, <2>2 DEF ChainInv, Linked
    <3>4. refs[r].previous # 0 => refs[refs[r].previous].owner = refs[r].owner
      BY <2>2 DEF ChainInv, Linked
    <3>5. \A j \in (refs[r].previous + 1)..(r - 1) : refs[j].owner # refs[r].owner
      BY <2>2 DEF ChainInv, Linked
    <3>6. refs[r].previous # 0 => refs[r].previous \in 1..(r - 1)
      BY <1>1, <2>2, <3>1
    <3>7. \A j \in (refs[r].previous + 1)..(r - 1) : j \in 1..(r - 1)
      BY <1>1, <2>2, <3>1
    <3>8. QED
      BY <3>1, <3>2, <3>3, <3>4, <3>5, <3>6, <3>7
  <2>3. QED
    BY <1>1, <2>1, <2>2
<1>5. HeadsAreLast'
  <2> SUFFICES ASSUME NEW f \in 1..Len(flows')
               PROVE  /\ flows'[f].lastRef \in 1..(n + 1)
                      /\ refs'[flows'[f].lastRef].owner = f
                      /\ \A j \in (flows'[f].lastRef + 1)..(n + 1) : refs'[j].owner # f
    BY <1>2 DEF HeadsAreLast
  <2>1. CASE f = i
    BY <1>1, <1>2, <2>1
  <2>2. CASE f # i
    <3>1. f \in 1..Len(flows) /\ flows'[f] = flows[f]
      BY <1>2, <2>2
    <3>2. /\ flows[f].lastRef \in 1..n
          /\ refs[flows[f].lastRef].owner = f
          /\ \A j \in (flows[f].lastRef + 1)..n : refs[j].owner # f
      BY <3>1 DEF ChainInv, HeadsAreLast
    <3>3. \A j \in (flows[f].lastRef + 1)..(n + 1) :
            j = n + 1 \/ (j \in (flows[f].lastRef + 1)..n /\ j \in 1..n)
      BY <1>1, <3>2
    <3>4. \A j \in (flows[f].lastRef + 1)..(n + 1) : refs'[j].owner # f
      BY <1>2, <2>2, <3>2, <3>3
    <3>5. refs'[flows[f].lastRef].owner = f /\ flows[f].lastRef \in 1..(n + 1)
      BY <1>1, <1>2, <3>2
    <3>6. QED
      BY <3>1, <3>4, <3>5
  <2>3. QED
    BY <2>1, <2>2
<1>6. FramesRead'
  BY <1>1, <1>2 DEF ChainInv, FramesRead, Recorded
<1>7. FramesAscend'
  <2> SUFFICES ASSUME NEW a \in 1..(n + 1), NEW b \in 1..(n + 1), a < b
               PROVE  refs'[a].frame < refs'[b].frame
    BY <1>2 DEF FramesAscend
  <2>1. a \in 1..n /\ refs'[a] = refs[a] /\ refs[a].frame <= frame
    BY <1>1, <1>2 DEF ChainInv, FramesRead
  <2>2. CASE b = n + 1
    BY <1>1, <1>2, <2>1, <2>2
  <2>3. CASE b \in 1..n
    BY <1>2, <2>1, <2>3 DEF ChainInv, FramesAscend
  <2>4. QED
    BY <1>1, <2>2, <2>3
<1>8. QED
  BY <1>4, <1>5, <1>6, <1>7 DEF ChainInv

-----------------------------------------------------------------------------
(* Which action records what.                                               *)

\* A later fragment is recorded for the flow of its first fragment.
LEMMA LaterFragmentRecords ==
    ASSUME TypeOK, NEW x \in Fragment, LaterFragment(x)
    PROVE  /\ fragments[x] \in 1..Len(flows) /\ flows[fragments[x]].lastRef \in Nat
           /\ Recorded(fragments[x], Count(flows[fragments[x]]), flows[fragments[x]].lastRef)
<1>1. fragments[x] \in 1..Len(flows)
  BY LenProperties DEF TypeOK, LaterFragment
<1>2. flows[fragments[x]] \in Flow
  BY <1>1, ElementOfSeq DEF TypeOK
<1>3. Count(flows[fragments[x]]) \in Flow /\ Count(flows[fragments[x]]).lastRef = Len(refs) + 1
  BY <1>2, CountFlow DEF TypeOK
<1>4. flows[fragments[x]].lastRef \in Nat
  BY <1>2 DEF Flow
<1>5. QED
  BY <1>1, <1>3, <1>4 DEF LaterFragment, Recorded

\* A segment of a known connection is recorded for its active flow.
LEMMA JoinFlowRecords ==
    ASSUME TypeOK, NEW k \in Key, NEW side \in Side, NEW flags \in Flags,
           NEW x \in Fragment \cup {0}, JoinFlow(k, side, flags, x)
    PROVE  /\ active[k] \in 1..Len(flows) /\ flows[active[k]].lastRef \in Nat
           /\ Recorded(active[k], Count(Observe(flows[active[k]], side, flags)),
                       flows[active[k]].lastRef)
<1> DEFINE i == active[k]
           o == Observe(flows[i], side, flags)
<1>1. i \in 1..Len(flows)
  BY LenProperties DEF TypeOK, JoinFlow, IsNew
<1>2. flows[i] \in Flow
  BY <1>1, ElementOfSeq DEF TypeOK
<1>3. o \in Flow
  BY <1>2, ObserveFlow
<1>4. Count(o) \in Flow /\ Count(o).lastRef = Len(refs) + 1
  BY <1>3, CountFlow DEF TypeOK
<1>5. flows[i].lastRef \in Nat
  BY <1>2 DEF Flow
<1>6. QED
  BY <1>1, <1>4, <1>5 DEF JoinFlow, Recorded

\* The first packet of a connection is recorded for the flow it founds.
LEMMA FoundFlowRecords ==
    ASSUME TypeOK, NEW k \in Key, NEW side \in Side, NEW flags \in Flags,
           NEW x \in Fragment \cup {0}, FoundFlow(k, side, flags, x)
    PROVE  Recorded(Len(flows) + 1, Count(Observe(NewFlow(k, side), side, flags)), 0)
<1> DEFINE f == NewFlow(k, side)
           o == Observe(f, side, flags)
<1>1. f \in Flow /\ f.lastRef = 0
  BY NewFlowIsFlow DEF TypeOK
<1>2. o \in Flow
  BY <1>1, ObserveFlow
<1>3. Count(o) \in Flow /\ Count(o).lastRef = Len(refs) + 1
  BY <1>2, CountFlow DEF TypeOK
<1>4. QED
  BY <1>1, <1>3 DEF FoundFlow, Recorded

-----------------------------------------------------------------------------
(* The step.                                                                *)

\* The variables of the loop keep their types.
LEMMA TypeStep == TypeOK /\ [Next]_vars => TypeOK'
<1> SUFFICES ASSUME TypeOK, [Next]_vars
             PROVE  TypeOK'
  OBVIOUS
<1>0. Len(flows) \in Nat
  BY LenProperties DEF TypeOK
<1>1. CASE SkipFrame /\ UNCHANGED done
  BY <1>1 DEF SkipFrame, TypeOK
<1>2. ASSUME NEW x \in Fragment, SkipFragment(x), UNCHANGED done
      PROVE  TypeOK'
  BY <1>2 DEF SkipFragment, SkipFrame, TypeOK
<1>3. ASSUME NEW x \in Fragment, LaterFragment(x), UNCHANGED done
      PROVE  TypeOK'
  <2> DEFINE i == fragments[x]
  <2>1. i \in 1..Len(flows) /\ flows[i].lastRef \in Nat
    BY <1>3, LaterFragmentRecords
  <2>2. Recorded(i, Count(flows[i]), flows[i].lastRef)
    BY <1>3, LaterFragmentRecords
  <2>3. /\ flows' \in Seq(Flow) /\ Len(flows) <= Len(flows') /\ Len(flows') \in Nat
        /\ refs' \in Seq(Ref)
    BY <2>1, <2>2, RecordedTables
  <2>4. QED
    BY <1>0, <1>3, <2>3 DEF LaterFragment, TypeOK
<1>4. ASSUME NEW k \in Key, NEW side \in Side, NEW flags \in Flags,
             NEW x \in Fragment \cup {0}, FoundFlow(k, side, flags, x), UNCHANGED done
      PROVE  TypeOK'
  <2>1. /\ flows' \in Seq(Flow) /\ refs' \in Seq(Ref)
        /\ Len(flows') \in Nat /\ Len(flows) + 1 \in 1..Len(flows') /\ Len(flows) <= Len(flows')
    BY <1>0, <1>4, FoundFlowRecords, RecordedTables
  <2>2. QED
    BY <1>0, <1>4, <2>1 DEF FoundFlow, Remember, TypeOK
<1>5. ASSUME NEW k \in Key, NEW side \in Side, NEW flags \in Flags,
             NEW x \in Fragment \cup {0}, JoinFlow(k, side, flags, x), UNCHANGED done
      PROVE  TypeOK'
  <2>1. active[k] \in 1..Len(flows) /\ flows[active[k]].lastRef \in Nat
    BY <1>5, JoinFlowRecords
  <2>2. /\ flows' \in Seq(Flow) /\ Len(flows) <= Len(flows') /\ Len(flows') \in Nat
        /\ refs' \in Seq(Ref)
    BY <1>5, <2>1, JoinFlowRecords, RecordedTables
  <2>3. QED
    BY <1>0, <1>5, <2>1, <2>2 DEF JoinFlow, Remember, TypeOK
<1>6. CASE EndOfCapture
  BY <1>6 DEF EndOfCapture, TypeOK
<1>7. CASE UNCHANGED vars
  BY <1>7 DEF vars, TypeOK
<1>8. QED
  BY <1>1, <1>2, <1>3, <1>4, <1>5, <1>6, <1>7 DEF Next, ReadPacket

\* A frame that joins a flow without changing whose it is, and without
\* reopening it, leaves what is known of keys and generations.
LEMMA JoinKeepsKeys ==
    ASSUME TypeOK, KeyInv, NEW i \in 1..Len(flows), NEW g, NEW p \in Nat, Recorded(i, g, p),
           g.key = flows[i].key, g.generation = flows[i].generation,
           flows[i].closed => g.closed, UNCHANGED <<active, generations>>
    PROVE  KeyInv'
<1>1. /\ Len(flows) \in Nat /\ i \in Nat /\ 1 <= i /\ i <= Len(flows)
      /\ active \in [Key -> 0..Len(flows)]
      /\ \A f \in 1..Len(flows) : flows[f].key \in Key
  <2>1. \A f \in 1..Len(flows) : flows[f] \in Flow
    BY ElementOfSeq DEF TypeOK
  <2>2. Len(flows) \in Nat
    BY LenProperties DEF TypeOK
  <2>3. \A f \in 1..Len(flows) : flows[f].key \in Key
    BY <2>1 DEF Flow
  <2>4. QED
    BY <2>2, <2>3 DEF TypeOK
<1>2. Len(flows') = Len(flows)
  <2>1. CASE flows' = [flows EXCEPT ![i] = g]
    BY <2>1, ExceptSeq DEF Recorded, TypeOK
  <2>2. QED
    BY <1>1, <2>1 DEF Recorded
<1>3. \A f \in 1..Len(flows) :
        /\ flows'[f].key = flows[f].key /\ flows'[f].generation = flows[f].generation
        /\ flows[f].closed => flows'[f].closed
  <2>1. flows'[i] = g /\ \A f \in 1..Len(flows) : f # i => flows'[f] = flows[f]
    BY <1>1, <1>2, RecordedTables
  <2>2. QED
    BY <2>1
<1>4. KeysOK'
  <2> SUFFICES ASSUME NEW f \in 1..Len(flows)
               PROVE  /\ f <= active[flows[f].key]
                      /\ flows'[active[flows[f].key]].key = flows[f].key
                      /\ flows[f].generation < generations[flows[f].key]
    BY <1>2, <1>3 DEF KeysOK
  <2>1. /\ f <= active[flows[f].key]
        /\ flows[active[flows[f].key]].key = flows[f].key
        /\ flows[f].generation < generations[flows[f].key]
    BY DEF KeyInv, KeysOK
  <2>2. active[flows[f].key] \in 1..Len(flows)
    BY <1>1, <2>1
  <2>3. QED
    BY <1>3, <2>1, <2>2
<1>5. ActiveOK'
  <2> SUFFICES ASSUME NEW k \in Key, active[k] # 0
               PROVE  flows'[active[k]].key = k
    BY DEF ActiveOK
  <2>1. active[k] \in 1..Len(flows)
    BY <1>1
  <2>2. QED
    BY <1>3, <2>1 DEF KeyInv, ActiveOK
<1>6. ReuseAfterClose'
  BY <1>2, <1>3 DEF KeyInv, ReuseAfterClose
<1>7. QED
  BY <1>4, <1>5, <1>6 DEF KeyInv

\* A new generation starts after every earlier one of its pair was closed and
\* becomes the one its packets go to.
LEMMA FoundKeepsKeys ==
    ASSUME TypeOK, KeyInv, NEW k \in Key, NEW side \in Side, NEW flags \in Flags,
           NEW x \in Fragment \cup {0}, FoundFlow(k, side, flags, x)
    PROVE  KeyInv'
<1> DEFINE n == Len(flows)
           f0 == NewFlow(k, side)
           g == Count(Observe(f0, side, flags))
<1>1. /\ n \in Nat /\ active \in [Key -> 0..n] /\ generations \in [Key -> Nat]
      /\ \A f \in 1..n : flows[f].key \in Key /\ flows[f].generation \in Nat
  <2>1. \A f \in 1..n : flows[f] \in Flow
    BY ElementOfSeq DEF TypeOK
  <2>2. QED
    BY <2>1, LenProperties DEF TypeOK, Flow
<1>2. g \in Flow /\ g.key = k /\ g.generation = generations[k]
  <2>1. f0 \in Flow /\ f0.key = k /\ f0.generation = generations[k]
    BY NewFlowIsFlow DEF TypeOK
  <2>2. /\ Observe(f0, side, flags) \in Flow
        /\ Observe(f0, side, flags).key = k
        /\ Observe(f0, side, flags).generation = generations[k]
    BY <2>1, ObserveFlow
  <2>3. QED
    BY <2>2, CountFlow DEF TypeOK
<1>3. /\ Len(flows') = n + 1 /\ flows'[n + 1] = g
      /\ \A f \in 1..n : flows'[f] = flows[f]
  BY <1>2, AppendProperties DEF FoundFlow, TypeOK
<1>4. /\ active' = [active EXCEPT ![k] = n + 1]
      /\ generations' = [generations EXCEPT ![k] = @ + 1]
  BY DEF FoundFlow
<1> HIDE DEF f0, g
\* what the guard and the invariant say of the earlier flows of k
<1>5. \A f \in 1..n : flows[f].key = k =>
        flows[f].closed /\ flows[f].generation < generations[k]
  <2> SUFFICES ASSUME NEW f \in 1..n, flows[f].key = k
               PROVE  flows[f].closed /\ flows[f].generation < generations[k]
    OBVIOUS
  <2>1. /\ f <= active[k] /\ flows[active[k]].key = k
        /\ flows[f].generation < generations[k]
    BY DEF KeyInv, KeysOK
  <2>2. active[k] \in 1..n
    BY <1>1, <2>1
  <2>3. flows[active[k]].closed
    BY <2>2 DEF FoundFlow, IsNew
  <2>4. CASE f < active[k]
    BY <2>1, <2>2, <2>4 DEF KeyInv, ReuseAfterClose
  <2>5. CASE f = active[k]
    BY <2>1, <2>3, <2>5
  <2>6. QED
    BY <2>1, <2>2, <2>4, <2>5
<1>6. KeysOK'
  <2> SUFFICES ASSUME NEW f \in 1..(n + 1)
               PROVE  /\ f <= active'[flows'[f].key]
                      /\ flows'[active'[flows'[f].key]].key = flows'[f].key
                      /\ flows'[f].generation < generations'[flows'[f].key]
    BY <1>3 DEF KeysOK
  <2>1. CASE flows'[f].key = k
    <3>1. active'[k] = n + 1 /\ generations'[k] = generations[k] + 1
      BY <1>1, <1>4
    <3>2. flows'[f].generation <= generations[k] /\ flows'[f].generation \in Nat
      <4>1. CASE f = n + 1
        BY <1>1, <1>2, <1>3, <4>1
      <4>2. CASE f \in 1..n
        <5>1. flows'[f] = flows[f]
          BY <1>3, <4>2
        <5>2. flows[f].generation < generations[k]
          BY <1>5, <2>1, <4>2, <5>1
        <5>3. flows[f].generation \in Nat /\ generations[k] \in Nat
          BY <1>1, <4>2
        <5>4. QED
          BY <5>1, <5>2, <5>3
      <4>3. QED
        BY <1>1, <4>1, <4>2
    <3>3. QED
      BY <1>1, <1>2, <1>3, <2>1, <3>1, <3>2
  <2>2. CASE flows'[f].key # k
    <3>1. f \in 1..n /\ flows'[f] = flows[f]
      <4>1. f # n + 1
        BY <1>2, <1>3, <2>2
      <4>2. QED
        BY <1>1, <1>3, <4>1
    <3>2. /\ active'[flows[f].key] = active[flows[f].key]
          /\ generations'[flows[f].key] = generations[flows[f].key]
      BY <1>1, <1>4, <2>2, <3>1
    <3>3. /\ f <= active[flows[f].key]
          /\ flows[active[flows[f].key]].key = flows[f].key
          /\ flows[f].generation < generations[flows[f].key]
      BY <3>1 DEF KeyInv, KeysOK
    <3>4. active[flows[f].key] \in 1..n
      BY <1>1, <3>1, <3>3
    <3>5. QED
      BY <1>3, <3>1, <3>2, <3>3, <3>4
  <2>3. QED
    BY <2>1, <2>2
<1>7. ActiveOK'
  <2> SUFFICES ASSUME NEW m \in Key, active'[m] # 0
               PROVE  flows'[active'[m]].key = m
    BY DEF ActiveOK
  <2>1. CASE m = k
    BY <1>1, <1>2, <1>3, <1>4, <2>1
  <2>2. CASE m # k
    BY <1>1, <1>3, <1>4, <2>2 DEF KeyInv, ActiveOK
  <2>3. QED
    BY <2>1, <2>2
<1>8. ReuseAfterClose'
  <2> SUFFICES ASSUME NEW f \in 1..(n + 1), NEW h \in 1..(n + 1), f < h,
                      flows'[f].key = flows'[h].key
               PROVE  flows'[f].closed /\ flows'[f].generation < flows'[h].generation
    BY <1>3 DEF ReuseAfterClose
  <2>1. f \in 1..n /\ flows'[f] = flows[f]
    <3>1. n \in Nat
      BY <1>1
    <3>2. f \in 1..n
      <4> HIDE DEF n
      <4> QED  BY <3>1
    <3> QED  BY <1>3, <3>2
  <2>2. CASE h = n + 1
    BY <1>2, <1>3, <1>5, <2>1, <2>2
  <2>3. CASE h \in 1..n
    BY <1>3, <2>1, <2>3 DEF KeyInv, ReuseAfterClose
  <2>4. h = n + 1 \/ h \in 1..n
    BY <1>1
  <2>5. QED
    BY <2>2, <2>3, <2>4
<1>9. QED
  BY <1>6, <1>7, <1>8 DEF KeyInv

\* Every step of the loop keeps the whole invariant.
LEMMA InvStep == IInv /\ [Next]_vars => IInv'
<1> SUFFICES ASSUME IInv, [Next]_vars
             PROVE  ChainInv' /\ KeyInv'
  BY TypeStep DEF IInv
<1> USE DEF IInv
<1>1. ASSUME UNCHANGED <<flows, active, generations, refs>>, frame' \in {frame, frame + 1}
      PROVE  ChainInv' /\ KeyInv'
  <2>1. KeyInv'
    BY <1>1 DEF KeyInv, KeysOK, ActiveOK, ReuseAfterClose
  <2>2. Linked' /\ HeadsAreLast' /\ FramesAscend'
    BY <1>1 DEF ChainInv, Linked, HeadsAreLast, FramesAscend
  <2>3. \A i \in 1..Len(refs) : refs[i].frame \in Nat
    <3>1. \A i \in 1..Len(refs) : refs[i] \in Ref
      BY ElementOfSeq DEF TypeOK
    <3>2. QED
      BY <3>1 DEF Ref
  <2>4. FramesRead'
    BY <1>1, <2>3 DEF ChainInv, FramesRead, TypeOK
  <2>5. QED
    BY <2>1, <2>2, <2>4 DEF ChainInv
<1>2. CASE SkipFrame
  BY <1>1, <1>2 DEF SkipFrame
<1>3. ASSUME NEW x \in Fragment, SkipFragment(x)
      PROVE  ChainInv' /\ KeyInv'
  BY <1>2, <1>3 DEF SkipFragment
<1>4. ASSUME NEW x \in Fragment, LaterFragment(x)
      PROVE  ChainInv' /\ KeyInv'
  <2> DEFINE i == fragments[x]
             g == Count(flows[i])
             p == flows[i].lastRef
  <2>1. i \in 1..Len(flows) /\ p \in Nat /\ Recorded(i, g, p)
    BY <1>4, LaterFragmentRecords
  <2>2. g.key = flows[i].key /\ g.generation = flows[i].generation /\ g.closed = flows[i].closed
    BY <2>1, CountFlow, ElementOfSeq DEF TypeOK
  <2>3. UNCHANGED <<active, generations>>
    BY <1>4 DEF LaterFragment
  <2> HIDE DEF i, g, p
  <2>4. QED
    BY <2>1, <2>2, <2>3, RecordedChain, JoinKeepsKeys
<1>5. ASSUME NEW k \in Key, NEW side \in Side, NEW flags \in Flags,
             NEW x \in Fragment \cup {0}, FoundFlow(k, side, flags, x)
      PROVE  ChainInv' /\ KeyInv'
  <2> DEFINE i == Len(flows) + 1
             g == Count(Observe(NewFlow(k, side), side, flags))
  <2>1. i \in Nat /\ Recorded(i, g, 0)
    BY <1>5, FoundFlowRecords, LenProperties DEF TypeOK
  <2> HIDE DEF i, g
  <2>2. ChainInv'
    BY <2>1, RecordedChain
  <2>3. QED
    BY <1>5, <2>2, FoundKeepsKeys
<1>6. ASSUME NEW k \in Key, NEW side \in Side, NEW flags \in Flags,
             NEW x \in Fragment \cup {0}, JoinFlow(k, side, flags, x)
      PROVE  ChainInv' /\ KeyInv'
  <2> DEFINE i == active[k]
             o == Observe(flows[i], side, flags)
             g == Count(o)
             p == flows[i].lastRef
  <2>1. i \in 1..Len(flows) /\ p \in Nat /\ Recorded(i, g, p)
    BY <1>6, JoinFlowRecords
  <2>2. /\ o \in Flow /\ o.key = flows[i].key /\ o.generation = flows[i].generation
        /\ flows[i].closed => o.closed
    BY <2>1, ObserveFlow, ElementOfSeq DEF TypeOK
  <2>3. g.key = o.key /\ g.generation = o.generation /\ g.closed = o.closed
    BY <2>2, CountFlow DEF TypeOK
  <2>4. UNCHANGED <<active, generations>>
    BY <1>6 DEF JoinFlow
  <2> HIDE DEF i, o, g, p
  <2>5. QED
    BY <2>1, <2>2, <2>3, <2>4, RecordedChain, JoinKeepsKeys
<1>7. CASE EndOfCapture
  BY <1>1, <1>7 DEF EndOfCapture
<1>8. CASE UNCHANGED vars
  BY <1>1, <1>8 DEF vars
<1>9. QED
  BY <1>2, <1>3, <1>4, <1>5, <1>6, <1>7, <1>8 DEF Next, ReadPacket

\* An empty index satisfies it.
LEMMA InvInit == Init => IInv
<1> SUFFICES ASSUME Init PROVE IInv
  OBVIOUS
<1>1. Len(flows) = 0 /\ Len(refs) = 0
  BY DEF Init
<1>2. flows \in Seq(Flow) /\ refs \in Seq(Ref)
  BY EmptySeq DEF Init
<1>3. TypeOK
  <2>1. 0 \in 0..Len(flows) /\ 0 \in Nat
    BY <1>1
  <2>2. /\ active \in [Key -> 0..Len(flows)] /\ generations \in [Key -> Nat]
        /\ fragments \in [Fragment -> 0..Len(flows)]
    BY <2>1 DEF Init
  <2>3. frame \in Nat /\ done \in BOOLEAN
    BY DEF Init
  <2>4. QED
    BY <1>2, <2>2, <2>3 DEF TypeOK
<1>4. ChainInv
  BY <1>1 DEF ChainInv, Linked, HeadsAreLast, FramesRead, FramesAscend
<1>5. KeyInv
  BY <1>1 DEF Init, KeyInv, KeysOK, ActiveOK, ReuseAfterClose
<1>6. QED
  BY <1>3, <1>4, <1>5 DEF IInv

\* It holds throughout every scan.
LEMMA InvAlways == Spec => []IInv
BY InvInit, InvStep, PTL DEF Spec

-----------------------------------------------------------------------------

\* The tables of the scanner always have the shape of their Rust types.
THEOREM TypeCorrect == Spec => []TypeOK
BY InvAlways, PTL DEF IInv

\* ChainsAreWhole: whatever the capture, walking `previous` back from a flow's
\* last_ref meets all its references, no others, and ever earlier frames.
THEOREM WholeChains == Spec => []ChainsAreWhole
<1>1. IInv => ChainsAreWhole
  BY DEF IInv, ChainInv, ChainsAreWhole
<1>2. QED
  BY <1>1, InvAlways, PTL

\* Whatever the capture, a pair's connection is only superseded once closed.
THEOREM GenerationsFollowClose == Spec => []ReuseAfterClose
<1>1. IInv => ReuseAfterClose
  BY DEF IInv, KeyInv
<1>2. QED
  BY <1>1, InvAlways, PTL

-----------------------------------------------------------------------------
(* The counts and chain ends of the manifest agree with refs.bin, for any   *)
(* capture: packet_count is the number of references a connection owns,     *)
(* which both chain walkers rely on.                                        *)


\* CountsMatch, with the reference that first_ref names really in refs.bin.
CountsInv == CountsMatch /\ \A f \in 1..Len(flows) : flows[f].firstRef \in 1..Len(refs)

-----------------------------------------------------------------------------
(* What the operators on flow records do to counts and chain ends.          *)

\* Counting a frame adds one packet and moves the last frame; the first one and
\* the chain's beginning are set once.
LEMMA CountEnds ==
    ASSUME NEW f \in Flow, frame \in Nat, refs \in Seq(Ref)
    PROVE  /\ Count(f).packets = f.packets + 1
           /\ Count(f).firstFrame = f.firstFrame /\ Count(f).lastFrame = frame + 1
           /\ f.firstRef # 0 => Count(f).firstRef = f.firstRef
           /\ f.firstRef = 0 => Count(f).firstRef = Len(refs) + 1
<1> DEFINE here == Len(refs) + 1
           first == IF f.firstRef = 0 THEN here ELSE f.firstRef
           next == frame + 1
           more == f.packets + 1
<1>1. Count(f) = [f EXCEPT !.lastFrame = next, !.packets = more,
                           !.firstRef = first, !.lastRef = here]
  BY Zenon DEF Count
<1>2. /\ f.firstRef # 0 => first = f.firstRef
      /\ f.firstRef = 0 => first = here
  OBVIOUS
<1> HIDE DEF here, first, next, more
<1>3. /\ Count(f).packets = more /\ Count(f).firstFrame = f.firstFrame
      /\ Count(f).lastFrame = next /\ Count(f).firstRef = first
  BY <1>1 DEF Flow
<1>4. QED
  BY <1>2, <1>3 DEF here, next, more

\* Flags do not touch them.
LEMMA ObserveEnds ==
    ASSUME NEW f \in Flow, NEW side \in Side, NEW flags \in Flags
    PROVE  /\ Observe(f, side, flags).packets = f.packets
           /\ Observe(f, side, flags).firstFrame = f.firstFrame
           /\ Observe(f, side, flags).firstRef = f.firstRef
BY DEF Observe, Flow, Side

-----------------------------------------------------------------------------
\* A frame is one more for the flow that takes it, and for no other.
LEMMA OwnersAfter ==
    ASSUME TypeOK, NEW i \in Nat, NEW g, NEW p \in Nat, Recorded(i, g, p)
    PROVE  /\ \A f \in Nat : f # i => OwnedBy(f)' = OwnedBy(f)
           /\ OwnedBy(i)' = OwnedBy(i) \cup {Len(refs) + 1}
           /\ Cardinality(OwnedBy(i)') = Cardinality(OwnedBy(i)) + 1
<1> DEFINE n == Len(refs)
<1>1. n \in Nat
  BY LenProperties DEF TypeOK
<1>2. /\ Len(refs') = n + 1 /\ \A j \in 1..n : refs'[j] = refs[j]
      /\ refs'[n + 1].owner = i
  BY RecordedTables DEF RefTo, Recorded
<1>3. \A f \in Nat : f # i => OwnedBy(f)' = OwnedBy(f)
  BY <1>1, <1>2 DEF OwnedBy
<1>4. OwnedBy(i)' = OwnedBy(i) \cup {n + 1}
  BY <1>1, <1>2 DEF OwnedBy
<1>5. IsFiniteSet(OwnedBy(i)) /\ n + 1 \notin OwnedBy(i)
  <2>1. OwnedBy(i) \subseteq 1..n
    BY DEF OwnedBy
  <2>2. IsFiniteSet(1..n)
    BY <1>1, FS_Interval
  <2>3. IsFiniteSet(OwnedBy(i))
    BY <2>1, <2>2, FS_Subset
  <2>4. n + 1 \notin 1..n
    BY <1>1
  <2>5. QED
    BY <2>1, <2>3, <2>4
<1>6. Cardinality(OwnedBy(i) \cup {n + 1}) = Cardinality(OwnedBy(i)) + 1
  BY <1>5, FS_AddElement
<1>7. QED
  BY <1>3, <1>4, <1>6

\* Recording a frame keeps counts and chain ends right, if the record that takes
\* it counts the frame and, when it is new, begins with it.
LEMMA RecordedCounts ==
    ASSUME TypeOK, ChainInv, CountsInv,
           NEW i \in Nat, NEW g, NEW p \in Nat, Recorded(i, g, p), g.lastFrame = frame + 1,
           i \in 1..Len(flows) => /\ g.packets = flows[i].packets + 1
                                  /\ g.firstFrame = flows[i].firstFrame
                                  /\ g.firstRef = flows[i].firstRef,
           i \notin 1..Len(flows) => /\ g.packets = 1 /\ g.firstFrame = frame + 1
                                     /\ g.firstRef = Len(refs) + 1
    PROVE  CountsInv'
<1> DEFINE n == Len(refs)
<1>1. n \in Nat /\ Len(flows) \in Nat
  BY LenProperties DEF TypeOK
<1>2. /\ Len(refs') = n + 1 /\ \A j \in 1..n : refs'[j] = refs[j]
      /\ refs'[n + 1].frame = frame + 1 /\ refs'[n + 1].previous = p
      /\ Len(flows') \in Nat /\ flows'[i] = g /\ g.lastRef = n + 1
      /\ \A f \in 1..Len(flows') : f # i => f \in 1..Len(flows) /\ flows'[f] = flows[f]
  BY RecordedTables DEF RefTo, Recorded
<1>3. \A f \in 1..Len(flows) :
        /\ flows[f].packets = Cardinality(OwnedBy(f))
        /\ flows[f].firstFrame = refs[flows[f].firstRef].frame
        /\ flows[f].lastFrame = refs[flows[f].lastRef].frame
        /\ refs[flows[f].firstRef].previous = 0
        /\ flows[f].firstRef \in 1..n /\ flows[f].lastRef \in 1..n
  BY DEF CountsInv, CountsMatch, ChainInv, HeadsAreLast
<1> SUFFICES ASSUME NEW f \in 1..Len(flows')
             PROVE  /\ flows'[f].packets = Cardinality(OwnedBy(f)')
                    /\ flows'[f].firstFrame = refs'[flows'[f].firstRef].frame
                    /\ flows'[f].lastFrame = refs'[flows'[f].lastRef].frame
                    /\ refs'[flows'[f].firstRef].previous = 0
                    /\ flows'[f].firstRef \in 1..(n + 1)
  BY <1>2 DEF CountsInv, CountsMatch
<1>4. f \in Nat
  BY <1>2
<1>5. CASE f # i
  <2>1. f \in 1..Len(flows) /\ flows'[f] = flows[f]
    BY <1>2, <1>5
  <2>2. OwnedBy(f)' = OwnedBy(f)
    BY <1>4, <1>5, OwnersAfter
  <2>3. refs'[flows[f].firstRef] = refs[flows[f].firstRef]
        /\ refs'[flows[f].lastRef] = refs[flows[f].lastRef]
        /\ flows[f].firstRef \in 1..(n + 1)
    BY <1>1, <1>2, <1>3, <2>1
  <2>4. QED
    BY <1>3, <2>1, <2>2, <2>3
<1>6. CASE f = i /\ i \in 1..Len(flows)
  <2>1. Cardinality(OwnedBy(i)') = Cardinality(OwnedBy(i)) + 1
    BY OwnersAfter
  <2>2. refs'[flows[i].firstRef] = refs[flows[i].firstRef] /\ flows[i].firstRef \in 1..(n + 1)
    BY <1>1, <1>2, <1>3, <1>6
  <2>3. g.packets = Cardinality(OwnedBy(i)')
    BY <1>3, <1>6, <2>1
  <2>4. /\ g.firstFrame = refs'[g.firstRef].frame /\ refs'[g.firstRef].previous = 0
        /\ g.firstRef \in 1..(n + 1)
    BY <1>3, <1>6, <2>2
  <2>5. g.lastFrame = refs'[g.lastRef].frame
    BY <1>2
  <2>6. QED
    BY <1>2, <1>6, <2>3, <2>4, <2>5
<1>7. CASE f = i /\ i \notin 1..Len(flows)
  <2>1. i = Len(flows) + 1 /\ p = 0
    BY <1>7 DEF Recorded
  <2>2. OwnedBy(i) = {}
    BY <1>1, <2>1 DEF OwnedBy, ChainInv, Linked
  <2>3. Cardinality(OwnedBy(i)') = 1
    <3>1. Cardinality(OwnedBy(i)') = Cardinality(OwnedBy(i)) + 1
      BY OwnersAfter
    <3>2. Cardinality(OwnedBy(i)) = 0
      BY <2>2, FS_EmptySet, Zenon
    <3>3. QED
      BY <3>1, <3>2
  <2>4. QED
    BY <1>1, <1>2, <1>7, <2>1, <2>3
<1>8. QED
  BY <1>5, <1>6, <1>7

-----------------------------------------------------------------------------
\* Every step of the loop keeps counts and chain ends right.
LEMMA CountsStep == IInv /\ CountsInv /\ [Next]_vars => CountsInv'
<1> SUFFICES ASSUME TypeOK, ChainInv, CountsInv, [Next]_vars
             PROVE  CountsInv'
  BY DEF IInv
<1>0. /\ frame \in Nat /\ refs \in Seq(Ref)
      /\ \A f \in 1..Len(flows) : flows[f] \in Flow /\ flows[f].firstRef # 0
  <2>1. \A f \in 1..Len(flows) : flows[f] \in Flow
    BY ElementOfSeq DEF TypeOK
  <2>2. \A f \in 1..Len(flows) : flows[f].firstRef \in 1..Len(refs)
    BY DEF CountsInv
  <2>3. QED
    BY <2>1, <2>2 DEF TypeOK
<1>1. ASSUME UNCHANGED <<flows, refs>>
      PROVE  CountsInv'
  BY <1>1 DEF CountsInv, CountsMatch, OwnedBy
<1>2. ASSUME NEW x \in Fragment, LaterFragment(x)
      PROVE  CountsInv'
  <2> DEFINE i == fragments[x]
             g == Count(flows[i])
             p == flows[i].lastRef
  <2>1. i \in 1..Len(flows) /\ p \in Nat /\ Recorded(i, g, p)
    BY <1>2, LaterFragmentRecords
  <2>2. /\ g.packets = flows[i].packets + 1 /\ g.lastFrame = frame + 1
        /\ g.firstFrame = flows[i].firstFrame /\ g.firstRef = flows[i].firstRef
    BY <1>0, <2>1, CountEnds
  <2> HIDE DEF i, g, p
  <2>3. QED
    BY <2>1, <2>2, RecordedCounts
<1>3. ASSUME NEW k \in Key, NEW side \in Side, NEW flags \in Flags,
             NEW x \in Fragment \cup {0}, FoundFlow(k, side, flags, x)
      PROVE  CountsInv'
  <2> DEFINE i == Len(flows) + 1
             f == NewFlow(k, side)
             o == Observe(f, side, flags)
             g == Count(o)
  <2>1. i \in Nat /\ i \notin 1..Len(flows) /\ Recorded(i, g, 0)
    BY <1>3, FoundFlowRecords, LenProperties DEF TypeOK
  <2>2. f \in Flow /\ f.packets = 0 /\ f.firstRef = 0 /\ f.firstFrame = frame + 1
    <3>1. f \in Flow
      BY NewFlowIsFlow DEF TypeOK
    <3>2. QED
      BY <3>1 DEF NewFlow
  <2>3. o \in Flow /\ o.packets = 0 /\ o.firstRef = 0 /\ o.firstFrame = frame + 1
    BY <2>2, ObserveFlow, ObserveEnds
  <2>4. /\ g.packets = 1 /\ g.firstFrame = frame + 1 /\ g.lastFrame = frame + 1
        /\ g.firstRef = Len(refs) + 1
    BY <1>0, <2>3, CountEnds
  <2> HIDE DEF i, f, o, g
  <2>5. QED
    BY <2>1, <2>4, RecordedCounts
<1>4. ASSUME NEW k \in Key, NEW side \in Side, NEW flags \in Flags,
             NEW x \in Fragment \cup {0}, JoinFlow(k, side, flags, x)
      PROVE  CountsInv'
  <2> DEFINE i == active[k]
             o == Observe(flows[i], side, flags)
             g == Count(o)
             p == flows[i].lastRef
  <2>1. i \in 1..Len(flows) /\ p \in Nat /\ Recorded(i, g, p)
    BY <1>4, JoinFlowRecords
  <2>2. /\ o \in Flow /\ o.packets = flows[i].packets
        /\ o.firstFrame = flows[i].firstFrame /\ o.firstRef = flows[i].firstRef
    BY <1>0, <2>1, ObserveFlow, ObserveEnds
  <2>3. /\ g.packets = flows[i].packets + 1 /\ g.lastFrame = frame + 1
        /\ g.firstFrame = flows[i].firstFrame /\ g.firstRef = flows[i].firstRef
    BY <1>0, <2>1, <2>2, CountEnds
  <2> HIDE DEF i, o, g, p
  <2>4. QED
    BY <2>1, <2>3, RecordedCounts
<1>5. CASE SkipFrame \/ (\E x \in Fragment : SkipFragment(x)) \/ EndOfCapture \/ UNCHANGED vars
  BY <1>1, <1>5 DEF SkipFrame, SkipFragment, EndOfCapture, vars
<1>6. QED
  BY <1>2, <1>3, <1>4, <1>5 DEF Next, ReadPacket

\* CountsMatch: whatever the capture, the manifest's packet count is the length of
\* the chain, and its first and last frame are those of the chain's ends.
THEOREM CountsAgree == Spec => []CountsMatch
<1>1. Init => CountsInv
  <2>1. Init => Len(flows) = 0
    BY DEF Init
  <2>2. QED
    BY <2>1 DEF CountsInv, CountsMatch
<1>2. CountsInv => CountsMatch
  BY DEF CountsInv
<1>3. QED
  BY <1>1, <1>2, InvAlways, CountsStep, PTL DEF Spec

-----------------------------------------------------------------------------
(* The scan implements FlowPartition.                                       *)

\* What FramesOf computes, reference by reference.
Deals(g, rs, f) ==
    /\ g \in [0..Len(rs) -> Seq(Nat)]
    /\ g[0] = << >>
    /\ \A n \in 1..Len(rs) :
           g[n] = IF rs[n].owner = f THEN Append(g[n - 1], rs[n].frame) ELSE g[n - 1]

\* A dealing exists and FramesOf is where it ends.
LEMMA FramesAreDealt ==
    ASSUME NEW rs \in Seq(Ref), NEW f
    PROVE  \E g : Deals(g, rs, f) /\ FramesOf(rs, f) = g[Len(rs)]
<1> DEFINE N == Len(rs)
           step == [n \in 1..N |-> [q \in Seq(Nat) |->
                      IF rs[n].owner = f THEN Append(q, rs[n].frame) ELSE q]]
           Is(k) == k = [n \in 0..N |->
                      IF n = 0 THEN << >>
                      ELSE IF rs[n].owner = f THEN Append(k[n - 1], rs[n].frame) ELSE k[n - 1]]
<1>1. N \in Nat /\ \A n \in 1..N : rs[n].frame \in Nat
  <2>1. \A n \in 1..N : rs[n] \in Ref
    BY ElementOfSeq
  <2>2. QED
    BY <2>1, LenProperties DEF Ref
<1>2. step \in [1..N -> [Seq(Nat) -> Seq(Nat)]]
  BY <1>1
<1>3. << >> \in Seq(Nat)
  OBVIOUS
<1>4. FramesOf(rs, f) = (CHOOSE k : Is(k))[N]
  BY DEF FramesOf
<1>5. ASSUME NEW g, Follows(g, N, Seq(Nat), << >>, step)
      PROVE  Deals(g, rs, f)
  <2>1. g \in [0..N -> Seq(Nat)] /\ g[0] = << >>
    BY <1>5 DEF Follows
  <2>2. ASSUME NEW n \in 1..N
        PROVE  g[n] = IF rs[n].owner = f THEN Append(g[n - 1], rs[n].frame) ELSE g[n - 1]
    <3>1. n - 1 \in 0..N
      BY <1>1
    <3>2. g[n] = step[n][g[n - 1]]
      BY <1>5 DEF Follows
    <3>3. g[n - 1] \in Seq(Nat)
      BY <2>1, <3>1
    <3>4. QED
      BY <3>2, <3>3
  <2>3. QED
    BY <2>1, <2>2 DEF Deals
<1> HIDE DEF step
<1>6. PICK g : Follows(g, N, Seq(Nat), << >>, step)
  BY <1>1, <1>2, <1>3, Recursion
<1>7. Deals(g, rs, f)
  BY <1>5, <1>6
<1>8. ASSUME NEW h, Is(h) PROVE Deals(h, rs, f)
  <2> DEFINE T == {n \in 0..N : h[n] = g[n]}
             next(n) == IF n = 0 THEN << >>
                        ELSE IF rs[n].owner = f THEN Append(h[n - 1], rs[n].frame) ELSE h[n - 1]
  <2>1. h = [n \in 0..N |-> next(n)]
    BY <1>8
  <2> HIDE DEF next
  <2>2. \A n \in 0..N : h[n] = next(n)
    BY <2>1
  <2>3. h[0] = << >>
    BY <1>1, <2>2 DEF next
  <2>4. \A n \in 1..N : h[n] = IF rs[n].owner = f THEN Append(h[n - 1], rs[n].frame) ELSE h[n - 1]
    BY <1>1, <2>2 DEF next
  <2> HIDE DEF Is
  <2>5. 0 \in T
    BY <1>1, <1>7, <2>3 DEF Deals
  <2>6. ASSUME NEW n \in 1..N, n - 1 \in T PROVE n \in T
    <3>1. h[n - 1] = g[n - 1] /\ n \in 0..N
      BY <1>1, <2>6
    <3>2. h[n] = g[n]
      BY <1>7, <2>4, <3>1 DEF Deals
    <3>3. QED
      BY <3>1, <3>2
  <2>7. \A n \in 0..N : n \in T
    <3> HIDE DEF T
    <3> QED  BY <1>1, <2>5, <2>6, UpTo
  <2>8. \A n \in 0..N : h[n] = g[n]
    BY <2>7
  <2>9. \A n \in 0..N : g[n] \in Seq(Nat)
    BY <1>7 DEF Deals
  <2>10. h \in [0..N -> Seq(Nat)]
    BY <2>1, <2>2, <2>8, <2>9
  <2> QED  BY <2>3, <2>4, <2>10 DEF Deals
<1>9. \E k : Is(k)
  <2> DEFINE next(n) == IF n = 0 THEN << >>
                        ELSE IF rs[n].owner = f THEN Append(g[n - 1], rs[n].frame) ELSE g[n - 1]
  <2>1. \A n \in 0..N : g[n] = next(n)
    <3>1. next(0) = g[0]
      BY <1>7 DEF Deals
    <3>2. ASSUME NEW n \in 1..N PROVE g[n] = next(n)
      <4>1. n # 0
        BY <1>1
      <4> QED  BY <1>7, <4>1 DEF Deals
    <3>3. \A n \in 0..N : n = 0 \/ n \in 1..N
      BY <1>1
    <3> HIDE DEF next
    <3> QED  BY <3>1, <3>2, <3>3
  <2> HIDE DEF next
  <2>3. g = [n \in 0..N |-> next(n)]
    BY <1>7, <2>1 DEF Deals
  <2>4. Is(g)
    BY <2>3 DEF next
  <2> QED  BY <2>4
<1> HIDE DEF Is
<1>10. Is(CHOOSE k : Is(k))
  BY <1>9
<1> QED  BY <1>4, <1>8, <1>10

\* Two dealings of the same references agree as far as the references do.
LEMMA DealsAgree ==
    ASSUME NEW rs \in Seq(Ref), NEW qs \in Seq(Ref), NEW f, NEW g, NEW h,
           Deals(g, rs, f), Deals(h, qs, f), Len(rs) <= Len(qs),
           \A n \in 1..Len(rs) : rs[n] = qs[n]
    PROVE  g[Len(rs)] = h[Len(rs)]
<1> DEFINE N == Len(rs)
           T == {n \in 0..N : g[n] = h[n]}
<1>1. N \in Nat /\ Len(qs) \in Nat
  BY LenProperties
<1>2. 0 \in T
  BY <1>1 DEF Deals
<1>3. ASSUME NEW n \in 1..N, n - 1 \in T PROVE n \in T
  <2>1. n \in 0..N /\ n \in 1..Len(qs) /\ g[n - 1] = h[n - 1]
    BY <1>1, <1>3
  <2>2. g[n] = h[n]
    BY <2>1 DEF Deals
  <2> QED  BY <2>1, <2>2
<1>4. \A n \in 0..N : n \in T
  <2> HIDE DEF T
  <2> QED  BY <1>1, <1>2, <1>3, UpTo
<1> QED  BY <1>1, <1>4

\* One more reference is one more frame for its owner and nothing for the others.
LEMMA FramesAfter ==
    ASSUME NEW rs \in Seq(Ref), NEW qs \in Seq(Ref), NEW f,
           Len(qs) = Len(rs) + 1, \A n \in 1..Len(rs) : qs[n] = rs[n]
    PROVE  FramesOf(qs, f) = IF qs[Len(qs)].owner = f
                             THEN Append(FramesOf(rs, f), qs[Len(qs)].frame)
                             ELSE FramesOf(rs, f)
<1>1. PICK g : Deals(g, rs, f) /\ FramesOf(rs, f) = g[Len(rs)]
  BY FramesAreDealt
<1>2. PICK h : Deals(h, qs, f) /\ FramesOf(qs, f) = h[Len(qs)]
  BY FramesAreDealt
<1>3. Len(rs) \in Nat /\ Len(rs) + 1 \in 1..Len(qs) /\ Len(rs) <= Len(qs)
  BY LenProperties
<1>4. g[Len(rs)] = h[Len(rs)]
  BY <1>1, <1>2, <1>3, DealsAgree
<1>5. Len(qs) \in 1..Len(qs) /\ Len(qs) - 1 = Len(rs)
  BY <1>3
<1> QED  BY <1>1, <1>2, <1>4, <1>5 DEF Deals

\* A flow no reference names has no frames.
LEMMA NoFrames ==
    ASSUME NEW rs \in Seq(Ref), NEW f, \A n \in 1..Len(rs) : rs[n].owner # f
    PROVE  FramesOf(rs, f) = << >>
<1>1. PICK g : Deals(g, rs, f) /\ FramesOf(rs, f) = g[Len(rs)]
  BY FramesAreDealt
<1> DEFINE N == Len(rs)
           T == {n \in 0..N : g[n] = << >>}
<1>2. N \in Nat
  BY LenProperties
<1>3. 0 \in T
  BY <1>1, <1>2 DEF Deals
<1>4. ASSUME NEW n \in 1..N, n - 1 \in T PROVE n \in T
  BY <1>1, <1>2, <1>4 DEF Deals
<1>5. \A n \in 0..N : n \in T
  <2> HIDE DEF T
  <2> QED  BY <1>2, <1>3, <1>4, UpTo
<1> QED  BY <1>1, <1>2, <1>5

\* A recorded frame is dealt to one flow: an old one, or the one it founds.
LEMMA RecordedDeals ==
    ASSUME TypeOK, Linked, NEW i \in Nat, NEW g, NEW p \in Nat, Recorded(i, g, p)
    PROVE  Partition!Next
<1> DEFINE n == Len(flows)
           old == [f \in 1..n |-> FramesOf(refs, f)]
           new == [f \in 1..Len(flows') |-> FramesOf(refs', f)]
<1>1. /\ refs \in Seq(Ref) /\ refs' \in Seq(Ref) /\ Len(refs') = Len(refs) + 1
      /\ \A j \in 1..Len(refs) : refs'[j] = refs[j]
      /\ refs'[Len(refs) + 1].owner = i /\ refs'[Len(refs) + 1].frame = frame + 1
      /\ n \in Nat /\ Len(refs) \in Nat
  <2>1. /\ refs \in Seq(Ref) /\ refs' \in Seq(Ref) /\ Len(refs') = Len(refs) + 1
        /\ \A j \in 1..Len(refs) : refs'[j] = refs[j]
        /\ refs'[Len(refs) + 1] = RefTo(i, p)
    BY RecordedTables DEF TypeOK
  <2>2. RefTo(i, p).owner = i /\ RefTo(i, p).frame = frame + 1
    BY DEF RefTo
  <2>3. n \in Nat /\ Len(refs) \in Nat
    BY LenProperties DEF TypeOK
  <2> QED  BY <2>1, <2>2, <2>3
<1>2. \A f : FramesOf(refs', f) = IF f = i THEN Append(FramesOf(refs, f), frame + 1) ELSE FramesOf(refs, f)
  BY <1>1, FramesAfter
<1>3. frame' = frame + 1
  BY DEF Recorded
<1>4. CASE i \in 1..n /\ flows' = [flows EXCEPT ![i] = g]
  <2>1. Len(flows') = n
    BY <1>4, ExceptSeq DEF Recorded, TypeOK
  <2>2. new = [old EXCEPT ![i] = Append(@, frame + 1)]
    BY <1>2, <1>4, <2>1
  <2>3. i \in DOMAIN old
    BY <1>4
  <2> HIDE DEF old, new
  <2>4. Partition!Join(i)
    BY <1>3, <2>2 DEF Partition!Join, old, new
  <2> QED  BY <2>3, <2>4 DEF Partition!Next, old
<1>5. CASE i = n + 1 /\ flows' = Append(flows, g)
  <2>1. Len(flows') = n + 1
    BY <1>5, AppendProperties DEF Recorded, TypeOK
  <2>2. FramesOf(refs, i) = << >>
    <3>1. \A j \in 1..Len(refs) : refs[j].owner # i
      BY <1>1, <1>5 DEF Linked
    <3> QED  BY <1>1, <3>1, NoFrames
  <2>3. FramesOf(refs', i) = <<frame + 1>>
    <3>1. FramesOf(refs', i) = Append(<< >>, frame + 1)
      BY <1>2, <2>2
    <3>2. Append(<< >>, frame + 1) = <<frame + 1>>
      OBVIOUS
    <3> QED  BY <3>1, <3>2
  <2>4. \A f \in 1..n : FramesOf(refs', f) = FramesOf(refs, f)
    BY <1>1, <1>2, <1>5
  <2>5. Len(old) = n
    BY <1>1
  <2>6. new = Append(old, <<frame + 1>>)
    BY <1>1, <1>5, <2>1, <2>3, <2>4, <2>5
  <2> HIDE DEF old, new
  <2>7. Partition!Found
    BY <1>3, <2>6 DEF Partition!Found, old, new
  <2> QED  BY <2>7 DEF Partition!Next
<1> QED  BY <1>4, <1>5 DEF Recorded

\* A frame that is skipped is passed over; the end of the capture changes nothing.
LEMMA StepDeals == TypeOK /\ Linked /\ [Next]_vars => [Partition!Next]_(Partition!vars)
<1> SUFFICES ASSUME TypeOK, Linked, [Next]_vars
             PROVE  Partition!Next \/ UNCHANGED Partition!vars
  OBVIOUS
<1>1. CASE SkipFrame
  BY <1>1 DEF SkipFrame, Partition!Next, Partition!PassOver
<1>2. ASSUME NEW x \in Fragment, SkipFragment(x) PROVE Partition!Next
  BY <1>2 DEF SkipFragment, SkipFrame, Partition!Next, Partition!PassOver
<1>3. ASSUME NEW x \in Fragment, LaterFragment(x) PROVE Partition!Next
  <2>1. fragments[x] \in Nat
    BY <1>3, LaterFragmentRecords
  <2> QED  BY <1>3, <2>1, LaterFragmentRecords, RecordedDeals
<1>4. ASSUME NEW k \in Key, NEW side \in Side, NEW flags \in Flags,
             NEW x \in Fragment \cup {0}, FoundFlow(k, side, flags, x)
      PROVE  Partition!Next
  <2>1. Len(flows) + 1 \in Nat /\ 0 \in Nat
    BY LenProperties DEF TypeOK
  <2> QED  BY <1>4, <2>1, FoundFlowRecords, RecordedDeals
<1>5. ASSUME NEW k \in Key, NEW side \in Side, NEW flags \in Flags,
             NEW x \in Fragment \cup {0}, JoinFlow(k, side, flags, x)
      PROVE  Partition!Next
  <2>1. active[k] \in Nat
    BY <1>5, JoinFlowRecords
  <2> QED  BY <1>5, <2>1, JoinFlowRecords, RecordedDeals
<1>6. CASE EndOfCapture
  BY <1>6 DEF EndOfCapture, Partition!vars
<1>7. CASE UNCHANGED vars
  BY <1>7 DEF vars, Partition!vars
<1> QED  BY <1>1, <1>2, <1>3, <1>4, <1>5, <1>6, <1>7 DEF Next, ReadPacket

\* DealsFrames: the scan implements FlowPartition, for every capture: each frame
\* goes to one flow or to none, a flow has its frames in capture order, and no
\* frame once dealt is moved or taken back.
THEOREM ImplementsPartition == Spec => DealsFrames
<1>1. Init => Partition!Init
  <2> SUFFICES ASSUME Init PROVE frame = 0 /\ [f \in 1..Len(flows) |-> FramesOf(refs, f)] = << >>
    BY DEF Partition!Init
  <2>1. frame = 0 /\ 1..Len(flows) = {}
    BY DEF Init
  <2> QED  BY <2>1
<1>2. IInv => TypeOK /\ Linked
  BY DEF IInv, ChainInv
<1> QED  BY <1>1, <1>2, InvAlways, StepDeals, PTL DEF Spec, DealsFrames, Partition!Spec

-----------------------------------------------------------------------------
(* Reading a flow out of an index the scanner wrote: the walk over          *)
(* `previous` returns the flow, and none of its integrity checks ever       *)
(* refuses it.                                                              *)

\* The references of the flow that a walk which is to read `current` has read.
Walked == {i \in OwnedBy(target) : current < i}

FramesAre(refSet) == {chain[n] : n \in 1..Len(chain)} = {refs[i].frame : i \in refSet}
Descends == \A m, n \in 1..Len(chain) : m < n => chain[n] < chain[m]

\* What a walk knows: it stands on a reference of its flow, has read all the later
\* ones, once each, and nothing else.
WalkKnows ==
    outcome = "walking" =>
        /\ target \in 1..Len(flows)
        /\ current \in 0..Len(refs) /\ (current # 0 => current \in OwnedBy(target))
        /\ chain \in Seq(Nat)
        /\ Len(chain) = Cardinality(Walked) /\ FramesAre(Walked) /\ Descends

\* Only a published index is read.
ReadAfterScan == outcome # "none" => done

WalkInv ==
    /\ IInv /\ CountsInv
    /\ outcome \in Refusals \cup {"none", "walking", "ok"}
    /\ ReadAfterScan
    /\ holes = {} => WalkKnows
    /\ WalkReturnsFlow

-----------------------------------------------------------------------------
\* A flow's references are finitely many, no walk reads more, and a reference that
\* was not read yet is one more.
LEMMA WalkedIsFinite ==
    ASSUME TypeOK, target \in Nat, current \in Nat
    PROVE  /\ IsFiniteSet(OwnedBy(target)) /\ IsFiniteSet(Walked)
           /\ \A S \in SUBSET OwnedBy(target) : Cardinality(S) <= Cardinality(OwnedBy(target))
           /\ Cardinality(Walked \cup {current}) = Cardinality(Walked) + 1
<1>1. IsFiniteSet(1..Len(refs))
  BY LenProperties, FS_Interval DEF TypeOK
<1>2. IsFiniteSet(OwnedBy(target))
  BY <1>1, FS_Subset DEF OwnedBy
<1>3. IsFiniteSet(Walked)
  BY <1>2, FS_Subset DEF Walked
<1>4. \A S \in SUBSET OwnedBy(target) : Cardinality(S) <= Cardinality(OwnedBy(target))
  BY <1>2, FS_Subset
<1>5. current \notin Walked
  BY DEF Walked
<1>6. Cardinality(Walked \cup {current}) = Cardinality(Walked) + 1
  BY <1>3, <1>5, FS_AddElement
<1>7. QED
  BY <1>2, <1>3, <1>4, <1>6

\* The reference before `current` of the same flow is the one it links to: reading
\* current leaves nothing of the flow out.
LEMMA NextIsPrevious ==
    ASSUME TypeOK, ChainInv, target \in Nat, current \in OwnedBy(target)
    PROVE  LET before == refs[current].previous IN
           /\ before \in 0..Len(refs) /\ (before # 0 => before \in OwnedBy(target))
           /\ {i \in OwnedBy(target) : before < i} = Walked \cup {current}
<1> DEFINE before == refs[current].previous
<1>1. /\ Len(refs) \in Nat /\ current \in 1..Len(refs) /\ refs[current].owner = target
  BY LenProperties DEF TypeOK, OwnedBy
<1>2. /\ before \in 0..(current - 1)
      /\ before # 0 => refs[before].owner = target
      /\ \A j \in (before + 1)..(current - 1) : refs[j].owner # target
  BY <1>1 DEF ChainInv, Linked
<1> HIDE DEF before
<1>3. before \in 0..Len(refs) /\ (before # 0 => before \in OwnedBy(target))
  BY <1>1, <1>2 DEF OwnedBy
<1>4. ASSUME NEW i \in OwnedBy(target)
      PROVE  before < i <=> current < i \/ i = current
  <2>1. i \in 1..Len(refs) /\ refs[i].owner = target
    BY DEF OwnedBy
  <2>2. i \notin (before + 1)..(current - 1)
    BY <1>2, <2>1
  <2>3. QED
    BY <1>1, <1>2, <2>1, <2>2
<1>5. {i \in OwnedBy(target) : before < i} = Walked \cup {current}
  BY <1>4 DEF Walked
<1>6. QED
  BY <1>3, <1>5 DEF before

-----------------------------------------------------------------------------
\* What is known of the index only speaks of the index.
LEMMA SameIndex ==
    ASSUME IInv, CountsInv, UNCHANGED vars
    PROVE  IInv' /\ CountsInv'
<1>1. IInv'
  BY InvStep
<1>2. CountsInv'
  BY CountsStep
<1>3. QED
  BY <1>1, <1>2

\* Beginning at last_ref, a walk has left nothing behind.
LEMMA StartHolds ==
    ASSUME WalkInv, NEW f \in 1..(Len(flows) + 1), StartWalk(f)
    PROVE  WalkInv'
<1>1. /\ UNCHANGED <<vars, holes>> /\ done
      /\ \/ outcome' \in {"missing", "too_large"}
         \/ /\ f \in 1..Len(flows) /\ target' = f /\ current' = flows[f].lastRef
            /\ chain' = << >> /\ outcome' = "walking"
  BY DEF StartWalk, Refuse
<1>2. IInv' /\ CountsInv' /\ ReadAfterScan'
  BY <1>1, SameIndex DEF WalkInv, ReadAfterScan, vars
<1>3. CASE outcome' \in {"missing", "too_large"}
  BY <1>2, <1>3 DEF WalkInv, WalkKnows, WalkReturnsFlow, Refusals
<1>4. CASE /\ f \in 1..Len(flows) /\ target' = f /\ current' = flows[f].lastRef
           /\ chain' = << >> /\ outcome' = "walking"
  <2>1. /\ flows[f].lastRef \in 1..Len(refs) /\ refs[flows[f].lastRef].owner = f
        /\ \A j \in (flows[f].lastRef + 1)..Len(refs) : refs[j].owner # f
    BY <1>4 DEF WalkInv, IInv, ChainInv, HeadsAreLast
  <2>2. Len(refs) \in Nat /\ UNCHANGED <<refs, flows>>
    BY <1>1, LenProperties DEF WalkInv, IInv, TypeOK, vars
  <2>3. {i \in 1..Len(refs) : refs[i].owner = f /\ flows[f].lastRef < i} = {}
    BY <2>1, <2>2
  <2>4. Walked' = {}
    BY <1>4, <2>2, <2>3 DEF Walked, OwnedBy
  <2>5. Len(chain') = 0 /\ chain' \in Seq(Nat)
    BY <1>4
  <2>6. Cardinality(Walked') = 0
    BY <2>4, FS_EmptySet, Zenon
  <2>7. FramesAre(Walked)' /\ Descends'
    BY <2>4, <2>5 DEF FramesAre, Descends
  <2>8. /\ target' \in 1..Len(flows') /\ current' \in 0..Len(refs')
        /\ current' \in OwnedBy(target)'
    BY <1>4, <2>1, <2>2 DEF OwnedBy
  <2>9. WalkKnows'
    BY <2>5, <2>6, <2>7, <2>8 DEF WalkKnows
  <2>10. QED
    BY <1>2, <1>4, <2>9 DEF WalkInv, WalkReturnsFlow
<1>5. QED
  BY <1>1, <1>3, <1>4

\* Reading the row at `current` over a sound index goes on without a refusal.
LEMMA WalkHolds ==
    ASSUME WalkInv, WalkStep
    PROVE  WalkInv'
<1>1. UNCHANGED <<vars, holes>> /\ outcome = "walking" /\ current # 0
  BY DEF WalkStep
<1>2. IInv' /\ CountsInv'
  BY <1>1, SameIndex DEF WalkInv
<1>3. outcome' \in Refusals \cup {"none", "walking", "ok"} /\ ReadAfterScan'
  BY <1>1 DEF WalkStep, WalkInv, ReadAfterScan, Refuse, Refusals, vars
<1>4. CASE holes # {}
  BY <1>1, <1>2, <1>3, <1>4 DEF WalkInv, WalkReturnsFlow
<1>5. CASE holes = {}
  <2>1. /\ target \in 1..Len(flows) /\ current \in OwnedBy(target) /\ chain \in Seq(Nat)
        /\ Len(chain) = Cardinality(Walked) /\ FramesAre(Walked) /\ Descends
    BY <1>1, <1>5 DEF WalkInv, WalkKnows
  <2>2. /\ Len(flows) \in Nat /\ Len(refs) \in Nat /\ target \in Nat /\ current \in Nat
        /\ current \in 1..Len(refs) /\ refs[current].owner = target
        /\ TypeOK /\ ChainInv
    BY <2>1, LenProperties DEF WalkInv, IInv, TypeOK, OwnedBy
  <2>3. \A i \in 1..Len(refs) : refs[i].frame \in Nat
    <3>1. \A i \in 1..Len(refs) : refs[i] \in Ref
      BY <2>2, ElementOfSeq DEF TypeOK
    <3>2. QED
      BY <3>1 DEF Ref
  <2> DEFINE row == refs[current]
             longer == Append(chain, row.frame)
             n == Len(chain)
  <2>4. Row(current) = row
    BY <1>5 DEF Row
  <2>5. Walked \cup {current} \in SUBSET OwnedBy(target)
    BY <2>1 DEF Walked
  <2>6. Cardinality(Walked \cup {current}) = n + 1 /\ Cardinality(Walked \cup {current}) <= flows[target].packets
    <3>1. flows[target].packets = Cardinality(OwnedBy(target))
      BY <2>1 DEF WalkInv, CountsInv, CountsMatch
    <3>2. QED
      BY <2>1, <2>2, <2>5, <3>1, WalkedIsFinite
  <2>7. /\ longer \in Seq(Nat) /\ Len(longer) = n + 1 /\ n \in Nat /\ longer[n + 1] = row.frame
        /\ \A m \in 1..n : longer[m] = chain[m]
    BY <2>1, <2>2, <2>3, AppendProperties, LenProperties
  <2>8. Len(longer) <= flows[target].packets
    BY <2>6, <2>7
  <2>9. /\ chain' = longer /\ current' = row.previous /\ outcome' = "walking" /\ target' = target
    <3>1. current <= Len(refs) /\ Row(current).owner = target
      BY <2>2, <2>4
    <3>2. Append(chain, Row(current).frame) = longer
      BY <2>4
    <3>3. ~(Len(Append(chain, Row(current).frame)) > flows[target].packets)
      <4>1. Len(longer) \in Nat /\ flows[target].packets \in Nat
        <5>1. flows[target] \in Flow
          BY <2>1, <2>2, ElementOfSeq DEF TypeOK
        <5>2. QED
          BY <2>7, <5>1 DEF Flow
      <4>2. ~(Len(longer) > flows[target].packets)
        BY <2>8, <4>1
      <4>3. QED
        BY <3>2, <4>2
    <3>4. QED
      BY <1>1, <2>4, <3>1, <3>2, <3>3, Zenon DEF WalkStep
  <2>10. /\ row.previous \in 0..Len(refs) /\ (row.previous # 0 => row.previous \in OwnedBy(target))
         /\ {i \in OwnedBy(target) : row.previous < i} = Walked \cup {current}
    BY <2>1, <2>2, NextIsPrevious
  <2>11. Walked' = Walked \cup {current}
    BY <1>1, <2>9, <2>10 DEF Walked, OwnedBy, vars
  <2> HIDE DEF longer, row
  <2>12. FramesAre(Walked)'
    <3>1. {longer[m] : m \in 1..(n + 1)} = {chain[m] : m \in 1..n} \cup {row.frame}
      BY <2>7
    <3>2. {refs[i].frame : i \in Walked \cup {current}} = {refs[i].frame : i \in Walked} \cup {row.frame}
      BY DEF row
    <3>3. {longer[m] : m \in 1..(n + 1)} = {refs[i].frame : i \in Walked \cup {current}}
      BY <2>1, <3>1, <3>2 DEF FramesAre
    <3>4. UNCHANGED refs
      BY <1>1 DEF vars
    <3>5. QED
      BY <2>7, <2>9, <2>11, <3>3, <3>4 DEF FramesAre
  <2>13. Descends'
    <3>1. \A m \in 1..n : row.frame < chain[m]
      <4> SUFFICES ASSUME NEW m \in 1..n PROVE row.frame < chain[m]
        OBVIOUS
      <4>1. PICK i \in Walked : chain[m] = refs[i].frame
        BY <2>1 DEF FramesAre
      <4>2. i \in 1..Len(refs) /\ current < i
        BY <4>1 DEF Walked, OwnedBy
      <4>3. QED
        BY <2>2, <4>1, <4>2 DEF ChainInv, FramesAscend, row
    <3>2. ASSUME NEW k \in 1..(n + 1), NEW m \in 1..(n + 1), k < m
          PROVE  longer[m] < longer[k]
      <4>1. CASE m = n + 1
        BY <2>7, <3>1, <3>2, <4>1
      <4>2. CASE m \in 1..n
        <5>1. k \in 1..n /\ longer[k] = chain[k] /\ longer[m] = chain[m]
          BY <2>7, <3>2, <4>2
        <5>2. chain[m] < chain[k]
          BY <2>1, <3>2, <4>2, <5>1 DEF Descends
        <5>3. QED
          BY <5>1, <5>2
      <4>3. QED
        BY <2>7, <4>1, <4>2
    <3>3. QED
      BY <2>7, <2>9, <3>2 DEF Descends
  <2>14. Len(chain') = Cardinality(Walked')
    BY <2>6, <2>7, <2>9, <2>11
  <2>15. /\ target' \in 1..Len(flows') /\ current' \in 0..Len(refs')
         /\ (current' # 0 => current' \in OwnedBy(target)') /\ chain' \in Seq(Nat)
    <3>1. OwnedBy(target)' = OwnedBy(target)
      BY <1>1, <2>9 DEF OwnedBy, vars
    <3>2. UNCHANGED <<refs, flows>>
      BY <1>1 DEF vars
    <3>3. QED
      BY <2>1, <2>7, <2>9, <2>10, <3>1, <3>2
  <2>16. WalkKnows'
    BY <2>12, <2>13, <2>14, <2>15 DEF WalkKnows
  <2>17. QED
    BY <1>2, <1>3, <2>9, <2>16 DEF WalkInv, WalkReturnsFlow
<1>6. QED
  BY <1>4, <1>5

\* At the beginning of the chain everything was read; reversed, it ascends.
LEMMA EndHolds ==
    ASSUME WalkInv, EndWalk
    PROVE  WalkInv'
<1>1. UNCHANGED <<vars, holes>> /\ outcome = "walking" /\ current = 0
  BY DEF EndWalk
<1>2. IInv' /\ CountsInv'
  BY <1>1, SameIndex DEF WalkInv
<1>3. outcome' \in {"ok", "damaged"} /\ ReadAfterScan'
  BY <1>1 DEF EndWalk, WalkInv, ReadAfterScan, Refuse, vars
<1>4. CASE holes # {}
  BY <1>1, <1>2, <1>3, <1>4 DEF WalkInv, WalkReturnsFlow, Refusals
<1>5. CASE holes = {}
  <2>1. /\ target \in 1..Len(flows) /\ chain \in Seq(Nat)
        /\ Len(chain) = Cardinality(Walked) /\ FramesAre(Walked) /\ Descends
    BY <1>1, <1>5 DEF WalkInv, WalkKnows
  <2> DEFINE n == Len(chain)
  <2>2. n \in Nat /\ \A m \in 1..n : chain[m] \in Nat
    BY <2>1, LenProperties, ElementOfSeq
  <2>3. Walked = OwnedBy(target)
    BY <1>1, LenProperties DEF Walked, OwnedBy, WalkInv, IInv, TypeOK
  <2>4. n = flows[target].packets
    BY <2>1, <2>3 DEF WalkInv, CountsInv, CountsMatch
  <2>5. /\ chain' = [m \in 1..n |-> chain[n + 1 - m]]
        /\ outcome' = "ok" /\ target' = target
    BY <2>4 DEF EndWalk
  <2>6. Len(chain') = n
    BY <2>2, <2>5, LenProperties
  <2>7. {chain'[m] : m \in 1..n} = {chain[m] : m \in 1..n}
    <3>1. \A m \in 1..n : n + 1 - m \in 1..n /\ chain'[m] = chain[n + 1 - m]
      BY <2>2, <2>5
    <3>2. \A m \in 1..n : n + 1 - m \in 1..n /\ chain'[n + 1 - m] = chain[m]
      <4> SUFFICES ASSUME NEW m \in 1..n
                   PROVE  n + 1 - m \in 1..n /\ chain'[n + 1 - m] = chain[m]
        OBVIOUS
      <4>1. n + 1 - m \in 1..n /\ n + 1 - (n + 1 - m) = m
        BY <2>2
      <4>2. QED
        BY <3>1, <4>1
    <3>3. {chain'[m] : m \in 1..n} \subseteq {chain[m] : m \in 1..n}
      BY <3>1
    <3>4. {chain[m] : m \in 1..n} \subseteq {chain'[m] : m \in 1..n}
      BY <3>2
    <3>5. QED
      BY <3>3, <3>4
  <2>8. \A k, m \in 1..n : k < m => chain'[k] < chain'[m]
    <3> SUFFICES ASSUME NEW k \in 1..n, NEW m \in 1..n, k < m
                 PROVE  chain'[k] < chain'[m]
      OBVIOUS
    <3>1. /\ n + 1 - k \in 1..n /\ n + 1 - m \in 1..n /\ n + 1 - m < n + 1 - k
          /\ chain'[k] = chain[n + 1 - k] /\ chain'[m] = chain[n + 1 - m]
      BY <2>2, <2>5
    <3>2. QED
      BY <2>1, <3>1 DEF Descends
  <2>9. {refs'[i].frame : i \in OwnedBy(target)'} = {refs[i].frame : i \in Walked}
    BY <1>1, <2>3, <2>5 DEF OwnedBy, vars
  <2>10. WalkReturnsFlow'
    BY <2>1, <2>5, <2>6, <2>7, <2>8, <2>9 DEF WalkReturnsFlow, FramesAre
  <2>11. QED
    BY <1>2, <1>3, <2>5, <2>10 DEF WalkInv, WalkKnows
<1>6. QED
  BY <1>4, <1>5

\* Every step of scan and walk keeps it; nothing else changes the index.
LEMMA ReadStepHolds == WalkInv /\ [ReadNext]_<<vars, readVars>> => WalkInv'
<1> SUFFICES ASSUME WalkInv, [ReadNext]_<<vars, readVars>>
             PROVE  WalkInv'
  OBVIOUS
<1>1. ASSUME Next, UNCHANGED readVars
      PROVE  WalkInv'
  <2>1. IInv' /\ CountsInv'
    BY <1>1, InvStep, CountsStep DEF WalkInv
  <2>2. ~done
    BY <1>1 DEF Next, ReadPacket, EndOfCapture
  <2>3. outcome = "none" /\ outcome' = "none"
    BY <1>1, <2>2 DEF WalkInv, ReadAfterScan, readVars, walkVars
  <2>4. QED
    BY <2>1, <2>3 DEF WalkInv, WalkKnows, WalkReturnsFlow, ReadAfterScan
<1>2. ASSUME NEW f \in 1..(Len(flows) + 1), StartWalk(f)
      PROVE  WalkInv'
  BY <1>2, StartHolds
<1>3. CASE WalkStep
  BY <1>3, WalkHolds
<1>4. CASE EndWalk
  BY <1>4, EndHolds
<1>5. CASE Hole
  <2>1. holes' # {} /\ UNCHANGED <<vars, walkVars>>
    BY <1>5 DEF Hole
  <2>2. IInv' /\ CountsInv'
    BY <2>1, SameIndex DEF WalkInv
  <2>3. QED
    BY <2>1, <2>2 DEF WalkInv, WalkReturnsFlow, ReadAfterScan, vars, walkVars
<1>6. CASE UNCHANGED <<vars, readVars>>
  <2>1. IInv' /\ CountsInv'
    BY <1>6, SameIndex DEF WalkInv
  <2>2. WalkKnows' = WalkKnows /\ WalkReturnsFlow' = WalkReturnsFlow
    BY <1>6 DEF WalkKnows, WalkReturnsFlow, Walked, OwnedBy, FramesAre, Descends,
                vars, readVars, walkVars
  <2>3. UNCHANGED <<outcome, holes>> /\ ReadAfterScan'
    BY <1>6 DEF WalkInv, ReadAfterScan, vars, readVars, walkVars
  <2>4. QED
    BY <2>1, <2>2, <2>3 DEF WalkInv
<1>7. QED
  BY <1>1, <1>2, <1>3, <1>4, <1>5, <1>6 DEF ReadNext

\* WalkReturnsFlow: whatever the capture and the flow asked for, both chain walkers
\* return the flow's frames in order from an index the scanner wrote, and none of
\* their checks refuses it.
THEOREM WalkIsRight == ReadSpec => []WalkReturnsFlow
<1>1. InitRead => WalkInv
  <2> SUFFICES ASSUME InitRead PROVE WalkInv
    OBVIOUS
  <2>1. IInv /\ CountsInv
    <3>1. Init /\ Len(flows) = 0
      BY DEF InitRead, Init
    <3>2. QED
      BY <3>1, InvInit DEF CountsInv, CountsMatch
  <2>2. QED
    BY <2>1 DEF InitRead, WalkInv, WalkKnows, WalkReturnsFlow, ReadAfterScan
<1>2. WalkInv => WalkReturnsFlow
  BY DEF WalkInv
<1>3. QED
  BY <1>1, <1>2, ReadStepHolds, PTL DEF ReadSpec

=============================================================================
