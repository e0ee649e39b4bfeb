----------------------------- MODULE StreamProofs -----------------------------
(***************************************************************************)
(* What the analyses of a stream promise, for every scene: any packets,    *)
(* gaps and number of packets, and any value of the thresholds.            *)
(***************************************************************************)
EXTENDS StreamProperties, SequencingProofs, SequenceTheorems, FiniteSetTheorems, TLAPS

-----------------------------------------------------------------------------
(* The capture *)

\* The packets of a capture are numbered in order and no time goes back.
CaptureInv ==
    /\ scene \in Scene /\ capture \in Seq(Packet) /\ Len(capture) <= scene.most
    /\ \A i \in 1..Len(capture) : capture[i].frame = i /\ capture[i].ts \in Nat
    /\ \A i \in 2..Len(capture) : capture[i].ts - capture[i - 1].ts \in scene.gaps

LEMMA InitCapture == Init => CaptureInv
<1> SUFFICES ASSUME Init PROVE CaptureInv
  OBVIOUS
<1>1. capture = << >> /\ Len(capture) = 0 /\ scene \in Scene
  BY DEF Init
<1>2. scene.most \in Nat
  BY <1>1, SceneConstants
<1>3. 1..Len(capture) = {} /\ 2..Len(capture) = {}
  BY <1>1
<1> QED  BY <1>1, <1>2, <1>3 DEF CaptureInv

LEMMA StepCapture == CaptureInv /\ [Next]_vars => CaptureInv'
<1> SUFFICES ASSUME CaptureInv, [Next]_vars PROVE CaptureInv'
  OBVIOUS
<1>1. CASE UNCHANGED vars
  BY <1>1 DEF vars, CaptureInv
<1>2. ASSUME NEW p \in scene.packets, NEW gap \in scene.gaps, Capture(p, gap)
      PROVE  CaptureInv'
  <2> DEFINE n == Len(capture)
             now == IF capture = << >> THEN 0 ELSE Last(capture).ts + gap
             q == [p EXCEPT !.frame = n + 1, !.ts = now]
  <2>1. p \in Packet /\ gap \in Nat /\ scene.gaps \subseteq Nat /\ scene.most \in Nat
    BY <1>2, SceneConstants DEF CaptureInv
  <2>2. n \in Nat /\ capture \in Seq(Packet) /\ scene' = scene /\ n < scene.most
        /\ capture' = Append(capture, q)
    BY <1>2 DEF CaptureInv, Capture
  <2>3. now \in Nat /\ (n # 0 => now = capture[n].ts + gap)
    <3>1. CASE capture = << >>
      BY <3>1
    <3>2. CASE capture # << >>
      <4>1. n \in 1..n /\ Last(capture) = capture[n]
        BY <2>2, <3>2 DEF Last
      <4>2. capture[n].ts \in Nat
        BY <4>1 DEF CaptureInv
      <4> QED  BY <4>1, <4>2, <2>1, <3>2
    <3> QED  BY <3>1, <3>2
  <2>4. q \in Packet /\ q.frame = n + 1 /\ q.ts = now
    <3> HIDE DEF now
    <3>1. n + 1 \in Nat
      BY <2>2
    <3> HIDE DEF n
    <3> QED  BY <2>1, <2>3, <3>1 DEF Packet
  <2> HIDE DEF now, q
  <2>5. /\ capture' \in Seq(Packet) /\ Len(capture') = n + 1
        /\ \A i \in 1..n : capture'[i] = capture[i]
        /\ capture'[n + 1] = q
    BY <2>2, <2>4
  <2>6. \A i \in 1..(n + 1) : capture'[i].frame = i /\ capture'[i].ts \in Nat
    BY <2>2, <2>3, <2>4, <2>5 DEF CaptureInv
  <2>7. ASSUME NEW i \in 2..(n + 1) PROVE capture'[i].ts - capture'[i - 1].ts \in scene.gaps
    <3>1. CASE i \in 2..n
      <4>1. capture'[i] = capture[i] /\ capture'[i - 1] = capture[i - 1]
        BY <3>1, <2>5, <2>2
      <4> QED  BY <3>1, <4>1 DEF CaptureInv
    <3>2. CASE i = n + 1
      <4>1. capture'[i] = q /\ capture'[i - 1] = capture[n] /\ n # 0 /\ n \in 1..n
        BY <3>2, <2>5, <2>2
      <4>2. capture[n].ts \in Nat
        BY <4>1 DEF CaptureInv
      <4>3. now - capture[n].ts = gap
        BY <4>1, <4>2, <2>3, <2>1
      <4> QED  BY <4>1, <4>3, <2>4
    <3> QED  BY <3>1, <3>2, <2>2
  <2> QED  BY <2>2, <2>1, <2>5, <2>6, <2>7 DEF CaptureInv
<1> QED  BY <1>1, <1>2 DEF Next

LEMMA CaptureInvariant == Spec => []CaptureInv
  BY InitCapture, StepCapture, PTL DEF Spec

\* The capture clock does not go back.
LEMMA ClockOrdered ==
    ASSUME CaptureInv
    PROVE  \A i, j \in 1..Len(capture) : i <= j => capture[i].ts <= capture[j].ts
<1> DEFINE n == Len(capture)
           T == {j \in 0..n : \A i \in 1..j : capture[i].ts <= capture[j].ts}
<1>1. n \in Nat /\ 0 \in T
  BY DEF CaptureInv
<1>2. ASSUME NEW j \in 1..n, j - 1 \in T PROVE j \in T
  <2>1. capture[j].ts \in Nat
    BY DEF CaptureInv
  <2>2. CASE j = 1
    BY <2>1, <2>2
  <2>3. CASE j # 1
    <3>1. j \in 2..n /\ j - 1 \in 1..n
      BY <2>3
    <3>2. capture[j].ts - capture[j - 1].ts \in Nat /\ capture[j - 1].ts \in Nat
      BY <3>1, SceneConstants DEF CaptureInv
    <3>3. capture[j - 1].ts <= capture[j].ts
      BY <3>2, <2>1
    <3>4. ASSUME NEW i \in 1..(j - 1) PROVE capture[i].ts <= capture[j].ts
      <4>1. capture[i].ts <= capture[j - 1].ts /\ capture[i].ts \in Nat
        BY <1>2, <3>1 DEF CaptureInv
      <4> QED  BY <4>1, <3>3, <3>2, <2>1
    <3>5. ASSUME NEW i \in 1..j PROVE capture[i].ts <= capture[j].ts
      BY <3>4, <2>1
    <3> QED  BY <3>5
  <2> QED  BY <2>2, <2>3
<1>3. \A j \in 0..n : j \in T
  <2> HIDE DEF T
  <2> QED  BY <1>1, <1>2, UpTo
<1> QED  BY <1>1, <1>3

\* What the analyses are given: the packets in order, with times that do not go
\* back, the rest as captured; InOrder is all that most of what follows needs.
InOrder(packets) ==
    /\ packets \in Seq(Packet)
    /\ \A i \in 1..Len(packets) : packets[i].frame = i
    /\ \A i, j \in 1..Len(packets) : i <= j => packets[i].time <= packets[j].time

LEMMA PacketsTyped ==
    ASSUME NEW packets, InOrder(packets)
    PROVE  /\ Len(packets) \in Nat /\ DOMAIN packets = 1..Len(packets)
           /\ \A i \in 1..Len(packets) : packets[i] \in Packet /\ packets[i].time \in Nat
<1>1. Len(packets) \in Nat /\ DOMAIN packets = 1..Len(packets)
      /\ \A i \in 1..Len(packets) : packets[i] \in Packet
  BY DEF InOrder
<1>2. \A p \in Packet : p.time \in Nat
  BY DEF Packet
<1> QED  BY <1>1, <1>2

LEMMA TimedInOrder ==
    ASSUME CaptureInv
    PROVE  InOrder(timed) /\ InOrder(group) /\ \A p \in Range(group) : p.ts = None
<1> DEFINE n == Len(capture)
           side(i) == IF capture[i].src = Client(capture) THEN "out" ELSE "in"
           time(i) == capture[i].ts - capture[1].ts
<1>1. n \in Nat /\ DOMAIN capture = 1..n
  BY DEF CaptureInv
<1>2. \A i \in 1..n : side(i) \in Direction
  BY DEF Direction
<1>3. ASSUME NEW i \in 1..n PROVE time(i) \in Nat
  <2>1. 1 \in 1..n /\ 1 <= i
    BY <1>1
  <2>2. capture[1].ts <= capture[i].ts
    BY <2>1, ClockOrdered
  <2> QED  BY <2>1, <2>2 DEF CaptureInv
<1>4. ASSUME NEW i \in 1..n, NEW j \in 1..n, i <= j PROVE time(i) <= time(j)
  <2>1. capture[i].ts <= capture[j].ts
    BY <1>4, ClockOrdered
  <2>2. 1 \in 1..n
    BY <1>1
  <2> QED  BY <2>1, <2>2 DEF CaptureInv
<1>5. timed = [i \in 1..n |-> [capture[i] EXCEPT !.direction = side(i), !.time = time(i)]]
  BY <1>1 DEF timed, Timed
<1>6. group = [i \in 1..n |-> [timed[i] EXCEPT !.ts = None]]
  <2>1. group = [i \in DOMAIN capture |-> [timed[i] EXCEPT !.ts = None]]
    BY DEF group, Group, timed
  <2> QED  BY <2>1, <1>1
<1> HIDE DEF side, time
<1>7. ASSUME NEW i \in 1..n
      PROVE  timed[i] \in Packet /\ timed[i].frame = i /\ timed[i].time = time(i)
  <2>1. capture[i] \in Packet /\ capture[i].frame = i
    BY <1>1 DEF CaptureInv
  <2>2. side(i) \in Direction /\ time(i) \in Nat
    BY <1>2, <1>3
  <2>3. timed[i] = [capture[i] EXCEPT !.direction = side(i), !.time = time(i)]
    BY <1>5
  <2> QED  BY <2>1, <2>2, <2>3 DEF Packet
<1>8. ASSUME NEW i \in 1..n
      PROVE  group[i] \in Packet /\ group[i].frame = i /\ group[i].time = time(i) /\ group[i].ts = None
  <2>1. group[i] = [timed[i] EXCEPT !.ts = None]
    BY <1>6
  <2> QED  BY <2>1, <1>7, ZenonT(60) DEF Packet
<1>9. timed \in Seq(Packet) /\ Len(timed) = n /\ group \in Seq(Packet) /\ Len(group) = n
  <2>1. timed \in [1..n -> Packet]
    BY <1>5, <1>7
  <2>2. group \in [1..n -> Packet]
    BY <1>6, <1>8
  <2> QED  BY <2>1, <2>2, <1>1
<1>10. \A p \in Range(group) : p.ts = None
  BY <1>6, <1>8 DEF Range
<1> QED  BY <1>4, <1>7, <1>8, <1>9, <1>10 DEF InOrder

\* The capture and the packets given to the analyses are well typed, and times
\* count from the first packet: none is negative.
THEOREM TypeCorrect == Spec => []TypeOK
<1>1. CaptureInv => TypeOK
  <2> SUFFICES ASSUME CaptureInv PROVE TypeOK
    OBVIOUS
  <2>1. Range(group) \subseteq Packet /\ \A p \in Range(group) : p.ts = None
    BY TimedInOrder DEF InOrder, Range
  <2> QED  BY <2>1 DEF TypeOK, CaptureInv
<1> QED  BY <1>1, CaptureInvariant, PTL

-----------------------------------------------------------------------------
(* Sorting, selecting and folding *)

\* Packets in the order they were captured; some may be left out.
Timely(s) ==
    /\ s \in Seq(Packet)
    /\ \A i, j \in 1..Len(s) : i <= j => s[i].time <= s[j].time
    /\ \A i, j \in 1..Len(s) : i < j => s[i].frame < s[j].frame

LEMMA InOrderIsTimely == ASSUME NEW packets, InOrder(packets) PROVE Timely(packets)
<1>1. Len(packets) \in Nat
  BY PacketsTyped
<1> QED  BY <1>1 DEF Timely, InOrder

\* A sort by time leaves them as they are.
LEMMA TimelySorted == ASSUME NEW packets, Timely(packets) PROVE ByTime(packets) = packets
<1> DEFINE N == Len(packets)
           Put(rest, n) ==
               LET at == n - Cardinality({k \in 1..(n - 1) : packets[n].time < rest[k].time})
               IN  SubSeq(rest, 1, at - 1) \o <<packets[n]>> \o SubSeq(rest, at, n - 1)
           Puts(g) == g = [n \in 0..N |-> IF n = 0 THEN << >> ELSE Put(g[n - 1], n)]
           whole == [n \in 0..N |-> SubSeq(packets, 1, n)]
<1>1. N \in Nat /\ packets \in Seq(Packet) /\ \A i \in 1..N : packets[i] \in Packet
  BY DEF Timely
<1>2. ByTime(packets) = (CHOOSE g : Puts(g))[N]
  BY DEF ByTime, Sorted
<1>3. ASSUME NEW n \in 1..N
      PROVE  Put(SubSeq(packets, 1, n - 1), n) = SubSeq(packets, 1, n)
  <2> DEFINE rest == SubSeq(packets, 1, n - 1)
             later == {k \in 1..(n - 1) : packets[n].time < rest[k].time}
  <2>1. /\ n \in Nat /\ n - 1 \in Nat /\ n - 1 <= N
        /\ rest \in Seq(Packet) /\ Len(rest) = n - 1
        /\ \A k \in 1..(n - 1) : rest[k] = packets[k] /\ k \in 1..N /\ k <= n
    BY <1>1
  <2>2. \A k \in 1..(n - 1) : packets[k].time <= packets[n].time
                            /\ packets[k].time \in Nat /\ packets[n].time \in Nat
    BY <2>1, <1>1 DEF Timely, Packet
  <2>3. later = {}
    BY <2>1, <2>2
  <2>4. Put(rest, n) = SubSeq(rest, 1, n - 1) \o <<packets[n]>> \o SubSeq(rest, n, n - 1)
    <3>1. Cardinality(later) = 0
      BY <2>3, FS_EmptySet
    <3>2. n - 0 = n
      BY <2>1
    <3> HIDE DEF later, rest
    <3> QED  BY <3>1, <3>2 DEF later
  <2>5. SubSeq(rest, 1, n - 1) = rest
    BY <2>1
  <2>6. SubSeq(rest, n, n - 1) = << >>
    BY <2>1
  <2>7. rest \o <<packets[n]>> \o << >> = SubSeq(packets, 1, n)
    BY <2>1, <1>1
  <2> HIDE DEF rest, Put
  <2> QED  BY <2>4, <2>5, <2>6, <2>7 DEF rest
<1>4. SubSeq(packets, 1, 0) = << >> /\ SubSeq(packets, 1, N) = packets
  BY <1>1
<1> DEFINE Prefix(n) == SubSeq(packets, 1, n)
<1>5. /\ Prefix(0) = << >> /\ Prefix(N) = packets
      /\ \A n \in 1..N : n # 0 /\ n - 1 \in 0..N /\ Put(Prefix(n - 1), n) = Prefix(n)
      /\ 0 \in 0..N /\ N \in 0..N /\ \A n \in 0..N : n = 0 \/ n \in 1..N
  <2>1. \A n \in 1..N : n # 0 /\ n - 1 \in 0..N
    BY <1>1
  <2>2. 0 \in 0..N /\ N \in 0..N /\ \A n \in 0..N : n = 0 \/ n \in 1..N
    BY <1>1
  <2>3. Prefix(0) = << >> /\ Prefix(N) = packets
    BY <1>4
  <2> HIDE DEF Put
  <2>4. \A n \in 1..N : Put(Prefix(n - 1), n) = Prefix(n)
    BY <1>3
  <2> HIDE DEF Prefix
  <2> QED  BY <2>1, <2>2, <2>3, <2>4
<1> HIDE DEF Put, Prefix, N
<1>6. Puts([n \in 0..N |-> Prefix(n)])
  BY <1>5
<1>7. ASSUME NEW g, Puts(g) PROVE g[N] = packets
  <2> DEFINE T == {n \in 0..N : g[n] = Prefix(n)}
  <2>1. \A n \in 0..N : g[n] = IF n = 0 THEN << >> ELSE Put(g[n - 1], n)
    BY <1>7
  <2> HIDE DEF Puts
  <2>2. 0 \in T
    BY <2>1, <1>5
  <2>3. ASSUME NEW n \in 1..N, n - 1 \in T PROVE n \in T
    <3>1. n \in 0..N /\ n # 0
      BY <1>1 DEF N
    <3>2. g[n] = Put(Prefix(n - 1), n)
      BY <2>1, <2>3, <3>1
    <3> QED  BY <3>1, <3>2, <1>5
  <2>4. \A n \in 0..N : n \in T
    <3> HIDE DEF T
    <3>1. N \in Nat
      BY <1>1 DEF N
    <3> QED  BY <2>2, <2>3, <3>1, UpTo
  <2> QED  BY <2>4, <1>5
<1> HIDE DEF Puts
<1> QED  BY <1>2, <1>6, <1>7 DEF N

LEMMA SortedIsSame == ASSUME NEW packets, InOrder(packets) PROVE ByTime(packets) = packets
  BY InOrderIsTimely, TimelySorted

-----------------------------------------------------------------------------
(* Idle compression *)

\* The reason a gap plays at full length does not depend on the mode.
Reason(packets, i) == GapReason(packets, packets[i], packets[i + 1], OutstandingBytes(packets))
GapAt(packets, i, mode, speed) ==
    [start |-> packets[i].time, end |-> packets[i + 1].time, frame |-> packets[i].frame,
     label |-> Label(Reason(packets, i), packets[i + 1].time - packets[i].time, mode, speed)]
GapsIn(packets) == {j \in 1..(Len(packets) - 1) : packets[j].time < packets[j + 1].time}

LEMMA CompressedAre ==
    ASSUME NEW packets, InOrder(packets), NEW mode, NEW speed
    PROVE  Compressed(packets, mode, speed) =
               {g \in {GapAt(packets, i, mode, speed) : i \in GapsIn(packets)} : g.label # None}
<1>1. Gaps(packets, mode, speed) = {GapAt(packets, i, mode, speed) : i \in GapsIn(packets)}
  <2>1. ByTime(packets) = packets
    BY SortedIsSame
  <2> QED  BY <2>1 DEF Gaps, GapAt, GapsIn, Reason
<1> QED  BY <1>1 DEF Compressed

LEMMA SmartLabel ==
    ASSUME NEW reason, NEW seconds
    PROVE  /\ Label(reason, seconds, "smart", 1) # None =>
                  /\ Label(reason, seconds, "smart", 1) = "idle"
                  /\ Label(reason, seconds, "fast", 1) = "idle"
           /\ Label(reason, seconds, "fast", 1) # None /\ Label(reason, seconds, "fast", 1) = "idle" =>
                  Label(reason, seconds, "smart", 1) = "idle"
  BY DEF Label

LEMMA FasterLabel ==
    ASSUME NEW reason, NEW seconds \in Int, Label(reason, seconds, "fast", 2) # None
    PROVE  Label(reason, seconds, "fast", 1) = Label(reason, seconds, "fast", 2)
  BY IdleConstants DEF Label

\* Whatever the packets, smart skip compresses exactly the gaps that fast review
\* compresses and calls idle, and a faster replay compresses no more.
THEOREM SmartIsIdleOfFast == Spec => []ModesAgree
<1>1. ASSUME CaptureInv PROVE ModesAgree
  <2> DEFINE packets == group
             smart == Compressed(packets, "smart", 1)
             fast == Compressed(packets, "fast", 1)
             faster == Compressed(packets, "fast", 2)
  <2>1. InOrder(packets)
    BY <1>1, TimedInOrder
  <2> HIDE DEF packets
  <2>2. \A i \in GapsIn(packets) : packets[i + 1].time - packets[i].time \in Int
    <3>1. \A i \in 1..Len(packets) : packets[i].time \in Nat
      BY <2>1, PacketsTyped
    <3>2. \A i \in GapsIn(packets) : i \in 1..Len(packets) /\ i + 1 \in 1..Len(packets)
      BY <2>1 DEF GapsIn, InOrder
    <3> QED  BY <3>1, <3>2
  <2>3. \A mode, speed : Compressed(packets, mode, speed) =
               {g \in {GapAt(packets, i, mode, speed) : i \in GapsIn(packets)} : g.label # None}
    BY <2>1, CompressedAre
  <2>4. ASSUME NEW g \in smart PROVE g \in fast /\ g.label = "idle"
    BY <2>3, <2>4, SmartLabel DEF GapAt
  <2>5. ASSUME NEW g \in fast, g.label = "idle" PROVE g \in smart
    BY <2>3, <2>5, SmartLabel DEF GapAt
  <2>6. ASSUME NEW g \in faster PROVE g \in fast
    BY <2>3, <2>6, <2>2, FasterLabel DEF GapAt
  <2>7. smart = {g \in fast : g.label = "idle"} /\ faster \subseteq fast
    BY <2>4, <2>5, <2>6
  <2> HIDE DEF smart, fast, faster
  <2>8. ModesAgree <=> smart = {g \in fast : g.label = "idle"} /\ faster \subseteq fast
    BY DEF ModesAgree, Mode, packets, smart, fast, faster
  <2> QED  BY <2>7, <2>8
<1> QED  BY <1>1, CaptureInvariant, PTL

Shown(segments) == Kept(segments, LAMBDA s : s.kind = "packet")

LEMMA ShownIs ==
    ASSUME NEW S, NEW segments \in Seq(S)
    PROVE  Shown(segments) = Picked(segments, {s \in S : s.kind = "packet"})
<1> DEFINE N == Len(segments)
           A == {s \in S : s.kind = "packet"}
           Is(k) == k = [n \in 0..N |-> IF n = 0 THEN << >>
                            ELSE IF segments[n].kind = "packet" THEN Append(k[n - 1], segments[n]) ELSE k[n - 1]]
<1>1. Shown(segments) = (CHOOSE k : Is(k))[N]
  BY DEF Shown, Kept
<1>2. N \in Nat /\ \A n \in 1..N : segments[n] \in S /\ n \in 0..N /\ n # 0
  OBVIOUS
<1>3. PICK k : k \in [0..N -> Seq(S)] /\ Selection(k, segments, A)
  BY SelectionExists
<1>4. Is(k)
  <2> DEFINE next(n) == IF n = 0 THEN << >>
                        ELSE IF segments[n].kind = "packet" THEN Append(k[n - 1], segments[n]) ELSE k[n - 1]
  <2>1. ASSUME NEW n \in 0..N PROVE k[n] = next(n)
    <3>1. n = 0 \/ n \in 1..N
      BY <1>2
    <3>2. n \in 1..N => n # 0 /\ (segments[n] \in A <=> segments[n].kind = "packet")
      BY <1>2
    <3> HIDE DEF A, N
    <3> QED  BY <1>3, <3>1, <3>2 DEF Selection, N
  <2>2. k = [n \in 0..N |-> next(n)]
    <3> HIDE DEF next
    <3> QED  BY <1>3, <2>1
  <2> QED  BY <2>2
<1>5. ASSUME NEW m, Is(m) PROVE Selection(m, segments, A)
  <2>1. \A n \in 1..N : segments[n] \in A <=> segments[n].kind = "packet"
    BY <1>2
  <2>2. 0 \in 0..N
    BY <1>2
  <2>3. m[0] = << >>
    BY <2>2, <1>5
  <2>4. ASSUME NEW n \in 1..N
        PROVE  m[n] = IF segments[n].kind = "packet" THEN Append(m[n - 1], segments[n]) ELSE m[n - 1]
    BY <1>2, <1>5
  <2> HIDE DEF A
  <2> QED  BY <2>1, <2>3, <2>4 DEF Selection
<1> HIDE DEF Is
<1>6. Selection(CHOOSE m : Is(m), segments, A)
  BY <1>4, <1>5
<1> QED  BY <1>1, <1>2, <1>6, PickedIs

Segment == [kind: {"packet", "compressed"}, start: Nat, end: Nat, frame: Nat]

LEMMA OneAfter ==
    /\ SetToSeq({}) = << >>
    /\ \A x : SetToSeq({x}) = <<x>>
<1>1. SetToSeq({}) = << >>
  <2>1. Cardinality({}) = 0 /\ 1..0 = {}
    BY FS_EmptySet
  <2>2. \A f \in [1..0 -> {}] : f = << >>
    OBVIOUS
  <2>3. << >> \in [1..0 -> {}] /\ IsInjective(<< >>)
    BY DEF IsInjective
  <2> QED  BY <2>1, <2>2, <2>3 DEF SetToSeq
<1>2. ASSUME NEW x PROVE SetToSeq({x}) = <<x>>
  <2>1. Cardinality({x}) = 1 /\ 1..1 = {1}
    BY FS_Singleton
  <2>2. \A f \in [1..1 -> {x}] : f = <<x>>
    BY <2>1
  <2>3. <<x>> \in [1..1 -> {x}] /\ IsInjective(<<x>>)
    BY <2>1 DEF IsInjective
  <2> QED  BY <2>1, <2>2, <2>3 DEF SetToSeq
<1> QED  BY <1>1, <1>2

Entry(p) == <<[kind |-> "packet", start |-> p.time, end |-> p.time, frame |-> p.frame]>>
Skip(packets, i) ==
    [kind |-> "compressed", start |-> packets[i].time, end |-> packets[i + 1].time, frame |-> packets[i].frame]
Skipped(packets, mode, speed) == {i \in GapsIn(packets) : GapAt(packets, i, mode, speed).label # None}
SkipsAt(packets, mode, speed, i) ==
    IF i \in Skipped(packets, mode, speed) THEN <<Skip(packets, i)>> ELSE << >>

LEMMA SkipsAfter ==
    ASSUME NEW packets, InOrder(packets), NEW mode, NEW speed, NEW n \in 1..Len(packets)
    PROVE  SetToSeq({[kind |-> "compressed", start |-> g.start, end |-> g.end, frame |-> g.frame] :
                     g \in {h \in Compressed(packets, mode, speed) : h.frame = packets[n].frame}})
           = SkipsAt(packets, mode, speed, n)
<1> DEFINE of(g) == [kind |-> "compressed", start |-> g.start, end |-> g.end, frame |-> g.frame]
           after == {h \in Compressed(packets, mode, speed) : h.frame = packets[n].frame}
<1>1. \A i \in 1..Len(packets) : packets[i].frame = i
  BY DEF InOrder
<1>2. \A i \in GapsIn(packets) : i \in 1..Len(packets)
  BY PacketsTyped DEF GapsIn
<1>3. \A i \in GapsIn(packets) : GapAt(packets, i, mode, speed).frame = i
  BY <1>1, <1>2 DEF GapAt
<1>4. Compressed(packets, mode, speed) = {GapAt(packets, i, mode, speed) : i \in Skipped(packets, mode, speed)}
  BY CompressedAre DEF Skipped
<1>5. \A i \in Skipped(packets, mode, speed) : i \in GapsIn(packets)
  BY DEF Skipped
<1>6. CASE n \in Skipped(packets, mode, speed)
  <2>1. after = {GapAt(packets, n, mode, speed)}
    BY <1>1, <1>3, <1>4, <1>5, <1>6
  <2>2. of(GapAt(packets, n, mode, speed)) = Skip(packets, n)
    BY DEF GapAt, Skip
  <2> HIDE DEF of, after
  <2>3. {of(g) : g \in after} = {Skip(packets, n)}
    BY <2>1, <2>2
  <2>4. SetToSeq({of(g) : g \in after}) = <<Skip(packets, n)>>
    BY <2>3, OneAfter
  <2> QED  BY <2>4, <1>6 DEF SkipsAt, of, after
<1>7. CASE n \notin Skipped(packets, mode, speed)
  <2>1. after = {}
    BY <1>1, <1>3, <1>4, <1>5, <1>7
  <2>2. {of(g) : g \in after} = {}
    BY <2>1
  <2> HIDE DEF of, after
  <2>3. SetToSeq({of(g) : g \in after}) = << >>
    BY <2>2, OneAfter
  <2> QED  BY <2>3, <1>7 DEF SkipsAt, of, after
<1> QED  BY <1>6, <1>7

\* How the timeline grows with each packet.
Grows(fold, packets, mode, speed) ==
    /\ fold \in [0..Len(packets) -> Seq(Segment)]
    /\ fold[0] = << >>
    /\ \A n \in 1..Len(packets) :
           fold[n] = fold[n - 1] \o Entry(packets[n]) \o SkipsAt(packets, mode, speed, n)

LEMMA TimelineGrows ==
    ASSUME NEW packets, InOrder(packets), NEW mode, NEW speed
    PROVE  \E fold : /\ Grows(fold, packets, mode, speed)
                     /\ Timeline(packets, mode, speed) = fold[Len(packets)]
<1> DEFINE N == Len(packets)
           Add(i) == Entry(packets[i]) \o SkipsAt(packets, mode, speed, i)
           step == [i \in 1..N |-> [r \in Seq(Segment) |-> r \o Entry(packets[i]) \o SkipsAt(packets, mode, speed, i)]]
           skips(p) == SetToSeq({[kind |-> "compressed", start |-> g.start, end |-> g.end, frame |-> g.frame] :
                            g \in {h \in Compressed(packets, mode, speed) : h.frame = p.frame}})
           Is(it) == it = [s \in SUBSET (DOMAIN packets) |->
                        IF s = {} THEN << >>
                        ELSE LET x == Max(s) IN it[s \ {x}] \o Entry(packets[x]) \o skips(packets[x])]
<1>1. Timeline(packets, mode, speed) = (CHOOSE it : Is(it))[DOMAIN packets]
  <2>1. ByTime(packets) = packets
    BY SortedIsSame
  <2> QED  BY <2>1 DEF Timeline, FoldLeft, MapThenFoldSet, Entry
<1>2. N \in Nat /\ DOMAIN packets = 1..N /\ \A i \in 1..N : packets[i].time \in Nat /\ packets[i].frame \in Nat
  BY PacketsTyped DEF Packet
<1>3. \A i \in 1..N : skips(packets[i]) = SkipsAt(packets, mode, speed, i)
  BY SkipsAfter
<1>4. \A i \in 1..N : Entry(packets[i]) \in Seq(Segment) /\ SkipsAt(packets, mode, speed, i) \in Seq(Segment)
  <2>1. \A i \in 1..N : Entry(packets[i]) \in Seq(Segment)
    BY <1>2 DEF Entry, Segment
  <2>2. \A i \in Skipped(packets, mode, speed) : i \in 1..N /\ i + 1 \in 1..N
    BY <1>2 DEF Skipped, GapsIn
  <2>3. \A i \in Skipped(packets, mode, speed) : Skip(packets, i) \in Segment
    BY <1>2, <2>2 DEF Skip, Segment
  <2> QED  BY <2>1, <2>3 DEF SkipsAt
<1> HIDE DEF skips
<1>5. step \in [1..N -> [Seq(Segment) -> Seq(Segment)]]
  BY <1>4
<1>6. << >> \in Seq(Segment)
  OBVIOUS
<1> HIDE DEF step
<1>7. PICK iter : FoldsOver(iter, N, Seq(Segment), << >>, step)
  BY <1>2, <1>5, <1>6, FoldExists
<1>8. Is(iter)
  <2> DEFINE next(s) == IF s = {} THEN << >>
                 ELSE LET x == Max(s) IN iter[s \ {x}] \o Entry(packets[x]) \o skips(packets[x])
  <2>1. ASSUME NEW s \in SUBSET (1..N) PROVE iter[s] = next(s)
    <3>1. CASE s = {}
      BY <1>7, <3>1 DEF FoldsOver
    <3>2. CASE s # {}
      <4> DEFINE x == Max(s)
      <4>1. x \in 1..N
        BY <1>2, <3>2, MaxIsIn
      <4>2. s \ {x} \in SUBSET (1..N)
        OBVIOUS
      <4>3. iter[s \ {x}] \in Seq(Segment) /\ iter[s] = step[x][iter[s \ {x}]]
        BY <1>7, <3>2, <4>2 DEF FoldsOver
      <4> HIDE DEF x
      <4>4. iter[s] = iter[s \ {x}] \o Entry(packets[x]) \o skips(packets[x])
        BY <4>1, <4>3, <1>3 DEF step
      <4> QED  BY <3>2, <4>4 DEF x
    <3> QED  BY <3>1, <3>2
  <2>2. iter = [s \in SUBSET (1..N) |-> next(s)]
    <3> HIDE DEF next
    <3> QED  BY <1>7, <2>1 DEF FoldsOver
  <2> QED  BY <1>2, <2>2
<1>9. ASSUME NEW it, Is(it) PROVE Grows([n \in 0..N |-> it[1..n]], packets, mode, speed)
  <2> DEFINE fold == [n \in 0..N |-> it[1..n]]
             T == {n \in 0..N : fold[n] \in Seq(Segment)}
  <2>1. fold[0] = << >>
    <3>1. 1..0 = {} /\ {} \in SUBSET (1..N)
      OBVIOUS
    <3>2. it[{}] = << >>
      BY <1>2, <1>9, <3>1
    <3> QED  BY <1>2, <3>1, <3>2
  <2>2. ASSUME NEW n \in 1..N
        PROVE  fold[n] = fold[n - 1] \o Entry(packets[n]) \o SkipsAt(packets, mode, speed, n)
    <3>1. n \in Nat /\ n # 0 /\ n \in 0..N /\ n - 1 \in 0..N /\ 1..n \in SUBSET (1..N)
      BY <1>2
    <3>2. 1..n # {} /\ Max(1..n) = n /\ (1..n) \ {n} = 1..(n - 1)
      BY <3>1, TopIndex
    <3>3. it[1..n] = it[1..(n - 1)] \o Entry(packets[n]) \o skips(packets[n])
      <4>1. it[1..n] = IF 1..n = {} THEN << >>
                        ELSE it[(1..n) \ {Max(1..n)}] \o Entry(packets[Max(1..n)]) \o skips(packets[Max(1..n)])
        BY <1>2, <1>9, <3>1
      <4> QED  BY <4>1, <3>2
    <3> HIDE DEF Is
    <3> QED  BY <3>1, <3>3, <1>3
  <2> HIDE DEF fold, Is
  <2>3. 0 \in T
    <3>1. 0 \in 0..N
      BY <1>2
    <3> QED  BY <2>1, <1>6, <3>1
  <2>4. ASSUME NEW n \in 1..N, n - 1 \in T PROVE n \in T
    <3>1. fold[n - 1] \in Seq(Segment) /\ Entry(packets[n]) \in Seq(Segment)
          /\ SkipsAt(packets, mode, speed, n) \in Seq(Segment)
      BY <2>4, <1>4
    <3>2. fold[n - 1] \o Entry(packets[n]) \o SkipsAt(packets, mode, speed, n) \in Seq(Segment)
      BY <3>1
    <3>3. n \in 0..N
      BY <1>2
    <3> QED  BY <2>2, <3>2, <3>3
  <2>5. \A n \in 0..N : n \in T
    <3> HIDE DEF T
    <3> QED  BY <2>3, <2>4, <1>2, UpTo
  <2>6. fold \in [0..N -> Seq(Segment)]
    BY <2>5 DEF fold
  <2> QED  BY <2>1, <2>2, <2>6 DEF Grows, fold
<1> HIDE DEF Is
<1>10. Is(CHOOSE it : Is(it))
  BY <1>8
<1>11. Timeline(packets, mode, speed) = [n \in 0..N |-> (CHOOSE it : Is(it))[1..n]][N]
  BY <1>1, <1>2
<1> QED BY <1>9, <1>10, <1>11

\* What is true of the timeline of the first n packets: they are its packets, and
\* a compressed gap stands between the two times it joins, the second of which
\* may belong to the next packet.
Joins(segments, i) ==
    segments[i].kind = "compressed" =>
        /\ i # 1 /\ segments[i].start = segments[i - 1].end
        /\ i # Len(segments) => segments[i].end = segments[i + 1].start
EndsAt(segments, packets, n) ==
    Len(segments) # 0 /\ segments[Len(segments)].kind = "compressed" =>
        n \in 1..(Len(packets) - 1) /\ segments[Len(segments)].end = packets[n + 1].time
Sound(segments, packets, n) ==
    /\ segments \in Seq(Segment)
    /\ Frames(Shown(segments)) = [i \in 1..n |-> packets[i].frame]
    /\ \A i \in 1..Len(segments) : Joins(segments, i)
    /\ EndsAt(segments, packets, n)

LEMMA ShownAppend ==
    /\ Shown(<< >>) = << >>
    /\ \A s \in Seq(Segment), x \in Segment :
        /\ Shown(s) \in Seq(Segment)
        /\ Shown(Append(s, x)) = IF x.kind = "packet" THEN Append(Shown(s), x) ELSE Shown(s)
<1> DEFINE A == {s \in Segment : s.kind = "packet"}
<1>1. \A s \in Seq(Segment) : Shown(s) = Picked(s, A)
  BY ShownIs
<1>2. << >> \in Seq(Segment) /\ \E x : x \in Segment
  <2>1. [kind |-> "packet", start |-> 0, end |-> 0, frame |-> 0] \in Segment
    BY DEF Segment
  <2> QED  BY <2>1
<1>3. ASSUME NEW s \in Seq(Segment), NEW x \in Segment
      PROVE  /\ Picked(<< >>, A) = << >> /\ Picked(s, A) \in Seq(Segment)
             /\ Picked(Append(s, x), A) = IF x \in A THEN Append(Picked(s, A), x) ELSE Picked(s, A)
  <2> HIDE DEF A
  <2> QED  BY PickedAppend
<1>4. ASSUME NEW s \in Seq(Segment), NEW x \in Segment PROVE Append(s, x) \in Seq(Segment) /\ (x \in A <=> x.kind = "packet")
  OBVIOUS
<1> HIDE DEF A
<1> QED  BY <1>1, <1>2, <1>3, <1>4, ZenonT(60)

LEMMA AddEntry ==
    ASSUME NEW packets, InOrder(packets), NEW n \in 1..Len(packets), NEW segments,
           Sound(segments, packets, n - 1)
    PROVE  LET longer == segments \o Entry(packets[n]) IN
           /\ Sound(longer, packets, n)
           /\ Len(longer) # 0 /\ longer[Len(longer)].kind = "packet" /\ longer[Len(longer)].end = packets[n].time
<1> DEFINE e == [kind |-> "packet", start |-> packets[n].time, end |-> packets[n].time, frame |-> packets[n].frame]
           longer == Append(segments, e)
           L == Len(segments)
<1>1. packets[n].time \in Nat /\ packets[n].frame \in Nat /\ Len(packets) \in Nat
  BY PacketsTyped DEF InOrder
<1>2. e \in Segment /\ e.kind = "packet" /\ e.start = packets[n].time /\ e.end = packets[n].time /\ e.frame = packets[n].frame
  BY <1>1 DEF Segment
<1>3. segments \in Seq(Segment) /\ L \in Nat
  BY DEF Sound
<1>4. segments \o Entry(packets[n]) = longer
  BY <1>2, <1>3 DEF Entry
<1> HIDE DEF e
<1>5. /\ longer \in Seq(Segment) /\ Len(longer) = L + 1 /\ longer[L + 1] = e
      /\ \A i \in 1..L : longer[i] = segments[i]
  BY <1>2, <1>3
<1>6. Frames(Shown(longer)) = [i \in 1..n |-> packets[i].frame]
  <2> DEFINE shown == Shown(segments)
  <2>1. shown \in Seq(Segment) /\ Shown(longer) = Append(shown, e)
    BY <1>2, <1>3, ShownAppend
  <2>2. Frames(shown) = [i \in 1..(n - 1) |-> packets[i].frame]
    BY DEF Sound
  <2>3. Len(shown) = n - 1 /\ \A i \in 1..(n - 1) : shown[i].frame = packets[i].frame
    <3>1. DOMAIN shown = 1..Len(shown) /\ Len(shown) \in Nat
      BY <2>1
    <3>2. 1..Len(shown) = 1..(n - 1) /\ \A i \in 1..(n - 1) : shown[i].frame = packets[i].frame
      BY <2>2, <3>1 DEF Frames
    <3> HIDE DEF shown
    <3>3. n - 1 \in Nat
      OBVIOUS
    <3>4. \A k, m \in Nat : k <= m /\ m <= k => m = k
      OBVIOUS
    <3>5. Len(shown) <= n - 1
      BY <3>1, <3>2, <3>3
    <3>6. n - 1 <= Len(shown)
      BY <3>1, <3>2, <3>3
    <3> QED  BY <3>1, <3>2, <3>3, <3>4, <3>5, <3>6
  <2> HIDE DEF shown
  <2>4. Frames(Append(shown, e)) = [i \in 1..n |-> packets[i].frame]
    <3>1. DOMAIN Append(shown, e) = 1..n
      BY <2>1, <2>3, <1>1, <1>2
    <3>2. ASSUME NEW i \in 1..n PROVE Append(shown, e)[i].frame = packets[i].frame
      <4>1. CASE i = n
        <5>1. Append(shown, e)[i] = e
          BY <4>1, <2>1, <2>3, <1>2
        <5> QED  BY <5>1, <4>1, <1>2
      <4>2. CASE i # n
        <5>1. i \in 1..(n - 1)
          BY <4>2
        <5>2. Append(shown, e)[i] = shown[i]
          BY <5>1, <2>1, <2>3, <1>2
        <5> QED  BY <5>1, <5>2, <2>3
      <4> QED  BY <4>1, <4>2
    <3> QED  BY <3>1, <3>2 DEF Frames
  <2> QED  BY <2>1, <2>4
<1>7. ASSUME NEW i \in 1..(L + 1) PROVE Joins(longer, i)
  <2>1. CASE i = L + 1
    BY <2>1, <1>2, <1>5 DEF Joins
  <2>2. CASE i = L
    <3>1. /\ L \in 1..L /\ longer[L] = segments[L] /\ longer[L + 1] = e /\ L # L + 1
          /\ L # 1 => longer[L - 1] = segments[L - 1]
      BY <2>2, <1>3, <1>5
    <3>2. segments[L].kind = "compressed" => segments[L].end = packets[n].time
      <4>1. n - 1 + 1 = n
        BY <1>1
      <4> QED  BY <2>2, <3>1, <4>1 DEF Sound, EndsAt
    <3>3. Joins(segments, L)
      BY <3>1 DEF Sound
    <3> HIDE DEF longer, L
    <3> QED  BY <2>2, <3>1, <3>2, <3>3, <1>2 DEF Joins
  <2>3. CASE i \in 1..(L - 1)
    <3>1. longer[i] = segments[i] /\ longer[i + 1] = segments[i + 1] /\ i # L /\ i \in 1..L
          /\ (i # 1 => longer[i - 1] = segments[i - 1])
      BY <2>3, <1>3, <1>5
    <3>2. Joins(segments, i)
      BY <3>1 DEF Sound
    <3> HIDE DEF longer
    <3> QED  BY <3>1, <3>2 DEF Joins
  <2> QED  BY <2>1, <2>2, <2>3, <1>3
<1>8. EndsAt(longer, packets, n)
  BY <1>2, <1>5 DEF EndsAt
<1>9. Sound(longer, packets, n)
  BY <1>5, <1>6, <1>7, <1>8 DEF Sound
<1>10. Len(longer) # 0 /\ longer[Len(longer)] = e
  BY <1>3, <1>5
<1> QED  BY <1>4, <1>9, <1>10, <1>2

LEMMA AddSkip ==
    ASSUME NEW packets, InOrder(packets), NEW n \in GapsIn(packets), NEW segments,
           Sound(segments, packets, n), Len(segments) # 0,
           segments[Len(segments)].kind = "packet", segments[Len(segments)].end = packets[n].time
    PROVE  Sound(segments \o <<Skip(packets, n)>>, packets, n)
<1> DEFINE e == Skip(packets, n)
           longer == Append(segments, e)
           L == Len(segments)
<1>1. n \in 1..(Len(packets) - 1) /\ packets[n].time \in Nat /\ packets[n + 1].time \in Nat /\ packets[n].frame \in Nat
  <2>1. n \in 1..(Len(packets) - 1) /\ n \in 1..Len(packets) /\ n + 1 \in 1..Len(packets)
    BY PacketsTyped DEF GapsIn
  <2>2. packets[n].frame = n /\ n \in Nat
    BY <2>1 DEF InOrder
  <2> QED  BY <2>1, <2>2, PacketsTyped
<1>2. e \in Segment /\ e.kind = "compressed" /\ e.start = packets[n].time /\ e.end = packets[n + 1].time
  BY <1>1 DEF Segment, Skip
<1>3. segments \in Seq(Segment) /\ L \in Nat /\ L # 0
  BY DEF Sound
<1> HIDE DEF e
<1>4. segments \o <<e>> = longer
  BY <1>2, <1>3
<1>5. /\ longer \in Seq(Segment) /\ Len(longer) = L + 1 /\ longer[L + 1] = e
      /\ \A i \in 1..L : longer[i] = segments[i]
  BY <1>2, <1>3
<1>6. Frames(Shown(longer)) = [i \in 1..n |-> packets[i].frame]
  <2>1. Shown(longer) = Shown(segments)
    BY <1>2, <1>3, ShownAppend
  <2> QED  BY <2>1 DEF Sound
<1>7. ASSUME NEW i \in 1..(L + 1) PROVE Joins(longer, i)
  <2>1. CASE i = L + 1
    <3>1. i # 1 /\ i - 1 = L /\ L \in 1..L
      BY <2>1, <1>3
    <3>2. longer[i] = e /\ longer[i - 1] = segments[L] /\ i = Len(longer)
      BY <3>1, <2>1, <1>5
    <3> HIDE DEF longer
    <3> QED  BY <3>1, <3>2, <1>2 DEF Joins
  <2>2. CASE i = L
    <3>1. L \in 1..L /\ longer[L] = segments[L]
      BY <1>3, <1>5
    <3> HIDE DEF longer
    <3> QED  BY <2>2, <3>1 DEF Joins
  <2>3. CASE i \in 1..(L - 1)
    <3>1. longer[i] = segments[i] /\ longer[i + 1] = segments[i + 1] /\ i # L /\ i \in 1..L
          /\ (i # 1 => longer[i - 1] = segments[i - 1])
      BY <2>3, <1>3, <1>5
    <3>2. Joins(segments, i)
      BY <3>1 DEF Sound
    <3> HIDE DEF longer
    <3> QED  BY <3>1, <3>2 DEF Joins
  <2> QED  BY <2>1, <2>2, <2>3, <1>3
<1>8. EndsAt(longer, packets, n)
  <2>1. longer[Len(longer)] = e
    BY <1>5
  <2> HIDE DEF longer
  <2> QED  BY <2>1, <1>1, <1>2 DEF EndsAt
<1>9. Sound(longer, packets, n)
  BY <1>5, <1>6, <1>7, <1>8 DEF Sound
<1> QED  BY <1>4, <1>9 DEF e

LEMMA TimelineSound ==
    ASSUME NEW packets, InOrder(packets), NEW mode, NEW speed
    PROVE  Sound(Timeline(packets, mode, speed), packets, Len(packets))
<1> DEFINE N == Len(packets)
<1>1. N \in Nat
  BY PacketsTyped
<1>2. PICK fold : Grows(fold, packets, mode, speed) /\ Timeline(packets, mode, speed) = fold[N]
  BY TimelineGrows
<1> DEFINE T == {n \in 0..N : Sound(fold[n], packets, n)}
<1>3. 0 \in T
  <2>1. Frames(Shown(<< >>)) = [i \in 1..0 |-> packets[i].frame]
    <3>1. Shown(<< >>) = << >> /\ DOMAIN << >> = 1..0 /\ 1..0 = {}
      BY ShownAppend
    <3> QED  BY <3>1 DEF Frames
  <2>2. Len(<< >>) = 0 /\ << >> \in Seq(Segment) /\ 1..0 = {}
    OBVIOUS
  <2>3. Sound(<< >>, packets, 0)
    BY <2>1, <2>2 DEF Sound, EndsAt
  <2>4. 0 \in 0..N
    BY <1>1
  <2> QED  BY <1>2, <2>3, <2>4 DEF Grows
<1>4. ASSUME NEW n \in 1..N, n - 1 \in T PROVE n \in T
  <2> DEFINE longer == fold[n - 1] \o Entry(packets[n])
  <2>1. /\ Sound(longer, packets, n)
        /\ Len(longer) # 0 /\ longer[Len(longer)].kind = "packet" /\ longer[Len(longer)].end = packets[n].time
    BY <1>4, AddEntry
  <2>2. fold[n] = longer \o SkipsAt(packets, mode, speed, n)
    BY <1>2 DEF Grows
  <2>3. longer \in Seq(Segment) /\ n \in 0..N
    BY <2>1, <1>1 DEF Sound
  <2> HIDE DEF longer
  <2>4. CASE n \in Skipped(packets, mode, speed)
    <3>1. n \in GapsIn(packets) /\ fold[n] = longer \o <<Skip(packets, n)>>
      BY <2>2, <2>4 DEF Skipped, SkipsAt
    <3>2. Sound(longer \o <<Skip(packets, n)>>, packets, n)
      BY <2>1, <3>1, AddSkip
    <3> QED  BY <2>3, <3>1, <3>2
  <2>5. CASE n \notin Skipped(packets, mode, speed)
    <3>1. fold[n] = longer \o << >>
      BY <2>2, <2>5 DEF SkipsAt
    <3>2. longer \o << >> = longer
      BY <2>3
    <3> QED  BY <2>1, <2>3, <3>1, <3>2
  <2> QED  BY <2>4, <2>5
<1>5. \A n \in 0..N : n \in T
  <2> HIDE DEF T, N
  <2> QED  BY <1>1, <1>3, <1>4, UpTo
<1>6. N \in T
  BY <1>1, <1>5
<1> QED  BY <1>2, <1>6

\* Whatever the packets and thresholds, in every mode the timeline has every packet once and in
\* order, and each compressed gap joins the times of its neighbours.
THEOREM TimelineHasAll == Spec => []TimelineIsWhole
<1>1. ASSUME CaptureInv PROVE TimelineIsWhole
  <2> DEFINE packets == group
  <2>1. InOrder(packets)
    BY <1>1, TimedInOrder
  <2> HIDE DEF packets
  <2>2. ByTime(packets) = packets /\ Len(packets) \in Nat /\ DOMAIN packets = 1..Len(packets)
    BY <2>1, SortedIsSame, PacketsTyped
  <2>3. ASSUME NEW mode \in Mode, NEW all, all = Timeline(packets, mode, 1)
        PROVE  LET segments == all IN
               /\ Frames(Shown(segments)) = Frames(ByTime(packets))
               /\ \A i \in DOMAIN segments : segments[i].kind = "compressed" =>
                    /\ i \in 2..(Len(segments) - 1)
                    /\ segments[i].start = segments[i - 1].end /\ segments[i].end = segments[i + 1].start
    <3> DEFINE segments == all
               L == Len(segments)
    <3>1. Sound(segments, packets, Len(packets))
      BY <2>1, <2>3, TimelineSound
    <3> HIDE DEF segments
    <3>2. Frames(Shown(segments)) = Frames(ByTime(packets))
      BY <3>1, <2>2 DEF Sound, Frames
    <3>3. L \in Nat /\ DOMAIN segments = 1..L
      BY <3>1 DEF Sound
    <3>4. ASSUME NEW i \in 1..L, segments[i].kind = "compressed"
          PROVE  /\ i \in 2..(L - 1)
                 /\ segments[i].start = segments[i - 1].end /\ segments[i].end = segments[i + 1].start
      <4>1. Joins(segments, i)
        BY <3>1 DEF Sound
      <4>2. i # L
        <5>1. Len(packets) \notin 1..(Len(packets) - 1)
          BY <2>2
        <5>2. EndsAt(segments, packets, Len(packets))
          BY <3>1 DEF Sound
        <5>3. Len(segments) # 0
          BY <3>3
        <5> QED  BY <3>4, <5>1, <5>2, <5>3 DEF EndsAt
      <4> HIDE DEF L
      <4>3. i # 1 => i \in 2..(L - 1)
        <5>1. i \in 1..L /\ L \in Nat
          BY <3>3
        <5>2. i # L
          BY <4>2
        <5> QED  BY <5>1, <5>2
      <4> QED  BY <4>1, <4>2, <4>3, <3>4 DEF Joins, L
    <3> QED  BY <3>2, <3>3, <3>4 DEF segments
  <2> QED  BY <2>3 DEF TimelineIsWhole, packets, Shown
<1> QED  BY <1>1, CaptureInvariant, PTL

-----------------------------------------------------------------------------
(* Phases *)

\* Where the runs of the first n packets are cut: run k is what lies between
\* b[k - 1] and b[k], and only an idle gap ends a run.
Cuts(b, runs, packets, n) ==
    /\ runs \in Seq(Seq(Packet))
    /\ b \in [0..Len(runs) -> 0..n] /\ b[0] = 0 /\ b[Len(runs)] = n
    /\ \A k \in 1..Len(runs) :
        /\ b[k - 1] < b[k] /\ Len(runs[k]) = b[k] - b[k - 1]
        /\ \A j \in 1..Len(runs[k]) : runs[k][j] = packets[b[k - 1] + j]
    /\ \A k \in 1..(Len(runs) - 1) : packets[b[k] + 1].time - packets[b[k]].time > IdleGap

\* All but the last member of a sequence.
LEMMA FrontOf ==
    ASSUME NEW S, NEW s \in Seq(S), Len(s) \in 1..Len(s)
    PROVE  Front(s) \in Seq(S) /\ Len(Front(s)) = Len(s) - 1 /\ \A k \in 1..(Len(s) - 1) : Front(s)[k] = s[k]
<1>1. Front(s) = SubSeq(s, 1, Len(s) - 1) /\ Len(s) \in Nat
  BY DEF Front
<1>2. SubSeq(s, 1, Len(s) - 1) = [k \in 1..(Len(s) - 1) |-> s[k]]
  <2>1. Len(s) - 1 \in Nat /\ \A k \in 1..(Len(s) - 1) : k + 1 - 1 = k
    BY <1>1
  <2> QED  BY <1>1, <2>1
<1> DEFINE t == [k \in 1..(Len(s) - 1) |-> s[k]]
<1>3. t \in Seq(S) /\ Len(t) = Len(s) - 1 /\ \A k \in 1..(Len(s) - 1) : t[k] = s[k]
  <2>1. Len(s) - 1 \in Nat /\ \A k \in 1..(Len(s) - 1) : s[k] \in S
    BY <1>1
  <2> QED  BY <2>1
<1> QED  BY <1>1, <1>2, <1>3

\* One more packet lengthens the last run or begins the next.
LEMMA CutsGrow ==
    ASSUME NEW packets, InOrder(packets), NEW n \in 1..Len(packets), NEW runs, NEW b,
           Cuts(b, runs, packets, n - 1)
    PROVE  \E c : Cuts(c, ExtendRun(runs, packets[n]), packets, n)
<1> DEFINE L == Len(runs)
           p == packets[n]
<1>1. /\ runs \in Seq(Seq(Packet)) /\ L \in Nat /\ n \in Nat /\ n - 1 \in Nat /\ p \in Packet
      /\ \A k \in 1..L : runs[k] \in Seq(Packet)
  BY PacketsTyped DEF Cuts
<1>2. /\ \A k \in 0..L : b[k] \in 0..(n - 1)
      /\ b[0] = 0 /\ b[L] = n - 1
  BY DEF Cuts
<1>3. CASE L # 0 /\ p.time - Last(Last(runs)).time <= IdleGap
  <2> DEFINE new == Append(Front(runs), Append(Last(runs), p))
             c == [k \in 0..L |-> IF k = L THEN n ELSE b[k]]
  <2>1. ExtendRun(runs, p) = new
    BY <1>1, <1>3 DEF ExtendRun
  <2>2. /\ new \in Seq(Seq(Packet)) /\ Len(new) = L /\ new[L] = Append(runs[L], p)
        /\ \A k \in 1..(L - 1) : new[k] = runs[k]
    <3>1. L \in 1..L /\ runs[L] \in Seq(Packet) /\ Append(runs[L], p) \in Seq(Packet)
      BY <1>1, <1>3
    <3>2. Last(runs) = runs[L]
      BY DEF Last
    <3>3. /\ Front(runs) \in Seq(Seq(Packet)) /\ Len(Front(runs)) = L - 1
          /\ \A k \in 1..(L - 1) : Front(runs)[k] = runs[k]
      BY <1>1, <3>1, FrontOf
    <3> HIDE DEF L
    <3>4. L - 1 \in Nat /\ L - 1 + 1 = L
      BY <1>1, <3>1
    <3> DEFINE front == Front(runs)
               last == Append(runs[L], p)
    <3>5. new = Append(front, last) /\ last \in Seq(Packet) /\ front \in Seq(Seq(Packet)) /\ Len(front) = L - 1
      BY <3>1, <3>2, <3>3
    <3>6. \A k \in 1..(L - 1) : front[k] = runs[k]
      BY <3>3
    <3> HIDE DEF front, last
    <3>7. Append(front, last) \in Seq(Seq(Packet)) /\ Len(Append(front, last)) = L /\ Append(front, last)[L] = last
      BY <3>4, <3>5
    <3>8. \A k \in 1..(L - 1) : Append(front, last)[k] = front[k]
      BY <3>4, <3>5
    <3> QED  BY <3>5, <3>6, <3>7, <3>8 DEF last
  <2>3. c \in [0..L -> 0..n] /\ c[0] = 0 /\ c[L] = n /\ \A k \in 0..(L - 1) : c[k] = b[k]
    BY <1>1, <1>2, <1>3
  <2> HIDE DEF new, c
  <2>4. ASSUME NEW k \in 1..L
        PROVE  /\ c[k - 1] < c[k] /\ Len(new[k]) = c[k] - c[k - 1]
               /\ \A j \in 1..Len(new[k]) : new[k][j] = packets[c[k - 1] + j]
    <3>1. /\ b[k - 1] < b[k] /\ Len(runs[k]) = b[k] - b[k - 1]
          /\ \A j \in 1..Len(runs[k]) : runs[k][j] = packets[b[k - 1] + j]
      BY DEF Cuts
    <3>2. b[k - 1] \in Nat /\ b[k] \in Nat
      BY <1>1, <1>2
    <3>3. CASE k = L
      <4>1. c[k - 1] = b[k - 1] /\ c[k] = n /\ b[k] = n - 1
        <5>1. k - 1 \in 0..(L - 1)
          BY <1>1, <3>3
        <5> QED  BY <1>1, <1>2, <2>3, <3>3, <5>1
      <4>2. /\ new[k] = Append(runs[k], p) /\ Len(new[k]) = Len(runs[k]) + 1
            /\ new[k][Len(runs[k]) + 1] = p /\ \A j \in 1..Len(runs[k]) : new[k][j] = runs[k][j]
        BY <1>1, <2>2, <3>3
      <4>3. Len(new[k]) = c[k] - c[k - 1] /\ c[k - 1] < c[k]
        BY SMTT(40), <3>1, <3>2, <4>1, <4>2, <1>1
      <4>4. b[k - 1] + (Len(runs[k]) + 1) = n
        <5>1. Len(runs[k]) = b[k] - b[k - 1] /\ b[k] = n - 1
          BY <3>1, <4>1
        <5> QED  BY <5>1, <3>2, <1>1
      <4>5. ASSUME NEW j \in 1..Len(new[k]) PROVE new[k][j] = packets[c[k - 1] + j]
        <5>1. Len(runs[k]) \in Nat /\ (j = Len(runs[k]) + 1 \/ j \in 1..Len(runs[k]))
          BY <1>1, <4>2
        <5>2. CASE j = Len(runs[k]) + 1
          BY <5>2, <4>1, <4>2, <4>4
        <5>3. CASE j \in 1..Len(runs[k])
          BY <5>3, <4>1, <4>2, <3>1
        <5> QED  BY <5>1, <5>2, <5>3
      <4> QED  BY <4>3, <4>5
    <3>4. CASE k # L
      <4>1. k \in 1..(L - 1) /\ k - 1 \in 0..(L - 1) /\ k \in 0..(L - 1)
        BY <1>1, <3>4
      <4> QED  BY <4>1, <2>2, <2>3, <3>1
    <3> QED  BY <3>3, <3>4
  <2>5. ASSUME NEW k \in 1..(L - 1) PROVE packets[c[k] + 1].time - packets[c[k]].time > IdleGap
    <3>1. c[k] = b[k]
      BY <1>1, <2>3
    <3> QED  BY <3>1 DEF Cuts
  <2>6. Cuts(c, new, packets, n)
    BY <2>2, <2>3, <2>4, <2>5 DEF Cuts
  <2> QED  BY <2>1, <2>6
<1>4. CASE L = 0 \/ ~(p.time - Last(Last(runs)).time <= IdleGap)
  <2> DEFINE new == Append(runs, <<p>>)
             c == [k \in 0..(L + 1) |-> IF k = L + 1 THEN n ELSE b[k]]
  <2>1. ExtendRun(runs, p) = new
    <3>1. L = 0 <=> runs = << >>
      BY <1>1
    <3> QED  BY <1>4, <3>1 DEF ExtendRun
  <2>2. /\ new \in Seq(Seq(Packet)) /\ Len(new) = L + 1 /\ new[L + 1] = <<p>>
        /\ \A k \in 1..L : new[k] = runs[k]
    <3>1. <<p>> \in Seq(Packet) /\ runs \in Seq(Seq(Packet)) /\ L \in Nat
      BY <1>1
    <3> DEFINE last == <<p>>
    <3> HIDE DEF last
    <3> QED  BY <3>1 DEF last
  <2>3. c \in [0..(L + 1) -> 0..n] /\ c[0] = 0 /\ c[L + 1] = n /\ \A k \in 0..L : c[k] = b[k]
    BY <1>1, <1>2
  <2> HIDE DEF new, c
  <2>4. ASSUME NEW k \in 1..(L + 1)
        PROVE  /\ c[k - 1] < c[k] /\ Len(new[k]) = c[k] - c[k - 1]
               /\ \A j \in 1..Len(new[k]) : new[k][j] = packets[c[k - 1] + j]
    <3>1. CASE k = L + 1
      <4>1. c[k - 1] = n - 1 /\ c[k] = n /\ n - 1 < n /\ n - (n - 1) = 1 /\ n - 1 + 1 = n
        BY <1>1, <1>2, <2>3, <3>1
      <4>2. Len(new[k]) = 1 /\ new[k][1] = p
        <5>1. new[k] = <<p>>
          BY <2>2, <3>1
        <5> QED  BY <5>1
      <4>3. \A j \in 1..1 : j = 1
        OBVIOUS
      <4> QED  BY <4>1, <4>2, <4>3
    <3>2. CASE k # L + 1
      <4>1. k \in 1..L /\ k - 1 \in 0..L /\ k \in 0..L
        BY <1>1, <3>2
      <4>2. /\ b[k - 1] < b[k] /\ Len(runs[k]) = b[k] - b[k - 1]
            /\ \A j \in 1..Len(runs[k]) : runs[k][j] = packets[b[k - 1] + j]
        BY <4>1 DEF Cuts
      <4> QED  BY <4>1, <4>2, <2>2, <2>3
    <3> QED  BY <3>1, <3>2
  <2>5. ASSUME NEW k \in 1..(L + 1 - 1) PROVE packets[c[k] + 1].time - packets[c[k]].time > IdleGap
    <3>1. k \in 1..L /\ c[k] = b[k]
      BY <1>1, <2>3
    <3>2. CASE k # L
      <4>1. k \in 1..(L - 1)
        BY <1>1, <3>1, <3>2
      <4> QED  BY <3>1, <4>1 DEF Cuts
    <3>3. CASE k = L
      <4>1. b[L] = n - 1 /\ n - 1 + 1 = n
        BY <1>1, <1>2
      <4>2. L \in 1..L /\ L # 0 /\ runs[L] \in Seq(Packet) /\ Last(runs) = runs[L]
        BY <1>1, <3>1, <3>3 DEF Last
      <4>3. /\ b[L - 1] \in Nat /\ Len(runs[L]) = b[L] - b[L - 1] /\ b[L - 1] < b[L]
            /\ \A j \in 1..Len(runs[L]) : runs[L][j] = packets[b[L - 1] + j]
        <5>1. L - 1 \in 0..L
          BY <4>2, <1>1
        <5>2. b[L - 1] \in Nat
          BY <1>2, <5>1
        <5> QED  BY <4>2, <5>2 DEF Cuts
      <4>4. Len(runs[L]) \in 1..Len(runs[L]) /\ b[L - 1] + Len(runs[L]) = n - 1
        BY SMTT(40), <1>1, <4>1, <4>2, <4>3
      <4>5. Last(Last(runs)) = packets[n - 1]
        BY <4>2, <4>3, <4>4 DEF Last
      <4>6. n - 1 \in 1..Len(packets) /\ n \in 1..Len(packets)
        BY <1>1, <4>1, <4>3, PacketsTyped
      <4>7. packets[n - 1].time \in Nat /\ p.time \in Nat
        BY <4>6, PacketsTyped
      <4>8. p.time - packets[n - 1].time > IdleGap
        <5>1. ~(p.time - packets[n - 1].time <= IdleGap)
          BY <1>4, <4>2, <4>5
        <5>2. IdleGap \in Nat
          BY PhaseConstants
        <5> HIDE DEF p
        <5> QED  BY <5>1, <5>2, <4>7
      <4> QED  BY <3>1, <3>3, <4>1, <4>8
    <3> QED  BY <3>2, <3>3
  <2>6. Cuts(c, new, packets, n)
    BY <2>2, <2>3, <2>4, <2>5 DEF Cuts
  <2> QED  BY <2>1, <2>6
<1> QED  BY <1>3, <1>4

LEMMA ActivityCuts ==
    ASSUME NEW packets, InOrder(packets)
    PROVE  \E b : Cuts(b, Activity(packets), packets, Len(packets))
<1> DEFINE N == Len(packets)
           Runs == Seq(Seq(Packet))
           step == [i \in 1..N |-> [r \in Runs |-> ExtendRun(r, packets[i])]]
           Is(it) == it = [s \in SUBSET (DOMAIN packets) |->
                        IF s = {} THEN << >>
                        ELSE LET x == Max(s) IN ExtendRun(it[s \ {x}], packets[x])]
<1>1. Activity(packets) = (CHOOSE it : Is(it))[DOMAIN packets]
  <2>1. ByTime(packets) = packets
    BY SortedIsSame
  <2> QED  BY <2>1 DEF Activity, FoldLeft, MapThenFoldSet
<1>2. N \in Nat /\ DOMAIN packets = 1..N /\ \A i \in 1..N : packets[i] \in Packet
  BY PacketsTyped
<1>3. ASSUME NEW r \in Runs, NEW p \in Packet PROVE ExtendRun(r, p) \in Runs
  <2>1. Append(r, <<p>>) \in Runs
    OBVIOUS
  <2>2. CASE r # << >>
    <3>1. Len(r) \in Nat /\ Len(r) \in 1..Len(r)
      BY <2>2
    <3>2. Last(r) \in Seq(Packet) /\ Front(r) \in Runs
      BY <3>1 DEF Last, Front
    <3>3. Append(Front(r), Append(Last(r), p)) \in Runs
      BY <3>2
    <3> QED  BY <2>1, <3>3 DEF ExtendRun
  <2>3. CASE r = << >>
    BY <2>1, <2>3 DEF ExtendRun
  <2> QED  BY <2>2, <2>3
<1>4. step \in [1..N -> [Runs -> Runs]]
  BY <1>2, <1>3
<1>5. << >> \in Runs
  OBVIOUS
<1> HIDE DEF step, Runs
<1>6. PICK iter : FoldsOver(iter, N, Runs, << >>, step)
  BY <1>2, <1>4, <1>5, FoldExists
<1>7. Is(iter)
  <2> DEFINE next(s) == IF s = {} THEN << >>
                 ELSE LET x == Max(s) IN ExtendRun(iter[s \ {x}], packets[x])
  <2>1. ASSUME NEW s \in SUBSET (1..N) PROVE iter[s] = next(s)
    <3>1. CASE s = {}
      BY <1>6, <3>1 DEF FoldsOver
    <3>2. CASE s # {}
      <4> DEFINE x == Max(s)
      <4>1. x \in 1..N
        BY <1>2, <3>2, MaxIsIn
      <4>2. s \ {x} \in SUBSET (1..N)
        OBVIOUS
      <4>3. iter[s \ {x}] \in Runs /\ iter[s] = step[x][iter[s \ {x}]]
        BY <1>6, <3>2, <4>2 DEF FoldsOver
      <4> HIDE DEF x
      <4>4. iter[s] = ExtendRun(iter[s \ {x}], packets[x])
        BY <4>1, <4>3 DEF step
      <4> QED  BY <3>2, <4>4 DEF x
    <3> QED  BY <3>1, <3>2
  <2>2. iter = [s \in SUBSET (1..N) |-> next(s)]
    <3> HIDE DEF next
    <3> QED  BY <1>6, <2>1 DEF FoldsOver
  <2> QED  BY <1>2, <2>2
<1>8. ASSUME NEW it, Is(it)
      PROVE  /\ it[1..0] = << >>
             /\ \A n \in 1..N : it[1..n] = ExtendRun(it[1..(n - 1)], packets[n])
  <2>1. it[1..0] = << >>
    <3>1. 1..0 = {} /\ {} \in SUBSET (1..N)
      OBVIOUS
    <3> QED  BY <1>2, <1>8, <3>1
  <2>2. ASSUME NEW n \in 1..N PROVE it[1..n] = ExtendRun(it[1..(n - 1)], packets[n])
    <3>1. n \in Nat /\ n # 0 /\ 1..n \in SUBSET (1..N)
      BY <1>2
    <3>2. 1..n # {} /\ Max(1..n) = n /\ (1..n) \ {n} = 1..(n - 1)
      BY <3>1, TopIndex
    <3>3. it[1..n] = IF 1..n = {} THEN << >>
                        ELSE ExtendRun(it[(1..n) \ {Max(1..n)}], packets[Max(1..n)])
      BY <1>2, <1>8, <3>1
    <3> QED  BY <3>2, <3>3
  <2> QED  BY <2>1, <2>2
<1> HIDE DEF Is
<1>9. PICK it : Is(it) /\ Activity(packets) = it[1..N]
  BY <1>1, <1>2, <1>7
<1> DEFINE T == {n \in 0..N : \E b : Cuts(b, it[1..n], packets, n)}
<1>10. 0 \in T
  <2>1. it[1..0] = << >> /\ Len(<< >>) = 0 /\ 1..0 = {} /\ 1..(0 - 1) = {} /\ 0 \in 0..N
    BY <1>2, <1>8, <1>9
  <2>2. Cuts([k \in 0..0 |-> 0], << >>, packets, 0)
    <3>1. [k \in 0..0 |-> 0] \in [0..0 -> 0..0] /\ [k \in 0..0 |-> 0][0] = 0
      OBVIOUS
    <3>2. << >> \in Seq(Seq(Packet))
      OBVIOUS
    <3> QED  BY <2>1, <3>1, <3>2 DEF Cuts
  <2> QED  BY <2>1, <2>2
<1>11. ASSUME NEW n \in 1..N, n - 1 \in T PROVE n \in T
  <2>1. PICK b : Cuts(b, it[1..(n - 1)], packets, n - 1)
    BY <1>11
  <2>2. \E c : Cuts(c, ExtendRun(it[1..(n - 1)], packets[n]), packets, n)
    BY <2>1, CutsGrow
  <2>3. n \in 0..N
    BY <1>2
  <2> QED  BY <2>2, <2>3, <1>8, <1>9
<1>12. \A n \in 0..N : n \in T
  <2> HIDE DEF T, N
  <2> QED  BY <1>2, <1>10, <1>11, UpTo
<1>13. N \in T
  BY <1>2, <1>12
<1> QED  BY <1>9, <1>13

\* The phase of run k, and the pause after it.
RunPhase(packets, runs, k) ==
    [label |-> RunLabel(packets, runs[k], IF k = 1 THEN << >> ELSE runs[k - 1]), start |-> runs[k][1].time,
     end |-> Last(runs[k]).time, frames |-> Frames(runs[k]), hits |-> << >>, episode |-> None]
RunPause(packets, episodes, runs, k) == Pause(packets, episodes, Last(runs[k]).time, runs[k + 1][1].time)

\* The phases of the first n runs: each run's, and between two of them the pause.
Laid(phases, packets, episodes, runs, n) ==
    /\ Len(phases) = IF n = Len(runs) /\ n # 0 THEN 2 * n - 1 ELSE 2 * n
    /\ \A k \in 1..n : phases[2 * k - 1] = RunPhase(packets, runs, k)
    /\ \A k \in 1..n : k # Len(runs) => phases[2 * k] = RunPause(packets, episodes, runs, k)

\* One more run adds its phase and, unless it is the last, the pause after it.
LEMMA LayRun ==
    ASSUME NEW packets, NEW episodes, NEW runs, Len(runs) \in Nat, NEW S, NEW n \in 1..Len(runs),
           NEW phases \in Seq(S), Laid(phases, packets, episodes, runs, n - 1),
           RunPhase(packets, runs, n) \in S, n # Len(runs) => RunPause(packets, episodes, runs, n) \in S
    PROVE  LET pause == IF n = Len(runs) THEN << >> ELSE <<RunPause(packets, episodes, runs, n)>>
               more == Append(phases, RunPhase(packets, runs, n)) \o pause
           IN  more \in Seq(S) /\ Laid(more, packets, episodes, runs, n)
<1> DEFINE phase == RunPhase(packets, runs, n)
           pausing == RunPause(packets, episodes, runs, n)
           longer == Append(phases, phase)
<1>1. n \in Nat /\ n - 1 \in Nat /\ n # 0 /\ n - 1 # Len(runs)
  OBVIOUS
<1>2. Len(phases) = 2 * (n - 1) /\ 2 * (n - 1) \in Nat /\ 2 * (n - 1) + 1 = 2 * n - 1 /\ 2 * n - 1 + 1 = 2 * n
  BY <1>1 DEF Laid
<1>3. /\ \A k \in 1..(n - 1) : phases[2 * k - 1] = RunPhase(packets, runs, k)
      /\ \A k \in 1..(n - 1) : phases[2 * k] = RunPause(packets, episodes, runs, k)
  <2>1. \A k \in 1..(n - 1) : k # Len(runs)
    BY <1>1
  <2> QED  BY <2>1 DEF Laid
<1>4. \A k \in 1..(n - 1) : 2 * k - 1 \in 1..(2 * (n - 1)) /\ 2 * k \in 1..(2 * (n - 1))
  BY <1>1
<1> HIDE DEF phase, pausing
<1>5. /\ longer \in Seq(S) /\ Len(longer) = 2 * n - 1 /\ longer[2 * n - 1] = phase
      /\ \A i \in 1..(2 * (n - 1)) : longer[i] = phases[i]
  <2>1. phase \in S /\ Len(phases) + 1 = 2 * n - 1
    BY <1>2 DEF phase
  <2> QED  BY <1>2, <2>1
<1> HIDE DEF longer
<1>6. CASE n = Len(runs)
  <2>1. longer \o << >> = longer
    BY <1>5
  <2>2. Laid(longer, packets, episodes, runs, n)
    <3>1. ASSUME NEW k \in 1..n PROVE longer[2 * k - 1] = RunPhase(packets, runs, k)
      <4>1. CASE k = n
        BY <1>5, <4>1 DEF phase
      <4>2. CASE k # n
        <5>1. k \in 1..(n - 1)
          BY <1>1, <4>2
        <5> QED  BY <5>1, <1>3, <1>4, <1>5
      <4> QED  BY <4>1, <4>2
    <3>2. ASSUME NEW k \in 1..n, k # Len(runs) PROVE longer[2 * k] = RunPause(packets, episodes, runs, k)
      <4>1. k \in 1..(n - 1)
        BY <1>1, <1>6, <3>2
      <4> QED  BY <4>1, <1>3, <1>4, <1>5
    <3> QED  BY <3>1, <3>2, <1>1, <1>5, <1>6 DEF Laid
  <2> QED  BY <2>1, <2>2, <1>5, <1>6 DEF longer, phase
<1>7. CASE n # Len(runs)
  <2> DEFINE more == longer \o <<pausing>>
  <2>1. /\ more \in Seq(S) /\ Len(more) = 2 * n /\ more[2 * n] = pausing
        /\ \A i \in 1..(2 * n - 1) : more[i] = longer[i]
    <3>1. pausing \in S /\ Len(longer) + 1 = 2 * n /\ 2 * n \in Nat
      BY SMTT(40), <1>1, <1>2, <1>5, <1>7 DEF pausing
    <3>2. <<pausing>> \in Seq(S) /\ Len(<<pausing>>) = 1 /\ <<pausing>>[1] = pausing
      BY <3>1
    <3> QED  BY <1>5, <3>1, <3>2
  <2> HIDE DEF more
  <2>2. Laid(more, packets, episodes, runs, n)
    <3>1. ASSUME NEW k \in 1..n PROVE more[2 * k - 1] = RunPhase(packets, runs, k)
      <4>1. CASE k = n
        <5>1. 2 * n - 1 \in 1..(2 * n - 1)
          BY <1>1
        <5> QED  BY <1>5, <2>1, <4>1, <5>1 DEF phase
      <4>2. CASE k # n
        <5>1. k \in 1..(n - 1) /\ 2 * k - 1 \in 1..(2 * n - 1)
          BY <1>1, <4>2
        <5> QED  BY <5>1, <1>3, <1>4, <1>5, <2>1
      <4> QED  BY <4>1, <4>2
    <3>2. ASSUME NEW k \in 1..n PROVE more[2 * k] = RunPause(packets, episodes, runs, k)
      <4>1. CASE k = n
        BY <2>1, <4>1 DEF pausing
      <4>2. CASE k # n
        <5>1. k \in 1..(n - 1) /\ 2 * k \in 1..(2 * n - 1)
          BY <1>1, <4>2
        <5> QED  BY <5>1, <1>3, <1>4, <1>5, <2>1
      <4> QED  BY <4>1, <4>2
    <3> QED  BY <3>1, <3>2, <2>1, <1>7 DEF Laid
  <2> QED  BY <2>1, <2>2, <1>7 DEF more, longer, phase, pausing
<1> QED  BY <1>6, <1>7

LEMMA PhasesLaid ==
    ASSUME NEW packets, NEW episodes, Len(Activity(packets)) \in Nat,
           DOMAIN Activity(packets) = 1..Len(Activity(packets))
    PROVE  Laid(StreamPhases(packets, episodes), packets, episodes, Activity(packets), Len(Activity(packets)))
           /\ \E S : StreamPhases(packets, episodes) \in Seq(S)
<1> DEFINE runs == Activity(packets)
           R == Len(runs)
           S == {RunPhase(packets, runs, k) : k \in 1..R} \cup {RunPause(packets, episodes, runs, k) : k \in 1..R}
           phase(k) == RunPhase(packets, runs, k)
           pause(k) == IF k = Len(runs) THEN << >> ELSE <<RunPause(packets, episodes, runs, k)>>
           step == [k \in 1..R |-> [r \in Seq(S) |-> Append(r, phase(k)) \o pause(k)]]
           Is(it) == it = [s \in SUBSET (DOMAIN [i \in DOMAIN runs |-> i]) |->
                        IF s = {} THEN << >>
                        ELSE LET x == Max(s) IN Append(it[s \ {x}], phase([i \in DOMAIN runs |-> i][x]))
                                                    \o pause([i \in DOMAIN runs |-> i][x])]
<1>1. StreamPhases(packets, episodes) = (CHOOSE it : Is(it))[DOMAIN [i \in DOMAIN runs |-> i]]
  BY DEF StreamPhases, FoldLeftDomain, FoldLeft, MapThenFoldSet, RunPhase, RunPause
<1>2. R \in Nat /\ DOMAIN runs = 1..R /\ DOMAIN [i \in DOMAIN runs |-> i] = 1..R
  OBVIOUS
<1> HIDE DEF runs
<1>3. \A k \in 1..R : phase(k) \in S /\ pause(k) \in Seq(S)
  <2>1. ASSUME NEW k \in 1..R PROVE phase(k) \in S /\ pause(k) \in Seq(S)
    <3> DEFINE p == RunPause(packets, episodes, runs, k)
    <3>1. phase(k) \in S /\ p \in S
      OBVIOUS
    <3> HIDE DEF p, S
    <3>2. <<p>> \in Seq(S) /\ << >> \in Seq(S)
      BY <3>1
    <3> QED  BY <3>1, <3>2 DEF p
  <2> QED  BY <2>1
<1>4. step \in [1..R -> [Seq(S) -> Seq(S)]]
  <2> HIDE DEF S, phase, pause
  <2> QED  BY <1>3
<1>5. << >> \in Seq(S)
  OBVIOUS
<1> HIDE DEF step, S, phase, pause
<1>6. PICK iter : FoldsOver(iter, R, Seq(S), << >>, step)
  <2> HIDE DEF R
  <2> QED  BY <1>2, <1>4, <1>5, FoldExists
<1>7. \A x \in 1..R : [i \in DOMAIN runs |-> i][x] = x
  BY <1>2
<1>8. Is(iter)
  <2> DEFINE next(s) == IF s = {} THEN << >>
                 ELSE LET x == Max(s) IN Append(iter[s \ {x}], phase([i \in DOMAIN runs |-> i][x]))
                                                    \o pause([i \in DOMAIN runs |-> i][x])
  <2>1. ASSUME NEW s \in SUBSET (1..R) PROVE iter[s] = next(s)
    <3>1. CASE s = {}
      BY <1>6, <3>1 DEF FoldsOver
    <3>2. CASE s # {}
      <4> DEFINE x == Max(s)
      <4>1. x \in 1..R
        BY <1>2, <3>2, MaxIsIn
      <4>2. s \ {x} \in SUBSET (1..R)
        OBVIOUS
      <4>3. iter[s \ {x}] \in Seq(S) /\ iter[s] = step[x][iter[s \ {x}]]
        BY <1>6, <3>2, <4>2 DEF FoldsOver
      <4> HIDE DEF x
      <4>4. iter[s] = Append(iter[s \ {x}], phase(x)) \o pause(x)
        BY <4>1, <4>3 DEF step
      <4>5. [i \in DOMAIN runs |-> i][x] = x
        BY <4>1, <1>7
      <4> QED  BY <3>2, <4>4, <4>5 DEF x
    <3> QED  BY <3>1, <3>2
  <2>2. iter = [s \in SUBSET (1..R) |-> next(s)]
    <3> HIDE DEF next
    <3> QED  BY <1>6, <2>1 DEF FoldsOver
  <2> QED  BY <1>2, <2>2
<1>9. ASSUME NEW it, Is(it)
      PROVE  /\ it[1..0] = << >>
             /\ \A n \in 1..R : it[1..n] = Append(it[1..(n - 1)], phase(n)) \o pause(n)
  <2>1. it[1..0] = << >>
    <3>1. 1..0 = {} /\ {} \in SUBSET (1..R)
      OBVIOUS
    <3> QED  BY <1>2, <1>9, <3>1
  <2>2. ASSUME NEW n \in 1..R PROVE it[1..n] = Append(it[1..(n - 1)], phase(n)) \o pause(n)
    <3>1. n \in Nat /\ n # 0 /\ 1..n \in SUBSET (1..R)
      BY <1>2
    <3>2. 1..n # {} /\ Max(1..n) = n /\ (1..n) \ {n} = 1..(n - 1)
      BY <3>1, TopIndex
    <3>3. it[1..n] = IF 1..n = {} THEN << >>
                     ELSE Append(it[(1..n) \ {Max(1..n)}], phase([i \in DOMAIN runs |-> i][Max(1..n)]))
                            \o pause([i \in DOMAIN runs |-> i][Max(1..n)])
      BY <1>2, <1>9, <3>1
    <3>4. [i \in DOMAIN runs |-> i][n] = n
      BY <1>7
    <3> QED  BY <3>2, <3>3, <3>4
  <2> QED  BY <2>1, <2>2
<1> HIDE DEF Is
<1>10. PICK it : Is(it) /\ StreamPhases(packets, episodes) = it[1..R]
  BY <1>1, <1>2, <1>8
<1> DEFINE T == {n \in 0..R : it[1..n] \in Seq(S) /\ Laid(it[1..n], packets, episodes, runs, n)}
<1>11. 0 \in T
  <2>1. it[1..0] = << >> /\ Len(<< >>) = 0 /\ 2 * 0 = 0 /\ 0 \in 0..R
    BY <1>2, <1>9, <1>10
  <2>2. \A k \in 1..0 : FALSE
    OBVIOUS
  <2>3. Laid(<< >>, packets, episodes, runs, 0)
    BY <2>1, <2>2 DEF Laid
  <2> QED  BY <2>1, <2>3, <1>5
<1>12. ASSUME NEW n \in 1..R, n - 1 \in T PROVE n \in T
  <2>1. it[1..n] = Append(it[1..(n - 1)], phase(n)) \o pause(n) /\ n \in 0..R
    BY <1>2, <1>9, <1>10, SMTT(40)
  <2>2. RunPhase(packets, runs, n) \in S /\ RunPause(packets, episodes, runs, n) \in S
    BY DEF S
  <2>3. it[1..(n - 1)] \in Seq(S) /\ Laid(it[1..(n - 1)], packets, episodes, runs, n - 1)
    BY <1>12
  <2> DEFINE pausing == IF n = Len(runs) THEN << >> ELSE <<RunPause(packets, episodes, runs, n)>>
             more == Append(it[1..(n - 1)], RunPhase(packets, runs, n)) \o pausing
  <2>4. more \in Seq(S) /\ Laid(more, packets, episodes, runs, n)
    BY <1>2, <2>2, <2>3, LayRun
  <2>5. it[1..n] = more
    BY <2>1 DEF phase, pause
  <2> HIDE DEF more
  <2> QED  BY <2>1, <2>4, <2>5
<1>13. \A n \in 0..R : n \in T
  <2> HIDE DEF T, R
  <2> QED  BY <1>2, <1>11, <1>12, UpTo
<1>14. R \in T
  BY <1>2, <1>13
<1> QED  BY <1>10, <1>14 DEF runs

LEMMA Halves ==
    /\ \A k \in Nat \ {0} : /\ 2 * k - 1 \in Nat \ {0} /\ 2 * k \in Nat \ {0} /\ (2 * k - 1) % 2 = 1 /\ (2 * k) % 2 = 0
                            /\ (2 * k - 1 + 1) \div 2 = k /\ (2 * k + 1) \div 2 = k
    /\ \A i \in Nat \ {0} : \E k \in Nat \ {0} : i = 2 * k - 1 \/ i = 2 * k
<1>1. \A k \in Nat \ {0} : /\ 2 * k - 1 \in Nat \ {0} /\ 2 * k \in Nat \ {0} /\ (2 * k - 1) % 2 = 1 /\ (2 * k) % 2 = 0
                           /\ (2 * k - 1 + 1) \div 2 = k /\ (2 * k + 1) \div 2 = k
  OBVIOUS
<1>2. ASSUME NEW i \in Nat \ {0} PROVE \E k \in Nat \ {0} : i = 2 * k - 1 \/ i = 2 * k
  <2> DEFINE k == (i + 1) \div 2
  <2>1. k \in Nat \ {0} /\ (i = 2 * k - 1 \/ i = 2 * k)
    OBVIOUS
  <2> QED  BY <2>1
<1> QED  BY <1>1, <1>2

\* Where the phases of all runs stand: run k's at 2k - 1, the pause after it at 2k.
LEMMA PlacesOfPhases ==
    ASSUME NEW R \in Nat \ {0}, NEW i \in 1..(2 * R - 1)
    PROVE  \E k \in 1..R : i = 2 * k - 1 \/ (i = 2 * k /\ k # R)
<1>1. PICK k \in Nat \ {0} : i = 2 * k - 1 \/ i = 2 * k
  BY Halves
<1>2. k \in 1..R /\ (i = 2 * k => k # R)
  BY <1>1
<1> QED  BY <1>1, <1>2

\* Every packet is in a run.
LEMMA RunOf ==
    ASSUME NEW packets, NEW runs, NEW b, Cuts(b, runs, packets, Len(packets)), Len(packets) \in Nat,
           NEW m \in 1..Len(packets)
    PROVE  \E k \in 1..Len(runs) : b[k - 1] < m /\ m <= b[k]
<1> DEFINE R == Len(runs)
           T == {n \in 0..R : m <= b[n] => \E k \in 1..n : b[k - 1] < m /\ m <= b[k]}
<1>1. R \in Nat /\ b \in [0..R -> 0..Len(packets)] /\ b[0] = 0 /\ b[R] = Len(packets)
  BY DEF Cuts
<1>2. 0 \in T
  BY <1>1
<1>3. ASSUME NEW n \in 1..R, n - 1 \in T PROVE n \in T
  <2>1. n - 1 \in 0..R /\ n \in 0..R /\ b[n - 1] \in Nat /\ b[n] \in Nat
    BY <1>1
  <2>2. CASE m <= b[n - 1]
    <3>1. PICK k \in 1..(n - 1) : b[k - 1] < m /\ m <= b[k]
      BY <1>3, <2>2
    <3>2. k \in 1..n
      BY <1>1
    <3> QED  BY <2>1, <3>1, <3>2
  <2>3. CASE b[n - 1] < m
    <3>1. n \in 1..n
      BY <1>1
    <3> QED  BY <2>1, <2>3, <3>1
  <2> QED  BY <2>1, <2>2, <2>3
<1>4. \A n \in 0..R : n \in T
  <2> HIDE DEF T, R
  <2> QED  BY <1>1, <1>2, <1>3, UpTo
<1>5. R \in T
  BY <1>1, <1>4
<1> QED  BY <1>1, <1>5

\* The first n of f, and what follows them up to m.
Upto(f, n) == [j \in 1..n |-> f[j]]
Piece(f, n, m) == [j \in 1..(m - n) |-> f[n + j]]

LEMMA Continue ==
    ASSUME NEW f, NEW n \in Nat, NEW m \in Nat, n <= m
    PROVE  Upto(f, n) \o Piece(f, n, m) = Upto(f, m)
<1> DEFINE s == [j \in 1..n |-> f[j]]
           t == [j \in 1..(m - n) |-> f[n + j]]
           all == [j \in 1..m |-> f[j]]
           S == {f[j] : j \in 1..m}
<1>1. m - n \in Nat
  OBVIOUS
<1>2. s \in Seq(S) /\ Len(s) = n
  OBVIOUS
<1>3. t \in Seq(S) /\ Len(t) = m - n
  <2>1. \A j \in 1..(m - n) : n + j \in 1..m
    OBVIOUS
  <2>2. t \in [1..(m - n) -> S]
    BY <2>1
  <2> QED  BY <1>1, <2>2
<1>4. all \in Seq(S) /\ Len(all) = m
  OBVIOUS
<1>5. \A j \in 1..n : s[j] = f[j]
  OBVIOUS
<1>6. \A j \in 1..(m - n) : t[j] = f[n + j]
  OBVIOUS
<1>7. \A j \in 1..m : all[j] = f[j]
  OBVIOUS
<1> HIDE DEF s, t, all, S
<1>8. s \o t \in Seq(S) /\ Len(s \o t) = m
  BY <1>1, <1>2, <1>3
<1>9. ASSUME NEW j \in 1..m PROVE (s \o t)[j] = all[j]
  <2>1. CASE j \in 1..n
    <3>1. (s \o t)[j] = s[j]
      BY <1>2, <1>3, <2>1
    <3> QED  BY <3>1, <1>5, <1>7, <2>1
  <2>2. CASE j \notin 1..n
    <3>1. j - n \in 1..(m - n) /\ n + (j - n) = j
      BY <2>2
    <3>2. (s \o t)[j] = t[j - n]
      BY <1>2, <1>3, <3>1, <2>2
    <3> QED  BY <3>1, <3>2, <1>6, <1>7
  <2> QED  BY <2>1, <2>2
<1>10. s \o t = all
  BY <1>4, <1>8, <1>9
<1> QED  BY <1>10 DEF s, t, all, Upto, Piece

\* Pieces cut from f, with nothing in between, make up what they were cut from.
LEMMA FlattenPieces ==
    ASSUME NEW f, NEW R \in Nat \ {0}, NEW b \in [0..R -> Nat], b[0] = 0,
           \A k \in 1..R : b[k - 1] <= b[k],
           NEW pieces, Len(pieces) = 2 * R - 1,
           \A k \in 1..R : pieces[2 * k - 1] = Piece(f, b[k - 1], b[k]),
           \A k \in 1..(R - 1) : pieces[2 * k] = << >>
    PROVE  FlattenSeq(pieces) = Upto(f, b[R])
<1> DEFINE M == 2 * R - 1
           upto(n) == Upto(f, n)
           H(i) == (i + 1) \div 2
           g == [i \in 1..M |-> upto(b[H(i)])]
           Is(it) == it = [i \in 1..M |-> IF i = 1 THEN pieces[i] ELSE it[i - 1] \o pieces[i]]
<1>1. M \in Nat /\ M # 0 /\ 1 \in 1..M /\ M \in 1..M
  OBVIOUS
<1>2. FlattenSeq(pieces) = (CHOOSE it : Is(it))[M]
  BY <1>1 DEF FlattenSeq
<1>3. \A k \in 1..R : /\ H(2 * k - 1) = k /\ H(2 * k) = k /\ 2 * k - 1 \in 1..M
                      /\ k # R => 2 * k \in 1..M
  BY Halves
<1>4. \A k \in 1..R : g[2 * k - 1] = upto(b[k]) /\ (k # R => g[2 * k] = upto(b[k]))
  <2> HIDE DEF H, upto, M
  <2> QED  BY <1>3
<1> HIDE DEF g, H
<1>5. ASSUME NEW n \in Nat PROVE upto(n) \o << >> = upto(n)
  <2> DEFINE S == {f[j] : j \in 1..n}
  <2>1. upto(n) \in [1..n -> S]
    BY DEF Upto
  <2> HIDE DEF S, upto
  <2>2. upto(n) \in Seq(S)
    BY <2>1
  <2> QED  BY <2>2
<1>12. ASSUME NEW x \in Nat, NEW y \in Nat, x <= y
       PROVE  upto(x) \o Piece(f, x, y) = upto(y)
  BY <1>12, Continue
<1>6. g[1] = pieces[1]
  <2>1. 1 \in 1..R /\ 2 * 1 - 1 = 1 /\ 1 - 1 = 0 /\ b[1] \in Nat /\ b[1] - 0 = b[1]
    OBVIOUS
  <2>2. pieces[1] = Piece(f, b[0], b[1]) /\ g[1] = upto(b[1])
    BY <1>4, <2>1
  <2>3. b[1] - b[0] = b[1] /\ \A j \in 1..b[1] : b[0] + j = j
    BY <2>1
  <2> QED  BY <2>2, <2>3 DEF Upto, Piece
<1>7. ASSUME NEW i \in 2..M PROVE g[i] = g[i - 1] \o pieces[i]
  <2>1. PICK k \in 1..R : i = 2 * k - 1 \/ (i = 2 * k /\ k # R)
    <3>1. i \in 1..(2 * R - 1)
      BY <1>1
    <3> QED  BY <3>1, PlacesOfPhases
  <2>2. b[k] \in Nat /\ k \in Nat
    OBVIOUS
  <2>3. CASE i = 2 * k
    <3>1. k \in 1..(R - 1) /\ i - 1 = 2 * k - 1
      BY <2>1, <2>3
    <3>2. g[i] = upto(b[k]) /\ g[i - 1] = upto(b[k]) /\ pieces[i] = << >>
      BY <1>4, <2>3, <3>1, SMTT(40)
    <3> HIDE DEF upto
    <3>3. upto(b[k]) \o << >> = upto(b[k])
      BY <1>5, <2>2
    <3> QED  BY <3>2, <3>3
  <2>4. CASE i = 2 * k - 1
    <3>1. k - 1 \in 1..R /\ k - 1 # R /\ i - 1 = 2 * (k - 1) /\ k - 1 \in 0..R /\ k \in 0..R
      BY <2>2, <2>4
    <3>2. g[i] = upto(b[k]) /\ g[i - 1] = upto(b[k - 1])
      BY <1>4, <2>4, <3>1
    <3>3. pieces[i] = Piece(f, b[k - 1], b[k])
      BY <2>4
    <3>4. b[k - 1] \in Nat /\ b[k - 1] <= b[k]
      BY <3>1
    <3>5. upto(b[k - 1]) \o Piece(f, b[k - 1], b[k]) = upto(b[k])
      <4> HIDE DEF upto
      <4> QED  BY <2>2, <3>4, <1>12
    <3> HIDE DEF upto
    <3> QED  BY <3>2, <3>3, <3>5
  <2> QED  BY <2>1, <2>3, <2>4
<1>8. Is(g)
  <2> DEFINE next(i) == IF i = 1 THEN pieces[i] ELSE g[i - 1] \o pieces[i]
  <2>1. ASSUME NEW i \in 1..M PROVE g[i] = next(i)
    <3>1. i = 1 \/ i \in 2..M
      BY <1>1
    <3> QED  BY <3>1, <1>6, <1>7
  <2>2. g = [i \in 1..M |-> g[i]]
    BY DEF g
  <2>3. g = [i \in 1..M |-> next(i)]
    <3> HIDE DEF next, M
    <3> QED  BY <2>1, <2>2
  <2> QED  BY <2>3
<1>9. ASSUME NEW it, Is(it) PROVE it[M] = g[M]
  <2> DEFINE T == {i \in 0..M : i # 0 => it[i] = g[i]}
  <2>1. 0 \in T
    BY <1>1
  <2>2. ASSUME NEW i \in 1..M, i - 1 \in T PROVE i \in T
    <3>1. it[i] = IF i = 1 THEN pieces[i] ELSE it[i - 1] \o pieces[i]
      BY <1>9
    <3>2. CASE i = 1
      BY <3>1, <3>2, <1>6, <1>1
    <3>3. CASE i # 1
      <4>1. i \in 2..M /\ i - 1 # 0 /\ i \in 0..M
        BY <1>1, <3>3
      <4> QED  BY <4>1, <3>1, <3>3, <1>7, <2>2
    <3> QED  BY <3>2, <3>3
  <2>3. \A i \in 0..M : i \in T
    <3> HIDE DEF T, M
    <3> QED  BY <1>1, <2>1, <2>2, UpTo
  <2>4. M \in 0..M
    BY <1>1
  <2> QED  BY <2>3, <2>4, <1>1
<1> HIDE DEF Is
<1>10. FlattenSeq(pieces) = g[M]
  <2>1. Is(CHOOSE it : Is(it))
    BY <1>8
  <2> QED  BY <2>1, <1>2, <1>9
<1>11. g[M] = upto(b[R])
  <2>1. R \in 1..R
    OBVIOUS
  <2> QED  BY <2>1, <1>4
<1> QED  BY <1>10, <1>11

Paying == {p \in Packet : p.length > 0}

LEMMA PayloadIs ==
    ASSUME NEW packets \in Seq(Packet)
    PROVE  Payload(packets) = Picked(packets, Paying)
<1> DEFINE N == Len(packets)
           Is(k) == k = [n \in 0..N |-> IF n = 0 THEN << >>
                            ELSE IF packets[n].length > 0 THEN Append(k[n - 1], packets[n]) ELSE k[n - 1]]
<1>1. Payload(packets) = (CHOOSE k : Is(k))[N]
  BY DEF Payload, Kept
<1>2. N \in Nat /\ \A n \in 1..N : packets[n] \in Packet /\ n \in 0..N /\ n # 0
  OBVIOUS
<1>3. PICK k : k \in [0..N -> Seq(Packet)] /\ Selection(k, packets, Paying)
  BY SelectionExists
<1>4. Is(k)
  <2> DEFINE next(n) == IF n = 0 THEN << >>
                        ELSE IF packets[n].length > 0 THEN Append(k[n - 1], packets[n]) ELSE k[n - 1]
  <2>1. ASSUME NEW n \in 0..N PROVE k[n] = next(n)
    <3>1. n = 0 \/ n \in 1..N
      BY <1>2
    <3>2. n \in 1..N => n # 0 /\ (packets[n] \in Paying <=> packets[n].length > 0)
      BY <1>2 DEF Paying
    <3> HIDE DEF N
    <3> QED  BY <1>3, <3>1, <3>2 DEF Selection, N
  <2>2. k = [n \in 0..N |-> next(n)]
    <3> HIDE DEF next
    <3> QED  BY <1>3, <2>1
  <2> QED  BY <2>2
<1>5. ASSUME NEW m, Is(m) PROVE Selection(m, packets, Paying)
  <2>1. \A n \in 1..N : packets[n] \in Paying <=> packets[n].length > 0
    BY <1>2 DEF Paying
  <2>2. 0 \in 0..N
    BY <1>2
  <2>3. m[0] = << >>
    BY <2>2, <1>5
  <2>4. ASSUME NEW n \in 1..N
        PROVE  m[n] = IF packets[n].length > 0 THEN Append(m[n - 1], packets[n]) ELSE m[n - 1]
    BY <1>2, <1>5
  <2> QED  BY <2>1, <2>3, <2>4 DEF Selection
<1> HIDE DEF Is
<1>6. Selection(CHOOSE m : Is(m), packets, Paying)
  BY <1>4, <1>5
<1> QED  BY <1>1, <1>2, <1>6, PickedIs

\* Payload with only short times between is in one run: the one its first packet is in.
LEMMA PacedInOneRun ==
    ASSUME NEW packets, InOrder(packets), NEW runs, NEW b, Cuts(b, runs, packets, Len(packets)),
           AckPaced(packets)
    PROVE  \E k \in 1..Len(runs) : \A n \in 1..Len(Payload(packets)) :
               \E j \in 1..Len(runs[k]) : Payload(packets)[n] = runs[k][j]
<1> DEFINE N == Len(packets)
           R == Len(runs)
           payload == Payload(packets)
           L == Len(payload)
<1>1. /\ packets \in Seq(Packet) /\ N \in Nat /\ R \in Nat
      /\ \A i \in 1..N : packets[i].time \in Nat
      /\ \A i, j \in 1..N : i <= j => packets[i].time <= packets[j].time
      /\ b \in [0..R -> 0..N] /\ b[0] = 0 /\ b[R] = N
  BY PacketsTyped, SMTT(40) DEF InOrder, Cuts
<1>2. ByTime(packets) = packets
  BY SortedIsSame
<1>3. payload \in Seq(Packet) /\ L \in Nat /\ \E pos : Picks(pos, payload, packets, N, Paying)
  <2>1. payload = Picked(packets, Paying)
    BY <1>1, PayloadIs
  <2> HIDE DEF payload
  <2> QED  BY <1>1, <2>1, PickedPlaces
<1>4. PICK pos : Picks(pos, payload, packets, N, Paying)
  BY <1>3
<1>5. L >= PacedMin /\ \A i \in 2..L : payload[i].time - payload[i - 1].time < PacedGap
  BY <1>2 DEF AckPaced
<1> HIDE DEF payload
<1>6. /\ pos \in [1..L -> 1..N]
      /\ \A i, j \in 1..L : i < j => pos[i] < pos[j]
      /\ \A i \in 1..L : payload[i] = packets[pos[i]]
  BY <1>4 DEF Picks
<1>7. L # 0
  BY <1>3, <1>5, PhaseConstants
<1>8. PICK k \in 1..R : b[k - 1] < pos[1] /\ pos[1] <= b[k]
  <2>1. pos[1] \in 1..N
    BY <1>3, <1>6, <1>7
  <2> QED  BY <2>1, <1>1, RunOf
<1>9. k \in Nat /\ k - 1 \in 0..R /\ k \in 0..R /\ b[k - 1] \in Nat /\ b[k] \in 0..N
  BY <1>1, SMTT(40)
<1>10. ASSUME NEW n \in 2..L, pos[n - 1] <= b[k] PROVE pos[n] <= b[k]
  <2>1. n \in 1..L /\ n - 1 \in 1..L /\ pos[n] \in 1..N /\ pos[n - 1] \in 1..N
    <3>1. n \in 1..L /\ n - 1 \in 1..L
      <4> HIDE DEF L
      <4> QED  BY <1>3
    <3> QED  BY <3>1, <1>6
  <2> SUFFICES ASSUME b[k] < pos[n] PROVE FALSE
    BY <1>9, <2>1
  <2>2. k \in 1..(R - 1)
    BY <1>1, <1>9, <2>1
  <2>3. packets[b[k] + 1].time - packets[b[k]].time > IdleGap
    BY <2>2 DEF Cuts
  <2>4. b[k] \in 1..N /\ b[k] + 1 \in 1..N /\ b[k] + 1 <= pos[n]
    BY <1>9, <2>1, <1>10, SMTT(40)
  <2>5. packets[pos[n - 1]].time <= packets[b[k]].time
    BY <1>1, <1>10, <2>1, <2>4
  <2>6. packets[b[k] + 1].time <= packets[pos[n]].time
    BY <1>1, <2>1, <2>4
  <2>7. packets[pos[n]].time - packets[pos[n - 1]].time < PacedGap
    BY <1>5, <1>6, <2>1
  <2> DEFINE t1 == packets[pos[n - 1]].time
             t2 == packets[b[k]].time
             t3 == packets[b[k] + 1].time
             t4 == packets[pos[n]].time
  <2>8. t1 \in Nat /\ t2 \in Nat /\ t3 \in Nat /\ t4 \in Nat
    BY <1>1, <2>1, <2>4
  <2>9. IdleGap \in Nat /\ PacedGap \in Nat /\ PacedGap <= IdleGap
    BY PhaseConstants
  <2>10. t3 - t2 > IdleGap /\ t1 <= t2 /\ t3 <= t4 /\ t4 - t1 < PacedGap
    BY <2>3, <2>5, <2>6, <2>7
  <2> HIDE DEF t1, t2, t3, t4
  <2> QED  BY <2>8, <2>9, <2>10
<1> DEFINE T == {n \in 0..L : n # 0 => pos[n] <= b[k]}
<1>11. \A n \in 0..L : n \in T
  <2>1. 0 \in T
    BY <1>3
  <2>2. ASSUME NEW n \in 1..L, n - 1 \in T PROVE n \in T
    <3>1. n = 1 \/ (n \in 2..L /\ n - 1 # 0)
      BY <1>3
    <3>2. n \in 0..L
      BY <1>3
    <3> QED  BY <3>1, <3>2, <1>8, <1>10, <2>2
  <2> HIDE DEF T, L
  <2> QED  BY <1>3, <2>1, <2>2, UpTo
<1>12. ASSUME NEW n \in 1..L PROVE \E j \in 1..Len(runs[k]) : payload[n] = runs[k][j]
  <2>1. n \in 0..L /\ n # 0 /\ 1 \in 1..L /\ (n = 1 \/ 1 < n)
    BY <1>3
  <2>2. pos[n] <= b[k] /\ pos[n] \in Nat /\ pos[1] \in Nat
    BY <1>6, <1>11, <2>1
  <2>3. b[k - 1] < pos[n]
    BY <1>6, <1>8, <1>9, <2>1, <2>2
  <2>4. /\ Len(runs[k]) = b[k] - b[k - 1]
        /\ \A j \in 1..Len(runs[k]) : runs[k][j] = packets[b[k - 1] + j]
    BY DEF Cuts
  <2> DEFINE j == pos[n] - b[k - 1]
  <2>5. j \in 1..Len(runs[k]) /\ b[k - 1] + j = pos[n]
    BY <1>9, <2>2, <2>3, <2>4, SMTT(40)
  <2>6. payload[n] = runs[k][j]
    BY <1>6, <2>4, <2>5
  <2> QED  BY <2>5, <2>6
<1> QED  BY <1>12 DEF payload

\* Whatever the packets and thresholds, the phases hold every packet once and in order and
\* follow each other without a hole, and payload that is called paced by ACKs is all in one.
THEOREM PhasesCoverStream == Spec => []PhasesTile
<1>1. ASSUME CaptureInv PROVE PhasesTile
  <2> DEFINE packets == timed
             episodes == WindowEpisodes(group)
             runs == Activity(packets)
             R == Len(runs)
             phases == StreamPhases(packets, episodes)
             M == 2 * R - 1
             f == Frames(packets)
             pieces == [i \in DOMAIN phases |-> phases[i].frames]
  <2>1. InOrder(packets)
    BY <1>1, TimedInOrder
  <2> HIDE DEF packets, episodes
  <2>2. ByTime(packets) = packets /\ Len(packets) \in Nat /\ DOMAIN packets = 1..Len(packets)
    BY <2>1, SortedIsSame, PacketsTyped
  <2>3. PICK b : Cuts(b, runs, packets, Len(packets))
    BY <2>1, ActivityCuts
  <2>4. runs \in Seq(Seq(Packet)) /\ R \in Nat /\ DOMAIN runs = 1..R
    BY <2>3 DEF Cuts
  <2>5. Laid(phases, packets, episodes, runs, R) /\ \E S : phases \in Seq(S)
    BY <2>4, PhasesLaid
  <2> HIDE DEF runs, phases
  <2>6. /\ Len(phases) = IF R # 0 THEN M ELSE 0
        /\ DOMAIN phases = 1..Len(phases)
        /\ \A k \in 1..R : phases[2 * k - 1] = RunPhase(packets, runs, k)
        /\ \A k \in 1..R : k # R => phases[2 * k] = RunPause(packets, episodes, runs, k)
    <3>1. DOMAIN phases = 1..Len(phases)
      BY <2>5
    <3>2. Len(phases) = IF R # 0 THEN M ELSE 2 * R
      BY <2>5 DEF Laid
    <3>3. /\ \A k \in 1..R : phases[2 * k - 1] = RunPhase(packets, runs, k)
          /\ \A k \in 1..R : k # R => phases[2 * k] = RunPause(packets, episodes, runs, k)
      BY <2>5 DEF Laid
    <3> HIDE DEF R
    <3>4. R = 0 => 2 * R = 0
      BY <2>4
    <3> QED  BY <3>1, <3>2, <3>3, <3>4
  <2> HIDE DEF R
  <2>7. \A i \in 1..Len(phases) : \E k \in 1..R : i = 2 * k - 1 \/ (i = 2 * k /\ k # R)
    <3>1. CASE R = 0
      BY <2>6, <3>1
    <3>2. CASE R # 0
      <4>1. R \in Nat \ {0} /\ Len(phases) = 2 * R - 1
        BY <2>4, <2>6, <3>2
      <4>2. ASSUME NEW i \in 1..(2 * R - 1) PROVE \E k \in 1..R : i = 2 * k - 1 \/ (i = 2 * k /\ k # R)
        BY <4>1, PlacesOfPhases
      <4> QED  BY <4>1, <4>2
    <3> QED  BY <3>1, <3>2
  <2>8. \A k \in 1..R : /\ phases[2 * k - 1].frames = Frames(runs[k])
                        /\ phases[2 * k - 1].start = runs[k][1].time
                        /\ phases[2 * k - 1].end = Last(runs[k]).time
                        /\ k # R => /\ phases[2 * k].frames = << >>
                                    /\ phases[2 * k].start = Last(runs[k]).time
                                    /\ phases[2 * k].end = runs[k + 1][1].time
    <3>1. ASSUME NEW k \in 1..R
          PROVE  /\ phases[2 * k - 1].frames = Frames(runs[k])
                 /\ phases[2 * k - 1].start = runs[k][1].time
                 /\ phases[2 * k - 1].end = Last(runs[k]).time
      <4>1. phases[2 * k - 1] = RunPhase(packets, runs, k)
        BY <2>6
      <4> QED  BY <4>1 DEF RunPhase
    <3>2. ASSUME NEW k \in 1..R, k # R
          PROVE  /\ phases[2 * k].frames = << >>
                 /\ phases[2 * k].start = Last(runs[k]).time
                 /\ phases[2 * k].end = runs[k + 1][1].time
      <4>1. phases[2 * k] = RunPause(packets, episodes, runs, k)
        BY <2>6, <3>2
      <4>2. ASSUME NEW x, NEW y
            PROVE  /\ Pause(packets, episodes, x, y).frames = << >>
                   /\ Pause(packets, episodes, x, y).start = x /\ Pause(packets, episodes, x, y).end = y
        BY DEF Pause
      <4> QED  BY <4>1, <4>2 DEF RunPause
    <3> QED  BY <3>1, <3>2
  <2>9. /\ b \in [0..R -> 0..Len(packets)] /\ b[0] = 0 /\ b[R] = Len(packets)
        /\ \A k \in 1..R : /\ b[k - 1] < b[k] /\ Len(runs[k]) = b[k] - b[k - 1]
                           /\ \A j \in 1..Len(runs[k]) : runs[k][j] = packets[b[k - 1] + j]
    BY <2>3 DEF Cuts, R
  <2>10. \A k \in 1..R : Frames(runs[k]) = Piece(f, b[k - 1], b[k]) /\ Frames(runs[k]) # << >>
    <3>1. ASSUME NEW k \in 1..R
          PROVE  Frames(runs[k]) = Piece(f, b[k - 1], b[k]) /\ Frames(runs[k]) # << >>
      <4>1. k - 1 \in 0..R /\ k \in 0..R /\ b[k - 1] \in Nat /\ b[k] \in 0..Len(packets)
        BY <2>4, <2>9
      <4>2. DOMAIN runs[k] = 1..(b[k] - b[k - 1]) /\ 1 \in 1..(b[k] - b[k - 1])
        <5>1. runs[k] \in Seq(Packet)
          BY <2>4
        <5> QED  BY <5>1, <4>1, <2>9
      <4>3. ASSUME NEW j \in 1..(b[k] - b[k - 1]) PROVE runs[k][j].frame = f[b[k - 1] + j]
        <5>1. runs[k][j] = packets[b[k - 1] + j]
          BY <2>9
        <5>2. b[k - 1] + j \in DOMAIN packets
          BY <4>1, <2>2
        <5> QED  BY <5>1, <5>2 DEF Frames
      <4>4. Frames(runs[k]) = Piece(f, b[k - 1], b[k])
        BY <4>2, <4>3 DEF Frames, Piece
      <4>5. 1 \in DOMAIN Frames(runs[k])
        BY <4>2 DEF Frames
      <4> QED  BY <4>4, <4>5
    <3> QED  BY <3>1
  <2>11. FlattenSeq(pieces) = Frames(ByTime(packets))
    <3>1. CASE R = 0
      <4>1. pieces = << >> /\ Len(pieces) = 0
        BY <2>6, <3>1
      <4>2. Len(packets) = 0
        BY <2>9, <3>1
      <4>3. Frames(packets) = << >>
        BY <2>2, <4>2 DEF Frames
      <4> QED  BY <4>1, <4>3, <2>2 DEF FlattenSeq
    <3>2. CASE R # 0
      <4>1. DOMAIN pieces = 1..M /\ M \in Nat
        BY <2>4, <2>6, <3>2
      <4>2. Len(pieces) = M
        <5>1. pieces = [i \in 1..M |-> phases[i].frames]
          BY <4>1
        <5> QED  BY <5>1, <4>1
      <4>3. \A k \in 1..R : 2 * k - 1 \in 1..M /\ (k # R => 2 * k \in 1..M)
        BY <2>4
      <4>4. \A k \in 1..R : pieces[2 * k - 1] = Piece(f, b[k - 1], b[k])
        BY <2>8, <2>10, <4>1, <4>3
      <4>5. \A k \in 1..(R - 1) : pieces[2 * k] = << >>
        <5>1. \A k \in 1..(R - 1) : k \in 1..R /\ k # R
          BY <2>4
        <5> QED  BY <2>8, <4>1, <4>3, <5>1
      <4>6. b \in [0..R -> Nat] /\ \A k \in 1..R : b[k - 1] <= b[k]
        <5>1. \A k \in 1..R : k - 1 \in 0..R /\ k \in 0..R
          BY <2>4
        <5>2. \A k \in 0..R : b[k] \in Nat
          BY <2>2, <2>9
        <5>3. b \in [0..R -> Nat]
          BY <2>9, <5>2
        <5> QED  BY <2>9, <5>1, <5>2, <5>3
      <4> HIDE DEF pieces, f
      <4>7. FlattenSeq(pieces) = Upto(f, b[R])
        BY <2>4, <2>9, <3>2, <4>2, <4>4, <4>5, <4>6, FlattenPieces, ZenonT(60)
      <4>8. f = Upto(f, b[R])
        BY <2>2, <2>9 DEF f, Frames, Upto
      <4> QED  BY <4>7, <4>8, <2>2 DEF f
    <3> QED  BY <3>1, <3>2
  <2>12. ASSUME NEW i \in 2..Len(phases) PROVE phases[i].start = phases[i - 1].end
    <3>1. Len(phases) \in Nat /\ i \in 1..Len(phases)
      BY <2>4, <2>6
    <3>2. PICK k \in 1..R : i = 2 * k - 1 \/ (i = 2 * k /\ k # R)
      BY <2>7, <3>1
    <3>3. CASE i = 2 * k /\ k # R
      <4>1. i - 1 = 2 * k - 1
        BY <3>3
      <4> QED  BY <2>8, <3>3, <4>1
    <3>4. CASE i = 2 * k - 1
      <4>1. k - 1 \in 1..R /\ k - 1 # R /\ i - 1 = 2 * (k - 1) /\ (k - 1) + 1 = k
        BY <2>4, <3>4
      <4>2. phases[2 * (k - 1)].end = runs[(k - 1) + 1][1].time
        BY <2>8, <4>1
      <4> QED  BY <2>8, <3>4, <4>1, <4>2
    <3> QED  BY <3>2, <3>3, <3>4
  <2>13. ASSUME NEW i \in DOMAIN phases PROVE (phases[i].frames = << >>) = (i % 2 = 0)
    <3>1. PICK k \in 1..R : i = 2 * k - 1 \/ (i = 2 * k /\ k # R)
      BY <2>6, <2>7
    <3>2. (2 * k - 1) % 2 = 1 /\ (2 * k) % 2 = 0
      BY Halves
    <3>3. CASE i = 2 * k /\ k # R
      BY <2>8, <3>2, <3>3
    <3>4. CASE i = 2 * k - 1
      BY <2>8, <2>10, <3>2, <3>4
    <3> QED  BY <3>1, <3>3, <3>4
  <2>14. ASSUME TransportSymptoms(packets).paced
         PROVE  \E i \in DOMAIN phases : Range(Frames(Payload(packets))) \subseteq Range(phases[i].frames)
    <3>1. AckPaced(packets)
      BY <2>14 DEF TransportSymptoms
    <3>2. PICK k \in 1..R : \A n \in 1..Len(Payload(packets)) :
              \E j \in 1..Len(runs[k]) : Payload(packets)[n] = runs[k][j]
      BY <2>1, <2>3, <3>1, PacedInOneRun DEF R
    <3>3. 2 * k - 1 \in DOMAIN phases
      BY <2>4, <2>6
    <3>4. DOMAIN Payload(packets) = 1..Len(Payload(packets))
      <4>1. packets \in Seq(Packet)
        BY <2>1 DEF InOrder
      <4> QED  BY <4>1, PayloadIs, PickedPlaces
    <3>5. DOMAIN runs[k] = 1..Len(runs[k])
      BY <2>4
    <3>6. Range(Frames(Payload(packets))) \subseteq Range(Frames(runs[k]))
      BY <3>2, <3>4, <3>5, SMTT(40) DEF Range, Frames
    <3> QED  BY <3>3, <3>6, <2>8
  <2> QED  BY <2>11, <2>12, <2>13, <2>14 DEF PhasesTile, PhasesOf, packets, episodes, phases, runs
<1> QED  BY <1>1, CaptureInvariant, PTL

-----------------------------------------------------------------------------
(* The round trip *)

\* In ascending order.
Ascending(s) == \A i, j \in 1..Len(s) : i <= j => s[i] <= s[j]

\* The sort of numbers.
LEMMA NumbersSorted ==
    ASSUME NEW s \in Seq(Nat)
    PROVE  Sorted(s, <) \in Seq(Nat) /\ Len(Sorted(s, <)) = Len(s) /\ Ascending(Sorted(s, <))
<1> DEFINE N == Len(s)
           B == {p \in Nat \X Nat : p[1] < p[2]}
           Put(rest, n) == LET at == n - Cardinality({k \in 1..(n - 1) : s[n] < rest[k]})
                           IN  SubSeq(rest, 1, at - 1) \o <<s[n]>> \o SubSeq(rest, at, n - 1)
           Is(g) == g = [n \in 0..N |-> IF n = 0 THEN << >> ELSE Put(g[n - 1], n)]
<1>1. N \in Nat /\ N \in 0..N /\ \A i \in 1..N : s[i] \in Nat /\ i \in 0..N /\ i # 0 /\ i - 1 \in 0..N
  OBVIOUS
<1>2. Sorted(s, <) = (CHOOSE g : Is(g))[N]
  BY DEF Sorted
<1>3. \A x, y \in Nat : <<x, y>> \in B <=> x < y
  OBVIOUS
<1>4. OrderOn(B, Nat)
  <2> HIDE DEF B
  <2> QED  BY <1>3 DEF OrderOn
<1> HIDE DEF B
<1>5. PICK g : /\ SortSteps(g, s, B) /\ DOMAIN g = 0..N /\ g[0] = << >>
               /\ \A n \in 0..N : SortOf(g[n], s, n, Nat, B)
  BY <1>4, SortExists
<1>6. ASSUME NEW n \in 1..N PROVE g[n] = Put(g[n - 1], n)
  <2>1. g[n] = PutIn(g[n - 1], s[n], n, B)
    BY <1>1, <1>5 DEF SortSteps
  <2> DEFINE rest == g[n - 1]
  <2>2. rest \in Seq(Nat) /\ Len(rest) = n - 1
    BY <1>1, <1>5 DEF SortOf
  <2> HIDE DEF rest
  <2>3. \A k \in 1..(n - 1) : rest[k] \in Nat
    BY <2>2
  <2>4. {k \in 1..(n - 1) : <<s[n], rest[k]>> \in B} = {k \in 1..(n - 1) : s[n] < rest[k]}
    BY <1>1, <1>3, <2>3
  <2> QED  BY <2>1, <2>4 DEF PutIn, rest
<1> HIDE DEF Put
<1>7. Is(g)
  <2> DEFINE next(n) == IF n = 0 THEN << >> ELSE Put(g[n - 1], n)
  <2>1. g = [n \in 0..N |-> g[n]]
    BY <1>5 DEF SortSteps
  <2>2. \A n \in 0..N : g[n] = next(n)
    <3>1. \A n \in 0..N : n = 0 \/ n \in 1..N
      BY <1>1
    <3> QED  BY <1>5, <1>6, <3>1
  <2> HIDE DEF next
  <2>3. g = [n \in 0..N |-> next(n)]
    BY <2>1, <2>2
  <2> QED  BY <2>3 DEF next
<1>8. ASSUME NEW h, Is(h) PROVE h[N] = g[N]
  <2> DEFINE T == {n \in 0..N : h[n] = g[n]}
  <2>0. h[0] = << >> /\ \A n \in 1..N : h[n] = Put(h[n - 1], n)
    <3>1. 0 \in 0..N
      BY <1>1
    <3> QED  BY <1>1, <1>8, <3>1
  <2>1. 0 \in T
    BY <1>1, <1>5, <2>0
  <2>2. ASSUME NEW n \in 1..N, n - 1 \in T PROVE n \in T
    BY <1>1, <1>6, <2>0, <2>2
  <2>3. \A n \in 0..N : n \in T
    <3> HIDE DEF T
    <3> QED  BY <1>1, <2>1, <2>2, UpTo
  <2> QED  BY <1>1, <2>3
<1> HIDE DEF Is
<1>9. Sorted(s, <) = g[N]
  BY <1>2, <1>7, <1>8
<1> DEFINE r == g[N]
<1>10. r \in Seq(Nat) /\ Len(r) = N /\ OrderedBy(B, r)
  BY <1>1, <1>5 DEF SortOf
<1> HIDE DEF r
<1>11. Ascending(r)
  <2>1. ASSUME NEW i \in 1..Len(r), NEW j \in 1..Len(r), i <= j PROVE r[i] <= r[j]
    <3>1. r[i] \in Nat /\ r[j] \in Nat /\ <<r[j], r[i]>> \notin B
      BY <1>10, <2>1, SMTT(40) DEF OrderedBy
    <3> QED  BY <1>3, <3>1
  <2> QED  BY <2>1 DEF Ascending
<1> QED  BY <1>9, <1>10, <1>11 DEF r

\* A weighted mean lies between its two numbers.
LEMMA Blend ==
    ASSUME NEW x \in Nat, NEW y \in Nat, NEW w \in 0..100, x <= y
    PROVE  x * (100 - w) + y * w \in 100 * x..100 * y
<1> DEFINE d == y - x
<1>1. d \in Nat /\ y = x + d /\ w \in Nat /\ 100 - w \in Nat
  OBVIOUS
<1> HIDE DEF d
<1>2. d * w \in Nat /\ d * (100 - w) \in Nat
  BY <1>1
<1>3. x * (100 - w) + y * w = 100 * x + d * w
  BY <1>1
<1>4. 100 * y = 100 * x + d * w + d * (100 - w)
  BY <1>1
<1> DEFINE a == d * w
           b == d * (100 - w)
           z == x * (100 - w) + y * w
<1>5. a \in Nat /\ b \in Nat /\ z = 100 * x + a /\ 100 * y = 100 * x + a + b
  BY <1>2, <1>3, <1>4
<1> HIDE DEF a, b, z
<1>6. z \in 100 * x..100 * y
  BY <1>1, <1>5
<1> QED  BY <1>6 DEF z

\* Where the median and the 95th percentile are looked up.
LEMMA Ranks ==
    ASSUME NEW k \in Nat
    PROVE  /\ ((2 * k + 1 - 1) * 50) \div 100 = k /\ ((2 * k + 1 - 1) * 50) % 100 = 0
           /\ (2 * k + 1 + 1) \div 2 = k + 1 /\ (2 * k + 1) \div 2 + 1 = k + 1
           /\ k # 0 => /\ ((2 * k - 1) * 50) \div 100 = k - 1 /\ ((2 * k - 1) * 50) % 100 = 50
                       /\ (2 * k + 1) \div 2 = k /\ (2 * k) \div 2 + 1 = k + 1
<1>1. (2 * k + 1 - 1) * 50 = 100 * k /\ (2 * k - 1) * 50 = 100 * (k - 1) + 50
  OBVIOUS
<1>2. (100 * k) \div 100 = k /\ (100 * k) % 100 = 0
  OBVIOUS
<1>3. (2 * k + 1 + 1) \div 2 = k + 1 /\ (2 * k + 1) \div 2 = k /\ (2 * k) \div 2 = k
  OBVIOUS
<1>4. k # 0 => (100 * (k - 1) + 50) \div 100 = k - 1 /\ (100 * (k - 1) + 50) % 100 = 50
  OBVIOUS
<1> QED  BY <1>1, <1>2, <1>3, <1>4

\* A percentile of sorted numbers: the mean of two of them, at places that
\* exist, so between the lower of the two and the last.
LEMMA PercentileIs ==
    ASSUME NEW v \in Seq(Nat), NEW n \in Nat \ {0}, Len(v) = n, Ascending(v), NEW percent \in 0..100
    PROVE  LET lower == ((n - 1) * percent) \div 100 IN
           /\ lower \in 0..(n - 1)
           /\ Percentile(v, percent) \in 100 * v[lower + 1]..100 * v[n]
<1> DEFINE position == (n - 1) * percent
           lower == position \div 100
           weight == position % 100
           upper == Least(lower + 1, n - 1)
<1>1. position \in Nat /\ position <= 100 * (n - 1)
  <2> DEFINE m == n - 1
             q == 100 - percent
  <2>1. m \in Nat /\ q \in Nat /\ percent \in Nat /\ percent = 100 - q
    OBVIOUS
  <2> HIDE DEF m, q
  <2>2. m * percent \in Nat /\ m * q \in Nat /\ m * percent = 100 * m - m * q
    BY <2>1
  <2>3. m * percent <= 100 * m
    <3> DEFINE a == m * percent
               b == m * q
    <3>1. a \in Nat /\ b \in Nat /\ a = 100 * m - b
      BY <2>2
    <3> HIDE DEF a, b
    <3>2. a <= 100 * m
      BY <2>1, <3>1
    <3> QED  BY <3>2 DEF a
  <2> QED  BY <2>2, <2>3 DEF m
<1> HIDE DEF position
<1>2. lower \in 0..(n - 1) /\ weight \in 0..100
  BY <1>1
<1>3. Percentile(v, percent) = v[lower + 1] * (100 - weight) + v[upper + 1] * weight
  BY DEF Percentile, position
<1>4. lower \in 0..(n - 1)
  BY <1>2
<1>5. weight \in 0..100
  BY <1>2
<1> HIDE DEF lower, weight
<1>6. upper \in lower..(n - 1)
  BY <1>4 DEF Least
<1> HIDE DEF upper
<1>7. lower + 1 \in 1..n /\ upper + 1 \in 1..n /\ n \in 1..n /\ lower + 1 <= upper + 1 /\ upper + 1 <= n
  BY <1>4, <1>6
<1>8. v[lower + 1] \in Nat /\ v[upper + 1] \in Nat /\ v[n] \in Nat
  BY <1>7
<1>9. v[lower + 1] <= v[upper + 1] /\ v[upper + 1] <= v[n]
  BY <1>7 DEF Ascending
<1> DEFINE x == v[lower + 1]
           y == v[upper + 1]
           z == v[n]
           b == x * (100 - weight) + y * weight
<1>10. x \in Nat /\ y \in Nat /\ z \in Nat /\ x <= y /\ y <= z
  BY <1>8, <1>9
<1> HIDE DEF x, y, z
<1>11. b \in 100 * x..100 * y
  BY <1>5, <1>10, Blend
<1> HIDE DEF b
<1>12. b \in 100 * x..100 * z
  BY <1>10, <1>11
<1>13. Percentile(v, percent) \in 100 * v[lower + 1]..100 * v[n]
  BY <1>3, <1>12 DEF b, x, y, z
<1> QED  BY <1>4, <1>13 DEF lower, position

\* The two numbers a percentile lies between.
LEMMA Between ==
    ASSUME NEW v \in Seq(Nat), NEW percent \in Nat
    PROVE  Percentile(v, percent) =
               v[((Len(v) - 1) * percent) \div 100 + 1] * (100 - (((Len(v) - 1) * percent) % 100))
               + v[Least(((Len(v) - 1) * percent) \div 100 + 1, Len(v) - 1) + 1] * (((Len(v) - 1) * percent) % 100)
<1> DEFINE position == (Len(v) - 1) * percent
           lower == position \div 100
           weight == position % 100
           upper == Least(lower + 1, Len(v) - 1)
<1> HIDE DEF position
<1>1. Percentile(v, percent) = v[lower + 1] * (100 - weight) + v[upper + 1] * weight
  BY DEF Percentile, position
<1> HIDE DEF lower, weight, upper
<1> QED  BY <1>1 DEF lower, weight, upper, position

\* The median is the middle number, or the mean of the two in the middle, and
\* the 95th percentile is not below it nor above the last.
LEMMA MedianAndTail ==
    ASSUME NEW v \in Seq(Nat), v # << >>, Ascending(v)
    PROVE  LET n == Len(v) IN
           /\ Percentile(v, 50) = 50 * (v[(n + 1) \div 2] + v[n \div 2 + 1])
           /\ Percentile(v, 95) \in Percentile(v, 50)..100 * v[n]
<1> DEFINE n == Len(v)
           low == ((n - 1) * 95) \div 100
           tail == Percentile(v, 95)
           half == Percentile(v, 50)
<1>1. n \in Nat \ {0} /\ \A i \in 1..n : v[i] \in Nat
  OBVIOUS
<1>2. low \in 0..(n - 1) /\ tail \in 100 * v[low + 1]..100 * v[n]
  <2>1. 95 \in 0..100
    OBVIOUS
  <2> QED  BY <1>1, <2>1, PercentileIs
<1>3. PICK k \in Nat : n = 2 * k + 1 \/ (k # 0 /\ n = 2 * k)
  <2>1. n \div 2 \in Nat /\ (n = 2 * (n \div 2) \/ n = 2 * (n \div 2) + 1)
    BY <1>1
  <2>2. n = 2 * (n \div 2) => n \div 2 # 0
    BY <1>1, <2>1
  <2> QED  BY <2>1, <2>2
<1>6. low \in Nat /\ low + 1 \in 1..n /\ tail \in Int /\ 100 * v[low + 1] <= tail /\ tail <= 100 * v[n]
  BY <1>1, <1>2
<1> HIDE DEF tail, half, low
<1>7. CASE n = 2 * k + 1
  <2>1. ((n - 1) * 50) \div 100 = k /\ ((n - 1) * 50) % 100 = 0 /\ (n + 1) \div 2 = k + 1 /\ n \div 2 + 1 = k + 1
    BY <1>7, Ranks
  <2>2. k + 1 \in 1..n /\ Least(k + 1, n - 1) + 1 \in 1..n
    BY <1>1, <1>7 DEF Least
  <2>3. half = v[k + 1] * (100 - 0) + v[Least(k + 1, n - 1) + 1] * 0
    <3>1. v \in Seq(Nat) /\ 50 \in Nat
      OBVIOUS
    <3> DEFINE at == (Len(v) - 1) * 50
    <3>2. at \div 100 = k /\ at % 100 = 0
      BY <2>1
    <3> HIDE DEF at
    <3>3. Percentile(v, 50) = v[at \div 100 + 1] * (100 - (at % 100))
                              + v[Least(at \div 100 + 1, Len(v) - 1) + 1] * (at % 100)
      BY <3>1, Between DEF at
    <3> QED  BY <3>2, <3>3 DEF half
  <2> DEFINE x == v[k + 1]
             y == v[Least(k + 1, n - 1) + 1]
  <2>4. x \in Nat /\ y \in Nat /\ half = x * (100 - 0) + y * 0
    BY <1>1, <2>2, <2>3
  <2> HIDE DEF x, y
  <2>5. half = 100 * x /\ half = 50 * (x + x)
    BY <2>4
  <2>6. k <= low
    BY <1>7 DEF low
  <2>7. x <= v[low + 1] /\ v[low + 1] \in Nat
    <3>1. k + 1 <= low + 1
      BY <1>6, <2>2, <2>6
    <3>2. v[k + 1] <= v[low + 1]
      BY <1>6, <2>2, <3>1 DEF Ascending
    <3> QED  BY <1>1, <1>6, <3>2 DEF x
  <2>8. half <= tail
    BY <1>6, <2>4, <2>5, <2>7
  <2>9. half \in Int
    BY <2>4, <2>5
  <2> QED  BY <1>6, <2>1, <2>5, <2>8, <2>9, <1>1 DEF x, half, tail
<1>8. CASE k # 0 /\ n = 2 * k
  <2>1. ((n - 1) * 50) \div 100 = k - 1 /\ ((n - 1) * 50) % 100 = 50 /\ (n + 1) \div 2 = k /\ n \div 2 + 1 = k + 1
    BY <1>8, Ranks
  <2>2. k \in 1..n /\ k + 1 \in 1..n /\ Least(k - 1 + 1, n - 1) + 1 = k + 1 /\ k - 1 + 1 = k
    BY <1>1, <1>8 DEF Least
  <2>3. half = v[k - 1 + 1] * (100 - 50) + v[Least(k - 1 + 1, n - 1) + 1] * 50
    <3>1. v \in Seq(Nat) /\ 50 \in Nat
      OBVIOUS
    <3> DEFINE at == (Len(v) - 1) * 50
    <3>2. at \div 100 = k - 1 /\ at % 100 = 50
      BY <2>1
    <3> HIDE DEF at
    <3>3. Percentile(v, 50) = v[at \div 100 + 1] * (100 - (at % 100))
                              + v[Least(at \div 100 + 1, Len(v) - 1) + 1] * (at % 100)
      BY <3>1, Between DEF at
    <3> QED  BY <3>2, <3>3 DEF half
  <2> DEFINE x == v[k]
             y == v[k + 1]
  <2>4. x \in Nat /\ y \in Nat /\ half = x * (100 - 50) + y * 50 /\ x <= y
    BY <1>1, <2>2, <2>3 DEF Ascending
  <2> HIDE DEF x, y
  <2>5. half = 50 * (x + y) /\ half <= 100 * y /\ half \in Int
    BY <2>4
  <2>6. half <= tail
    <3>1. CASE k = 1
      <4>1. low = 0 /\ ((n - 1) * 95) % 100 = 95 /\ Least(low + 1, n - 1) + 1 = 2
        BY <1>8, <3>1 DEF low, Least
      <4>2. tail = x * (100 - 95) + y * 95
        <5>1. tail = v[low + 1] * (100 - 95) + v[Least(low + 1, n - 1) + 1] * 95
          <6>1. v \in Seq(Nat) /\ 95 \in Nat
            OBVIOUS
          <6> DEFINE at == (Len(v) - 1) * 95
          <6>2. at \div 100 = low /\ at % 100 = 95
            BY <4>1 DEF low
          <6> HIDE DEF at
          <6>3. Percentile(v, 95) = v[at \div 100 + 1] * (100 - (at % 100))
                                    + v[Least(at \div 100 + 1, Len(v) - 1) + 1] * (at % 100)
            BY <6>1, Between DEF at
          <6> QED  BY <6>2, <6>3 DEF tail
        <5> QED  BY <3>1, <4>1, <5>1 DEF x, y
      <4> QED  BY <2>4, <2>5, <4>2
    <3>2. CASE k # 1
      <4>1. k <= low
        BY <1>8, <3>2 DEF low
      <4>2. y <= v[low + 1] /\ v[low + 1] \in Nat
        <5>1. k + 1 <= low + 1
          BY <1>6, <2>2, <4>1
        <5>2. v[k + 1] <= v[low + 1]
          BY <1>6, <2>2, <5>1 DEF Ascending
        <5> QED  BY <1>1, <1>6, <5>2 DEF y
      <4> QED  BY <1>6, <2>4, <2>5, <4>2
    <3> QED  BY <3>1, <3>2
  <2> QED  BY <1>6, <2>1, <2>5, <2>6, <1>1 DEF x, y, half, tail
<1> QED  BY <1>3, <1>7, <1>8

\* The accepted samples of a stream are numbers in ascending order.
LEMMA SamplesAscend ==
    ASSUME NEW packets \in Seq(Packet)
    PROVE  Samples(packets) \in Seq(Nat) /\ Ascending(Samples(packets))
<1> DEFINE N == Len(packets)
           s == [i \in 1..N |-> i]
           A == {i \in 1..N : SampleVerdict(packets, i) = "accepted"}
           Is(k) == k = [n \in 0..Len(s) |-> IF n = 0 THEN << >>
                            ELSE IF SampleVerdict(packets, s[n]) = "accepted" THEN Append(k[n - 1], s[n]) ELSE k[n - 1]]
           accepted == Picked(s, A)
           rtts == [k \in 1..Len(accepted) |-> packets[accepted[k]].rtt]
<1>1. N \in Nat /\ s \in Seq(1..N) /\ DOMAIN packets = 1..N /\ Len(s) = N
  OBVIOUS
<1>2. Kept(s, LAMBDA i : SampleVerdict(packets, i) = "accepted") = (CHOOSE k : Is(k))[Len(s)]
  BY DEF Kept
<1>3. \A n \in 0..Len(s) : n = 0 \/ (s[n] \in A <=> SampleVerdict(packets, s[n]) = "accepted")
  BY <1>1
<1>4. ASSUME NEW k PROVE Is(k) <=> Selects(k, s, A)
  <2> HIDE DEF A, s
  <2> QED  BY <1>3 DEF Selects
<1> HIDE DEF Is, A, s
<1>5. \A k : Is(k) => k[Len(s)] = accepted
  BY <1>1, <1>4, SelectsPicked
<1>6. Is(CHOOSE k : Is(k))
  BY <1>1, <1>4, SelectsPicked
<1>7. Kept(s, LAMBDA i : SampleVerdict(packets, i) = "accepted") = accepted
  BY <1>2, <1>5, <1>6
<1>8. accepted \in Seq(1..N)
  BY <1>1, PickedPlaces
<1> HIDE DEF accepted
<1>9. rtts \in Seq(Nat)
  <2>1. \A k \in 1..Len(accepted) : accepted[k] \in 1..N
    BY <1>8
  <2>2. \A i \in 1..N : packets[i] \in Packet
    BY <1>1
  <2>3. \A i \in 1..N : packets[i].rtt \in Nat
    BY <2>2 DEF Packet
  <2>4. Len(accepted) \in Nat
    BY <1>8
  <2> QED  BY <2>1, <2>3, <2>4
<1>10. Samples(packets) = Sorted(rtts, <)
  <2>1. DOMAIN accepted = 1..Len(accepted)
    BY <1>8
  <2>2. Samples(packets) = Sorted([k \in DOMAIN accepted |-> packets[accepted[k]].rtt], <)
    BY <1>1, <1>7 DEF Samples, s
  <2> QED  BY <2>1, <2>2
<1> HIDE DEF rtts
<1> QED  BY <1>9, <1>10, NumbersSorted

\* The packets that pass each of the tests on a handshake or a hop limit are packets.
LEMMA SynsAre ==
    ASSUME NEW g \in Seq(Packet)
    PROVE  Kept(g, LAMBDA p : p.syn /\ ~p.ackflag /\ p.direction = "out") \in Seq(Packet)
<1> DEFINE A == {p \in Packet : p.syn /\ ~p.ackflag /\ p.direction = "out"}
           Is(k) == k = [n \in 0..Len(g) |-> IF n = 0 THEN << >>
                            ELSE IF g[n].syn /\ ~g[n].ackflag /\ g[n].direction = "out"
                                 THEN Append(k[n - 1], g[n]) ELSE k[n - 1]]
<1>1. Kept(g, LAMBDA p : p.syn /\ ~p.ackflag /\ p.direction = "out") = (CHOOSE k : Is(k))[Len(g)]
  BY DEF Kept
<1>2. \A n \in 0..Len(g) : n = 0 \/ (g[n] \in A <=> g[n].syn /\ ~g[n].ackflag /\ g[n].direction = "out")
  OBVIOUS
<1>3. ASSUME NEW k PROVE Is(k) <=> Selects(k, g, A)
  <2> HIDE DEF A
  <2> QED  BY <1>2 DEF Selects
<1> HIDE DEF Is, A
<1>4. (CHOOSE k : Is(k))[Len(g)] = Picked(g, A)
  BY <1>3, SelectsPicked
<1> QED  BY <1>1, <1>4, PickedPlaces

LEMMA SynAcksAre ==
    ASSUME NEW g \in Seq(Packet)
    PROVE  Kept(g, LAMBDA p : p.syn /\ p.ackflag /\ p.direction = "in" /\ \A s \in Syn(g) : p.time > s.time)
               \in Seq(Packet)
<1> DEFINE A == {p \in Packet : p.syn /\ p.ackflag /\ p.direction = "in" /\ \A s \in Syn(g) : p.time > s.time}
           Is(k) == k = [n \in 0..Len(g) |-> IF n = 0 THEN << >>
                            ELSE IF g[n].syn /\ g[n].ackflag /\ g[n].direction = "in"
                                   /\ \A s \in Syn(g) : g[n].time > s.time
                                 THEN Append(k[n - 1], g[n]) ELSE k[n - 1]]
<1>1. Kept(g, LAMBDA p : p.syn /\ p.ackflag /\ p.direction = "in" /\ \A s \in Syn(g) : p.time > s.time)
    = (CHOOSE k : Is(k))[Len(g)]
  BY DEF Kept
<1>2. \A n \in 0..Len(g) : n = 0 \/ (g[n] \in A <=>
    g[n].syn /\ g[n].ackflag /\ g[n].direction = "in" /\ \A s \in Syn(g) : g[n].time > s.time)
  OBVIOUS
<1>3. ASSUME NEW k PROVE Is(k) <=> Selects(k, g, A)
  <2> HIDE DEF A
  <2> QED  BY <1>2 DEF Selects
<1> HIDE DEF Is, A
<1>4. (CHOOSE k : Is(k))[Len(g)] = Picked(g, A)
  BY <1>3, SelectsPicked
<1> QED  BY <1>1, <1>4, PickedPlaces

LEMMA ThirdsAre ==
    ASSUME NEW g \in Seq(Packet)
    PROVE  Kept(g, LAMBDA p : p.ackflag /\ ~p.syn /\ p.direction = "out" /\ \E s \in SynAck(g) : p.time > s.time)
               \in Seq(Packet)
<1> DEFINE A == {p \in Packet : p.ackflag /\ ~p.syn /\ p.direction = "out" /\ \E s \in SynAck(g) : p.time > s.time}
           Is(k) == k = [n \in 0..Len(g) |-> IF n = 0 THEN << >>
                            ELSE IF g[n].ackflag /\ ~g[n].syn /\ g[n].direction = "out"
                                   /\ \E s \in SynAck(g) : g[n].time > s.time
                                 THEN Append(k[n - 1], g[n]) ELSE k[n - 1]]
<1>1. Kept(g, LAMBDA p : p.ackflag /\ ~p.syn /\ p.direction = "out" /\ \E s \in SynAck(g) : p.time > s.time)
    = (CHOOSE k : Is(k))[Len(g)]
  BY DEF Kept
<1>2. \A n \in 0..Len(g) : n = 0 \/ (g[n] \in A <=>
    g[n].ackflag /\ ~g[n].syn /\ g[n].direction = "out" /\ \E s \in SynAck(g) : g[n].time > s.time)
  OBVIOUS
<1>3. ASSUME NEW k PROVE Is(k) <=> Selects(k, g, A)
  <2> HIDE DEF A
  <2> QED  BY <1>2 DEF Selects
<1> HIDE DEF Is, A
<1>4. (CHOOSE k : Is(k))[Len(g)] = Picked(g, A)
  BY <1>3, SelectsPicked
<1> QED  BY <1>1, <1>4, PickedPlaces

\* The packets of a direction that show a hop limit.
Showing(g, d) == Kept(g, LAMBDA p : p.direction = d /\ p.ttl > 0)

LEMMA HopLimitsAre ==
    ASSUME NEW g \in Seq(Packet), NEW d
    PROVE  Showing(g, d) \in Seq(Packet)
<1> DEFINE A == {p \in Packet : p.direction = d /\ p.ttl > 0}
           Is(k) == k = [n \in 0..Len(g) |-> IF n = 0 THEN << >>
                            ELSE IF g[n].direction = d /\ g[n].ttl > 0
                                 THEN Append(k[n - 1], g[n]) ELSE k[n - 1]]
<1>1. Showing(g, d) = (CHOOSE k : Is(k))[Len(g)]
  BY DEF Showing, Kept
<1>2. \A n \in 0..Len(g) : n = 0 \/ (g[n] \in A <=> g[n].direction = d /\ g[n].ttl > 0)
  OBVIOUS
<1>3. ASSUME NEW k PROVE Is(k) <=> Selects(k, g, A)
  <2> HIDE DEF A
  <2> QED  BY <1>2 DEF Selects
<1> HIDE DEF Is, A
<1>4. (CHOOSE k : Is(k))[Len(g)] = Picked(g, A)
  BY <1>3, SelectsPicked
<1> QED  BY <1>1, <1>4, PickedPlaces

\* An interval of the handshake is a number where both its packets are there.
LEMMA LegIs ==
    ASSUME NEW first \in SUBSET Packet, NEW second \in SUBSET Packet
    PROVE  Leg(first, second) \in Int \cup {Unmeasured}
<1>1. CASE first = {} \/ second = {}
  BY <1>1 DEF Leg
<1>2. CASE first # {} /\ second # {}
  <2> DEFINE p == CHOOSE x \in first : TRUE
             q == CHOOSE x \in second : TRUE
  <2>1. p \in Packet /\ q \in Packet
    BY <1>2
  <2>2. Leg(first, second) = q.time - p.time
    BY <1>2 DEF Leg
  <2> HIDE DEF p, q
  <2>3. p.time \in Nat /\ q.time \in Nat
    BY <2>1 DEF Packet
  <2> QED  BY <2>2, <2>3
<1> QED  BY <1>1, <1>2

LEMMA FirstIs ==
    ASSUME NEW S, NEW found \in Seq(S)
    PROVE  FirstOf(found) \in SUBSET S
<1>1. found # << >> => found[1] \in S
  OBVIOUS
<1> QED  BY <1>1 DEF FirstOf

\* What the position is judged by: hop limits and two intervals.
LEMMA EvidenceIs ==
    ASSUME NEW g \in Seq(Packet)
    PROVE  /\ Ttl(g, "out") \in Nat /\ Ttl(g, "in") \in Nat
           /\ Leg(Syn(g), SynAck(g)) \in Int \cup {Unmeasured}
           /\ Leg(SynAck(g), Third(g)) \in Int \cup {Unmeasured}
<1>1. Syn(g) \in SUBSET Packet
  BY SynsAre, FirstIs DEF Syn
<1>2. SynAck(g) \in SUBSET Packet
  BY SynAcksAre, FirstIs DEF SynAck
<1>3. Third(g) \in SUBSET Packet
  BY ThirdsAre, FirstIs DEF Third
<1>4. ASSUME NEW d PROVE Ttl(g, d) \in Nat
  <2> DEFINE seen == Showing(g, d)
  <2>1. seen \in Seq(Packet)
    BY HopLimitsAre
  <2>2. Ttl(g, d) = IF seen = << >> THEN 0 ELSE seen[1].ttl
    BY DEF Ttl, Showing
  <2> HIDE DEF seen
  <2>3. seen # << >> => seen[1] \in Packet
    BY <2>1
  <2>4. \A p \in Packet : p.ttl \in Nat
    BY DEF Packet
  <2> QED  BY <2>2, <2>3, <2>4
<1> QED  BY <1>1, <1>2, <1>3, <1>4, LegIs

\* With the endpoints' parts exchanged the hop limits name the other side, and
\* so do the intervals.
LEMMA HopsMirrored ==
    ASSUME NEW c \in Nat, NEW s \in Nat
    PROVE  TtlSide(s, c) = Mirrored(TtlSide(c, s)) /\ TtlSide(c, s) \in Side
<1>1. ASSUME NEW t \in Nat PROVE TtlHops(t) \in Int
  <2> DEFINE near == {i \in InitialTtl : t > 0 /\ i - t \in 0..NearHops}
  <2>1. near \in SUBSET Nat
    BY PositionConstants
  <2>2. TtlHops(t) = IF near = {} THEN -1 ELSE Min(near) - t
    BY DEF TtlHops
  <2> HIDE DEF near
  <2>3. near # {} => Min(near) \in Nat
    BY <2>1, MinIsIn
  <2> QED  BY <2>2, <2>3
<1> DEFINE h == TtlHops(c)
           k == TtlHops(s)
<1>2. h \in Int /\ k \in Int
  BY <1>1
<1>3. /\ TtlSide(c, s) = IF c = 0 \/ s = 0 \/ h = k THEN "unknown"
                         ELSE IF k = -1 \/ (h # -1 /\ h < k) THEN "client" ELSE "server"
      /\ TtlSide(s, c) = IF s = 0 \/ c = 0 \/ k = h THEN "unknown"
                         ELSE IF h = -1 \/ (k # -1 /\ k < h) THEN "client" ELSE "server"
  BY DEF TtlSide
<1> HIDE DEF h, k
<1> QED  BY <1>2, <1>3 DEF Mirrored, Side

LEMMA IntervalsMirrored ==
    ASSUME NEW l1 \in Int \cup {Unmeasured}, NEW l2 \in Int \cup {Unmeasured}
    PROVE  IntervalSide(l2, l1) = Mirrored(IntervalSide(l1, l2)) /\ IntervalSide(l1, l2) \in Side
<1>1. CASE l1 = Unmeasured \/ l2 = Unmeasured
  BY <1>1 DEF IntervalSide, Mirrored, Side
<1>2. CASE l1 # Unmeasured /\ l2 # Unmeasured
  <2>1. l1 \in Int /\ l2 \in Int
    BY <1>2
  <2>2. ~(l1 >= 3 * l2 /\ l1 > 0 /\ l2 >= 3 * l1 /\ l2 > 0)
    BY <2>1
  <2> QED  BY <1>2, <2>2 DEF IntervalSide, Mirrored, Side
<1> QED  BY <1>1, <1>2

\* What the page shows of the round trip is consistent: the 50th percentile is
\* the median, the 95th lies between it and the largest sample, and the evidence
\* for the capture's place does not favour an endpoint.
THEOREM RoundTripIsConsistent == Spec => []RttEvidenceAgrees
<1>1. CaptureInv => RttEvidenceAgrees
  <2> SUFFICES ASSUME CaptureInv PROVE RttEvidenceAgrees
    OBVIOUS
  <2> DEFINE g == group
             values == Samples(g)
             c == Ttl(g, "out")
             s == Ttl(g, "in")
             l1 == Leg(Syn(g), SynAck(g))
             l2 == Leg(SynAck(g), Third(g))
  <2>1. g \in Seq(Packet)
    BY TimedInOrder DEF InOrder
  <2>2. values \in Seq(Nat) /\ Ascending(values)
    BY <2>1, SamplesAscend
  <2>3. /\ c \in Nat /\ s \in Nat
        /\ l1 \in Int \cup {Unmeasured} /\ l2 \in Int \cup {Unmeasured}
    BY <2>1, EvidenceIs
  <2> HIDE DEF g, values, c, s, l1, l2
  <2>4. values # << >> =>
            /\ Percentile(values, 50) = 50 * (values[(Len(values) + 1) \div 2] + values[Len(values) \div 2 + 1])
            /\ Percentile(values, 95) \in Percentile(values, 50)..100 * Last(values)
    BY <2>2, MedianAndTail DEF Last
  <2>5. Position(s, c, l2, l1).side = Mirrored(Position(c, s, l1, l2).side)
    <3> DEFINE a == TtlSide(c, s)
               b == IntervalSide(l1, l2)
    <3>1. a \in Side /\ TtlSide(s, c) = Mirrored(a) /\ b \in Side /\ IntervalSide(l2, l1) = Mirrored(b)
      BY <2>3, HopsMirrored, IntervalsMirrored
    <3>2. /\ Position(c, s, l1, l2).side = IF a # "unknown" THEN a ELSE b
          /\ Position(s, c, l2, l1).side = IF TtlSide(s, c) # "unknown" THEN TtlSide(s, c) ELSE IntervalSide(l2, l1)
      BY DEF Position
    <3> HIDE DEF a, b
    <3> QED  BY <3>1, <3>2 DEF Mirrored, Side
  <2> QED  BY <2>4, <2>5 DEF RttEvidenceAgrees, g, values, c, s, l1, l2
<1> QED  BY <1>1, CaptureInvariant, PTL

-----------------------------------------------------------------------------
(* Receiver windows *)

\* Some of the packets, in the order they were captured.
LEMMA PickedTimely ==
    ASSUME NEW s, Timely(s), NEW A
    PROVE  /\ Timely(Picked(s, A))
           /\ \A p : p \in Range(Picked(s, A)) <=> p \in Range(s) /\ p \in A
<1> DEFINE r == Picked(s, A)
<1>1. s \in Seq(Packet) /\ Len(s) \in Nat
  BY DEF Timely
<1>2. r \in Seq(Packet) /\ \E pos : Picks(pos, r, s, Len(s), A)
  BY <1>1, PickedPlaces
<1> HIDE DEF r
<1>3. PICK pos : Picks(pos, r, s, Len(s), A)
  BY <1>2
<1>4. Len(r) \in Nat /\ DOMAIN r = 1..Len(r) /\ DOMAIN s = 1..Len(s)
  BY <1>1, <1>2
<1>5. \A i \in 1..Len(r) : pos[i] \in 1..Len(s) /\ r[i] = s[pos[i]] /\ s[pos[i]] \in A
  BY <1>3 DEF Picks
<1>6. \A i, j \in 1..Len(r) : i < j => pos[i] < pos[j]
  BY <1>3 DEF Picks
<1>7. ASSUME NEW i \in 1..Len(r), NEW j \in 1..Len(r), i <= j
      PROVE  r[i].time <= r[j].time /\ (i < j => r[i].frame < r[j].frame)
  <2>1. i = j \/ i < j
    BY <1>4, <1>7
  <2>2. pos[i] \in 1..Len(s) /\ pos[j] \in 1..Len(s) /\ pos[i] <= pos[j]
    BY <2>1, <1>1, <1>5, <1>6
  <2>3. r[i].time <= r[j].time
    BY <2>2, <1>5 DEF Timely
  <2>4. i < j => r[i].frame < r[j].frame
    BY <2>2, <1>5, <1>6 DEF Timely
  <2> QED  BY <2>3, <2>4
<1>8. Timely(r)
  <2>1. \A i, j \in 1..Len(r) : i < j => i <= j
    BY <1>4
  <2> QED  BY <2>1, <1>2, <1>7 DEF Timely
<1>9. ASSUME NEW p PROVE p \in Range(r) <=> p \in Range(s) /\ p \in A
  <2>1. ASSUME p \in Range(r) PROVE p \in Range(s) /\ p \in A
    BY <2>1, <1>4, <1>5 DEF Range
  <2>2. ASSUME p \in Range(s), p \in A PROVE p \in Range(r)
    <3>1. PICK m \in 1..Len(s) : p = s[m]
      BY <2>2, <1>4 DEF Range
    <3>2. PICK i \in 1..Len(r) : pos[i] = m
      BY <2>2, <3>1, <1>3 DEF Picks
    <3> QED  BY <3>1, <3>2, <1>4, <1>5 DEF Range
  <2> QED  BY <2>1, <2>2
<1> QED  BY <1>8, <1>9 DEF r

\* The packets of a direction.
Sent(d) == {p \in Packet : p.direction = d}

LEMMA FromIs ==
    ASSUME NEW s \in Seq(Packet), NEW d
    PROVE  From(s, d) = Picked(s, Sent(d))
<1> DEFINE Is(k) == k = [n \in 0..Len(s) |-> IF n = 0 THEN << >>
                            ELSE IF s[n].direction = d THEN Append(k[n - 1], s[n]) ELSE k[n - 1]]
<1>1. From(s, d) = (CHOOSE k : Is(k))[Len(s)]
  BY DEF From, Kept
<1>2. \A n \in 0..Len(s) : n = 0 \/ (s[n] \in Sent(d) <=> s[n].direction = d)
  BY DEF Sent
<1>3. ASSUME NEW k PROVE Is(k) <=> Selects(k, s, Sent(d))
  BY <1>2 DEF Selects
<1> HIDE DEF Is
<1>4. (CHOOSE k : Is(k))[Len(s)] = Picked(s, Sent(d))
  BY <1>3, SelectsPicked
<1> QED  BY <1>1, <1>4

\* The closed windows among packets that are no SYN's.
Closed == {p \in Packet : ZeroWindow(p) /\ ~p.syn}

LEMMA StallsAre ==
    ASSUME NEW packets, NEW d, NEW s, s = From(packets, d), s \in Seq(Packet)
    PROVE  Stalls(packets, d) = Picked(s, Closed)
<1> DEFINE Is(k) == k = [n \in 0..Len(s) |-> IF n = 0 THEN << >>
                            ELSE IF ZeroWindow(s[n]) /\ ~s[n].syn THEN Append(k[n - 1], s[n]) ELSE k[n - 1]]
<1>1. Stalls(packets, d) = (CHOOSE k : Is(k))[Len(s)]
  BY DEF Stalls, Kept
<1>2. \A n \in 0..Len(s) : n = 0 \/ (s[n] \in Closed <=> ZeroWindow(s[n]) /\ ~s[n].syn)
  BY DEF Closed
<1>3. ASSUME NEW k PROVE Is(k) <=> Selects(k, s, Closed)
  BY <1>2 DEF Selects
<1> HIDE DEF Is
<1>4. (CHOOSE k : Is(k))[Len(s)] = Picked(s, Closed)
  BY <1>3, SelectsPicked
<1> QED  BY <1>1, <1>4

\* What a stall waits for: the first time after it that the window is open
\* again, or None.
Reopens(r, s, time) ==
    LET open == {w \in Range(s) : w.window \notin {0, None}} IN
    \/ r = None /\ \A w \in open : w.time <= time
    \/ /\ r \in Nat /\ r > time /\ \E w \in open : w.time = r
       /\ \A w \in open : w.time > time => w.time >= r

\* What the analysis finds the window of a stall to be waiting for.
LEMMA RecoveryIs ==
    ASSUME NEW packets, NEW d, NEW time \in Nat, NEW s, s = From(packets, d),
           Timely(s), \A p \in Range(s) : p.ts = None
    PROVE  Reopens(RecoveryAfter(packets, d, time), s, time)
<1> DEFINE Test(p) == TimeOf(packets, p) > time /\ p.window # None /\ ~ZeroWindow(p)
           A == {p \in Packet : Test(p)}
           Is(k) == k = [n \in 0..Len(s) |-> IF n = 0 THEN << >>
                            ELSE IF Test(s[n]) THEN Append(k[n - 1], s[n]) ELSE k[n - 1]]
           open == Picked(s, A)
           r == RecoveryAfter(packets, d, time)
<1>0. s \in Seq(Packet)
  BY DEF Timely
<1>1. r = IF (CHOOSE k : Is(k))[Len(s)] = << >> THEN None ELSE TimeOf(packets, (CHOOSE k : Is(k))[Len(s)][1])
  BY DEF RecoveryAfter, Kept
<1>2. \A n \in 0..Len(s) : n = 0 \/ (s[n] \in A <=> Test(s[n]))
  BY <1>0
<1>3. ASSUME NEW k PROVE Is(k) <=> Selects(k, s, A)
  <2> HIDE DEF A, Test
  <2> QED  BY <1>2 DEF Selects
<1> HIDE DEF Is, A
<1>4. (CHOOSE k : Is(k))[Len(s)] = open
  BY <1>0, <1>3, SelectsPicked
<1>5. r = IF open = << >> THEN None ELSE TimeOf(packets, open[1])
  BY <1>1, <1>4
<1>6. Timely(open) /\ \A p : p \in Range(open) <=> p \in Range(s) /\ p \in A
  BY PickedTimely
<1> HIDE DEF open, r
<1>7. ASSUME NEW p \in Range(s)
      PROVE  p \in Packet /\ p.time \in Nat /\ TimeOf(packets, p) = p.time
             /\ (p \in A <=> p.time > time /\ p.window \notin {0, None})
  <2>1. p \in Packet
    BY <1>0 DEF Range
  <2>2. p.time \in Nat /\ TimeOf(packets, p) = p.time
    BY <2>1 DEF Packet, TimeOf
  <2> QED  BY <2>1, <2>2 DEF A, ZeroWindow
<1>8. CASE open = << >>
  <2>1. \A w : w \notin Range(open)
    BY <1>8 DEF Range
  <2>2. \A w \in Range(s) : w.window \notin {0, None} => w.time <= time
    BY <2>1, <1>6, <1>7
  <2> QED  BY <2>2, <1>5, <1>8 DEF Reopens, r
<1>9. CASE open # << >>
  <2> DEFINE first == open[1]
  <2>1. open \in Seq(Packet) /\ Len(open) \in Nat /\ 1 \in 1..Len(open) /\ DOMAIN open = 1..Len(open)
    BY <1>6, <1>9 DEF Timely
  <2>2. first \in Range(open)
    BY <2>1 DEF Range
  <2>3. ASSUME NEW w \in Range(open) PROVE first.time <= w.time
    <3>1. PICK i \in 1..Len(open) : w = open[i]
      BY <2>1 DEF Range
    <3>2. 1 <= i
      BY <2>1
    <3> QED  BY <2>1, <3>1, <3>2, <1>6 DEF Timely
  <2> HIDE DEF first
  <2>4. r = first.time /\ r \in Nat /\ r > time /\ first \in Range(s) /\ first.window \notin {0, None}
    BY <1>5, <1>6, <1>7, <1>9, <2>2 DEF first
  <2>5. ASSUME NEW w \in Range(s), w.window \notin {0, None}, w.time > time PROVE w.time >= r
    BY <1>6, <1>7, <2>3, <2>4, <2>5
  <2> QED  BY <2>4, <2>5 DEF Reopens, r
<1> QED  BY <1>8, <1>9

\* An episode as the analysis builds it, before it is numbered.
Episode == [direction: Direction, start: Nat, probes: Seq(Nat), recovery: Nat \cup {None}]

\* Which episode each of the first n stalls is in: it is in no other, and while
\* an episode waits for its reopening no other begins.
Owned(own, eps, s, stalls, n) ==
    /\ eps \in Seq(Episode)
    /\ own \in [1..n -> 1..Len(eps)]
    /\ \A i \in 1..n : \A k \in 1..Len(eps) : stalls[i].frame \in Range(eps[k].probes) <=> own[i] = k
    /\ \A k \in 1..Len(eps) :
        /\ \A f \in Range(eps[k].probes) : \E i \in 1..n : stalls[i].frame = f
        /\ \E i \in 1..n : eps[k].start = stalls[i].time
        /\ Reopens(eps[k].recovery, s, eps[k].start)
    /\ \A i \in 1..n :
        /\ eps[own[i]].start <= stalls[i].time
        /\ eps[own[i]].recovery = None \/ stalls[i].time < eps[own[i]].recovery
    /\ \A k, l \in 1..Len(eps) : k < l => eps[k].recovery # None /\ eps[k].recovery <= eps[l].start

LEMMA RangeAppend ==
    ASSUME NEW S, NEW q \in Seq(S), NEW x
    PROVE  \A y : y \in Range(Append(q, x)) <=> y \in Range(q) \/ y = x
<1>1. Len(q) \in Nat /\ DOMAIN q = 1..Len(q)
  OBVIOUS
<1>2. Len(Append(q, x)) = Len(q) + 1 /\ DOMAIN Append(q, x) = 1..(Len(q) + 1)
      /\ Append(q, x)[Len(q) + 1] = x /\ \A i \in 1..Len(q) : Append(q, x)[i] = q[i]
  OBVIOUS
<1> DEFINE t == Append(q, x)
<1> HIDE DEF t
<1>3. \A i \in 1..(Len(q) + 1) : i = Len(q) + 1 \/ i \in 1..Len(q)
  BY <1>1
<1>4. Len(q) + 1 \in 1..(Len(q) + 1) /\ \A i \in 1..Len(q) : i \in 1..(Len(q) + 1)
  BY <1>1
<1>5. DOMAIN t = 1..(Len(q) + 1) /\ t[Len(q) + 1] = x /\ \A i \in 1..Len(q) : t[i] = q[i]
  BY <1>2 DEF t
<1> QED  BY <1>1, <1>3, <1>4, <1>5 DEF Range, t

\* What one more stall makes of the episodes: it joins the last or begins one,
\* the M-th.
Grown(new, eps, M, f) ==
    /\ new \in Seq(Episode) /\ Len(new) = M /\ M \in Nat \ {0}
    /\ M = Len(eps) \/ M = Len(eps) + 1
    /\ \A k \in 1..(M - 1) : new[k] = eps[k]
    /\ M = Len(eps) => /\ new[M].start = eps[M].start /\ new[M].recovery = eps[M].recovery
                       /\ \A y : y \in Range(new[M].probes) <=> y \in Range(eps[M].probes) \/ y = f
    /\ M = Len(eps) + 1 => \A y : y \in Range(new[M].probes) <=> y = f

LEMMA AddStallGrows ==
    ASSUME NEW packets, NEW d \in Direction, NEW eps \in Seq(Episode), NEW p \in Packet, p.ts = None,
           RecoveryAfter(packets, d, p.time) \in Nat \cup {None}
    PROVE  LET new == AddStall(packets, d, eps, p)
               L == Len(eps)
               joins == eps # << >> /\ (eps[L].recovery = None \/ p.time < eps[L].recovery)
           IN  /\ new \in Seq(Episode)
               /\ joins => Grown(new, eps, L, p.frame)
               /\ ~joins => /\ Grown(new, eps, L + 1, p.frame)
                            /\ new[L + 1].start = p.time
                            /\ new[L + 1].recovery = RecoveryAfter(packets, d, p.time)
<1> DEFINE new == AddStall(packets, d, eps, p)
           L == Len(eps)
           joins == eps # << >> /\ (eps[L].recovery = None \/ p.time < eps[L].recovery)
           e == [direction |-> d, start |-> p.time, probes |-> <<p.frame>>,
                 recovery |-> RecoveryAfter(packets, d, p.time)]
           old == eps[L]
           longer == [old EXCEPT !.probes = Append(@, p.frame)]
<1>1. L \in Nat /\ (eps # << >> => L \in 1..L) /\ \A k \in 1..L : eps[k] \in Episode
  OBVIOUS
<1>2. p.time \in Nat /\ p.frame \in Nat /\ TimeOf(packets, p) = p.time
  BY DEF Packet, TimeOf
<1>3. e \in Episode /\ e.start = p.time /\ e.recovery = RecoveryAfter(packets, d, p.time) /\ e.probes = <<p.frame>>
  <2>1. <<p.frame>> \in Seq(Nat)
    BY <1>2
  <2> QED  BY <1>2, <2>1 DEF Episode
<1>4. new = IF joins THEN Append(Front(eps), longer) ELSE Append(eps, e)
  BY <1>2 DEF AddStall, Last
<1> HIDE DEF e, new, joins
<1>5. CASE joins
  <2>1. eps # << >> /\ L \in 1..L /\ L # 0 /\ old \in Episode
    BY <1>1, <1>5 DEF joins
  <2>2. old.probes \in Seq(Nat) /\ old.start \in Nat /\ old.recovery \in Nat \cup {None} /\ old.direction \in Direction
    BY <2>1 DEF Episode
  <2>3. Append(old.probes, p.frame) \in Seq(Nat)
    BY <1>2, <2>2
  <2>4. longer \in Episode /\ longer.start = old.start /\ longer.recovery = old.recovery
        /\ longer.probes = Append(old.probes, p.frame)
    <3> HIDE DEF old
    <3>1. old = [direction |-> old.direction, start |-> old.start, probes |-> old.probes, recovery |-> old.recovery]
      BY <2>1 DEF Episode
    <3> QED  BY <2>1, <2>2, <2>3, <3>1 DEF Episode
  <2>5. \A y : y \in Range(longer.probes) <=> y \in Range(old.probes) \/ y = p.frame
    BY <2>2, <2>4, RangeAppend
  <2> DEFINE front == Front(eps)
  <2>6. front \in Seq(Episode) /\ Len(front) = L - 1 /\ \A k \in 1..(L - 1) : front[k] = eps[k]
    BY <2>1, FrontOf
  <2> HIDE DEF front, longer
  <2>7. /\ Append(front, longer) \in Seq(Episode) /\ Len(Append(front, longer)) = L
        /\ Append(front, longer)[L] = longer /\ \A k \in 1..(L - 1) : Append(front, longer)[k] = eps[k]
    <3>1. L - 1 \in Nat /\ L - 1 + 1 = L
      BY <1>1, <2>1
    <3> HIDE DEF L
    <3> QED  BY <2>4, <2>6, <3>1
  <2>8. new = Append(front, longer)
    BY <1>4, <1>5 DEF front
  <2>9. Grown(new, eps, L, p.frame)
    <3>1. L # L + 1 /\ L \in Nat \ {0} /\ L = Len(eps)
      BY <1>1, <2>1
    <3>2. new \in Seq(Episode) /\ Len(new) = L /\ new[L] = longer /\ \A k \in 1..(L - 1) : new[k] = eps[k]
      BY <2>7, <2>8
    <3>3. /\ new[L].start = eps[L].start /\ new[L].recovery = eps[L].recovery
          /\ \A y : y \in Range(new[L].probes) <=> y \in Range(eps[L].probes) \/ y = p.frame
      BY <2>4, <2>5, <3>2
    <3> HIDE DEF L
    <3> QED  BY <3>1, <3>2, <3>3 DEF Grown
  <2> QED  BY <1>5, <2>7, <2>8, <2>9 DEF new, joins
<1>6. CASE ~joins
  <2>1. /\ Append(eps, e) \in Seq(Episode) /\ Len(Append(eps, e)) = L + 1
        /\ Append(eps, e)[L + 1] = e /\ \A k \in 1..L : Append(eps, e)[k] = eps[k]
    BY <1>1, <1>3
  <2>2. new = Append(eps, e)
    BY <1>4, <1>6
  <2>3. \A y : y \in Range(e.probes) <=> y = p.frame
    <3>1. Range(<<p.frame>>) = {p.frame}
      BY DEF Range
    <3> QED  BY <1>3, <3>1
  <2>4. Grown(new, eps, L + 1, p.frame)
    <3>1. L \in Nat /\ L + 1 \in Nat \ {0} /\ L + 1 # L /\ L + 1 - 1 = L
      BY <1>1
    <3>2. new \in Seq(Episode) /\ Len(new) = L + 1 /\ new[L + 1] = e /\ \A k \in 1..L : new[k] = eps[k]
      BY <2>1, <2>2
    <3>3. \A y : y \in Range(new[L + 1].probes) <=> y = p.frame
      BY <2>3, <3>2
    <3> DEFINE M == L + 1
    <3>4. L = Len(eps) /\ M \in Nat \ {0} /\ M - 1 = L
      <4>1. L = Len(eps)
        OBVIOUS
      <4>2. M \in Nat \ {0}
        BY <3>1
      <4>3. M - 1 = L
        BY <1>1
      <4> QED  BY <4>1, <4>2, <4>3
    <3> HIDE DEF L, M
    <3>5. /\ new \in Seq(Episode) /\ Len(new) = M /\ \A k \in 1..L : new[k] = eps[k]
          /\ \A y : y \in Range(new[M].probes) <=> y = p.frame
      BY <3>2, <3>3 DEF M
    <3>6. Grown(new, eps, M, p.frame)
      <4>1. M = Len(eps) + 1 /\ M # Len(eps)
        BY <3>1, <3>4 DEF M
      <4> QED  BY <3>4, <3>5, <4>1 DEF Grown
    <3> QED  BY <3>6 DEF M
  <2> QED  BY <1>3, <1>6, <2>1, <2>2, <2>4 DEF new, joins
<1> QED  BY <1>5, <1>6

\* One more stall leaves every stall in one episode.
LEMMA OwnedGrows ==
    ASSUME NEW s, NEW stalls, Timely(stalls), NEW n \in 1..Len(stalls), NEW eps, NEW new, NEW M, NEW own,
           Owned(own, eps, s, stalls, n - 1), Grown(new, eps, M, stalls[n].frame),
           M = Len(eps) => eps[M].recovery = None \/ stalls[n].time < eps[M].recovery,
           M = Len(eps) + 1 => /\ new[M].start = stalls[n].time /\ Reopens(new[M].recovery, s, stalls[n].time)
                               /\ Len(eps) # 0 => /\ eps[Len(eps)].recovery # None
                                                  /\ eps[Len(eps)].recovery <= stalls[n].time
    PROVE  \E o : Owned(o, new, s, stalls, n)
<1> DEFINE L == Len(eps)
           o == [i \in 1..n |-> IF i = n THEN M ELSE own[i]]
           t == stalls[n].time
           f == stalls[n].frame
<1>1. /\ n \in Nat /\ n # 0 /\ n \in 1..n /\ \A i \in 1..(n - 1) : i \in 1..n /\ i # n /\ i < n /\ i <= n
      /\ \A i \in 1..n : i = n \/ i \in 1..(n - 1)
      /\ \A i \in 1..n : i \in 1..Len(stalls)
  <2>1. Len(stalls) \in Nat
    BY DEF Timely
  <2> QED  BY <2>1
<1>2. /\ eps \in Seq(Episode) /\ L \in Nat /\ new \in Seq(Episode) /\ Len(new) = M /\ M \in Nat \ {0}
      /\ M = L \/ M = L + 1
      /\ \A k \in 1..(M - 1) : new[k] = eps[k]
  BY DEF Owned, Grown
<1>3. \A i \in 1..n : stalls[i].time \in Nat /\ stalls[i].frame \in Nat
  <2>1. \A i \in 1..n : stalls[i] \in Packet
    BY <1>1 DEF Timely
  <2> QED  BY <2>1 DEF Packet
<1>4. \A i \in 1..(n - 1) : stalls[i].time <= t /\ stalls[i].frame # f
  <2>1. ASSUME NEW i \in 1..(n - 1) PROVE stalls[i].time <= t /\ stalls[i].frame # f
    <3>1. i \in 1..Len(stalls) /\ i <= n /\ i < n
      BY <1>1
    <3>2. stalls[i].time <= t /\ stalls[i].frame < f
      BY <3>1 DEF Timely
    <3> QED  BY <3>2, <1>1, <1>3
  <2> QED  BY <2>1
<1>5. /\ L <= M /\ \A k \in 1..M : k = M \/ k \in 1..(M - 1)
      /\ \A k \in 1..(M - 1) : k \in 1..L /\ k # M /\ k \in 1..M
      /\ M \in 1..M /\ (M = L => M \in 1..L) /\ (L # 0 => L \in 1..L)
      /\ \A k \in 1..L : k \in 1..M
  BY <1>2
<1>6. \A k \in 1..M : /\ new[k].start \in Nat /\ new[k].recovery \in Nat \cup {None}
  <2>1. \A k \in 1..M : new[k] \in Episode
    BY <1>2
  <2> QED  BY <2>1 DEF Episode
<1>6a. \A k \in 1..L : eps[k].start \in Nat /\ eps[k].recovery \in Nat \cup {None}
  <2>1. \A k \in 1..L : eps[k] \in Episode
    BY <1>2
  <2> QED  BY <2>1 DEF Episode
<1>7. /\ own \in [1..(n - 1) -> 1..L]
      /\ \A i \in 1..(n - 1) : \A k \in 1..L : stalls[i].frame \in Range(eps[k].probes) <=> own[i] = k
      /\ \A k \in 1..L :
          /\ \A y \in Range(eps[k].probes) : \E i \in 1..(n - 1) : stalls[i].frame = y
          /\ \E i \in 1..(n - 1) : eps[k].start = stalls[i].time
          /\ Reopens(eps[k].recovery, s, eps[k].start)
      /\ \A i \in 1..(n - 1) :
          /\ eps[own[i]].start <= stalls[i].time
          /\ eps[own[i]].recovery = None \/ stalls[i].time < eps[own[i]].recovery
      /\ \A k, l \in 1..L : k < l => eps[k].recovery # None /\ eps[k].recovery <= eps[l].start
  BY DEF Owned
<1> HIDE DEF L
<1>8. /\ \A k \in 1..L : new[k].start = eps[k].start /\ new[k].recovery = eps[k].recovery
      /\ M = L => \A y : y \in Range(new[M].probes) <=> y \in Range(eps[M].probes) \/ y = f
      /\ M = L + 1 => \A y : y \in Range(new[M].probes) <=> y = f
      /\ \A k \in 1..(M - 1) : new[k] = eps[k]
  <2>1. /\ M = L => /\ new[M].start = eps[M].start /\ new[M].recovery = eps[M].recovery
                    /\ \A y : y \in Range(new[M].probes) <=> y \in Range(eps[M].probes) \/ y = f
        /\ M = L + 1 => \A y : y \in Range(new[M].probes) <=> y = f
    BY DEF Grown, L
  <2>2. \A k \in 1..L : k \in 1..(M - 1) \/ (k = M /\ M = L)
    BY <1>2
  <2> QED  BY <2>1, <2>2, <1>2
<1>9. o \in [1..n -> 1..M] /\ o[n] = M /\ \A i \in 1..(n - 1) : o[i] = own[i] /\ own[i] \in 1..L
  BY <1>1, <1>5, <1>7
<1> HIDE DEF o, f, t
<1>10. ASSUME NEW i \in 1..n, NEW k \in 1..M PROVE stalls[i].frame \in Range(new[k].probes) <=> o[i] = k
  <2>1. CASE i = n /\ k = M
    BY <2>1, <1>2, <1>8, <1>9 DEF f
  <2>2. CASE i = n /\ k \in 1..(M - 1)
    <3>1. ASSUME f \in Range(eps[k].probes) PROVE FALSE
      BY <3>1, <2>2, <1>4, <1>5, <1>7
    <3> QED  BY <3>1, <2>2, <1>5, <1>8, <1>9 DEF f
  <2>3. CASE i \in 1..(n - 1) /\ k \in 1..(M - 1)
    BY <2>3, <1>5, <1>7, <1>8, <1>9, ZenonT(60)
  <2>4. CASE i \in 1..(n - 1) /\ k = M /\ M = L
    <3>1. M \in 1..L /\ stalls[i].frame # f
      BY <2>4, <1>4, <1>5
    <3>2. stalls[i].frame \in Range(new[M].probes) <=> stalls[i].frame \in Range(eps[M].probes)
      BY <3>1, <2>4, <1>8
    <3> QED  BY <3>1, <3>2, <2>4, <1>7, <1>9
  <2>5. CASE i \in 1..(n - 1) /\ k = M /\ M = L + 1
    <3>1. stalls[i].frame \notin Range(new[M].probes)
      <4>1. \A y : y \in Range(new[M].probes) <=> y = f
        BY <2>5, <1>8
      <4>2. stalls[i].frame # f
        BY <2>5, <1>4
      <4> QED  BY <4>1, <4>2
    <3>2. o[i] \in 1..L /\ M \notin 1..L
      <4>1. o[i] \in 1..L
        BY <2>5, <1>9
      <4>2. M \notin 1..L
        <5>1. L \in Nat /\ M = L + 1
          BY <2>5, <1>2
        <5> QED  BY <5>1
      <4> QED  BY <4>1, <4>2
    <3> QED  BY <3>1, <3>2, <2>5
  <2> QED  BY <1>1, <1>2, <1>5, <2>1, <2>2, <2>3, <2>4, <2>5
<1>11. ASSUME NEW k \in 1..M
       PROVE  /\ \A y \in Range(new[k].probes) : \E i \in 1..n : stalls[i].frame = y
              /\ \E i \in 1..n : new[k].start = stalls[i].time
              /\ Reopens(new[k].recovery, s, new[k].start)
  <2>1. CASE k \in 1..L
    <3>1. /\ \E i \in 1..n : new[k].start = stalls[i].time
          /\ Reopens(new[k].recovery, s, new[k].start)
      BY <2>1, <1>1, <1>7, <1>8
    <3>2. ASSUME NEW y \in Range(new[k].probes) PROVE \E i \in 1..n : stalls[i].frame = y
      <4>1. y \in Range(eps[k].probes) \/ y = f
        <5>1. CASE k = M
          <6>1. M = L
            BY <2>1, <5>1, <1>2
          <6>2. y \in Range(new[M].probes) <=> y \in Range(eps[M].probes) \/ y = f
            BY <6>1, <1>8
          <6> QED  BY <5>1, <6>2
        <5>2. CASE k \in 1..(M - 1)
          BY <5>2, <1>8
        <5> QED  BY <5>1, <5>2, <1>5
      <4> QED  BY <4>1, <2>1, <1>1, <1>7 DEF f
    <3> QED  BY <3>1, <3>2
  <2>2. CASE k = M /\ M = L + 1
    <3>1. new[M].start = t /\ Reopens(new[M].recovery, s, t)
      BY <2>2 DEF L, t
    <3>2. \A y \in Range(new[M].probes) : y = f
      BY <2>2, <1>8
    <3> QED  BY <3>1, <3>2, <2>2, <1>1 DEF t, f
  <2> QED  BY <1>2, <1>5, <2>1, <2>2
<1>12. ASSUME NEW i \in 1..n
       PROVE  /\ new[o[i]].start <= stalls[i].time
              /\ new[o[i]].recovery = None \/ stalls[i].time < new[o[i]].recovery
  <2>1. CASE i \in 1..(n - 1)
    <3> DEFINE k == own[i]
    <3>1. k \in 1..L /\ o[i] = k
      BY <2>1, <1>9
    <3>2. eps[k].start <= stalls[i].time /\ (eps[k].recovery = None \/ stalls[i].time < eps[k].recovery)
      BY <2>1, <1>7
    <3> HIDE DEF k
    <3>3. new[k].start = eps[k].start /\ new[k].recovery = eps[k].recovery
      BY <3>1, <1>8
    <3> QED  BY <3>1, <3>2, <3>3
  <2>2. CASE i = n /\ M = L
    <3>1. PICK j \in 1..(n - 1) : eps[M].start = stalls[j].time
      BY <2>2, <1>5, <1>7
    <3>2. new[M].start <= t
      BY <3>1, <2>2, <1>4, <1>5, <1>8
    <3>3. new[M].recovery = None \/ t < new[M].recovery
      BY <2>2, <1>5, <1>8 DEF L, t
    <3> QED  BY <3>2, <3>3, <2>2, <1>9 DEF t
  <2>3. CASE i = n /\ M = L + 1
    <3>1. new[M].start = t /\ Reopens(new[M].recovery, s, t) /\ t \in Nat
      BY <2>3, <1>1, <1>3 DEF L, t
    <3>2. new[M].recovery = None \/ (new[M].recovery \in Nat /\ new[M].recovery > t)
      BY <3>1 DEF Reopens
    <3> QED  BY <3>1, <3>2, <2>3, <1>9 DEF t
  <2> QED  BY <1>1, <1>2, <2>1, <2>2, <2>3
<1>13. ASSUME NEW k \in 1..M, NEW l \in 1..M, k < l
       PROVE  new[k].recovery # None /\ new[k].recovery <= new[l].start
  <2>1. k \in 1..(M - 1) /\ k \in 1..L
    BY <1>2, <1>5, <1>13
  <2>2. CASE l \in 1..L
    BY <2>1, <2>2, <1>7, <1>8, <1>13
  <2>3. CASE l = M /\ M = L + 1
    <3>1. L \in 1..L /\ new[M].start = t /\ eps[L].recovery # None /\ eps[L].recovery <= t
      <4>1. L # 0
        BY <2>1, <1>2
      <4> QED  BY <4>1, <2>3, <1>5 DEF L, t
    <3>2. CASE k = L
      BY <3>1, <3>2, <2>3, <1>8
    <3>3. CASE k # L
      <4>1. k < L
        BY <3>3, <2>1, <1>2
      <4>2. eps[k].recovery # None /\ eps[k].recovery <= eps[L].start
        BY <4>1, <3>1, <2>1, <1>7
      <4>3. PICK j \in 1..(n - 1) : eps[L].start = stalls[j].time
        BY <3>1, <1>7
      <4>4. eps[L].start <= t /\ eps[L].start \in Nat /\ t \in Nat /\ eps[k].recovery \in Nat
        BY <4>2, <4>3, <3>1, <2>1, <1>1, <1>3, <1>4, <1>6a DEF t
      <4>5. eps[k].recovery <= t
        BY <4>2, <4>4
      <4> QED  BY <4>2, <4>5, <3>1, <2>1, <2>3, <1>8
    <3> QED  BY <3>2, <3>3
  <2> QED  BY <1>2, <1>5, <2>2, <2>3
<1>14. Owned(o, new, s, stalls, n)
  <2>1. new \in Seq(Episode) /\ Len(new) = M
    BY <1>2
  <2> QED  BY <2>1, <1>9, <1>10, <1>11, <1>12, <1>13 DEF Owned
<1> QED  BY <1>14

\* So every stall is in one of the episodes the analysis ends with.
LEMMA EpisodesOwned ==
    ASSUME NEW packets, NEW d \in Direction, NEW s, s = From(packets, d), Timely(s),
           \A p \in Range(s) : p.ts = None
    PROVE  \E own : Owned(own, Episodes(packets, d), s, Stalls(packets, d), Len(Stalls(packets, d)))
<1> DEFINE stalls == Stalls(packets, d)
           N == Len(stalls)
           Eps == Seq(Episode)
           step == [i \in 1..N |-> [r \in Eps |-> AddStall(packets, d, r, stalls[i])]]
           Is(it) == it = [c \in SUBSET (DOMAIN stalls) |->
                        IF c = {} THEN << >>
                        ELSE LET x == Max(c) IN AddStall(packets, d, it[c \ {x}], stalls[x])]
<1>1. Timely(stalls) /\ \A p : p \in Range(stalls) => p \in Range(s)
  <2>1. s \in Seq(Packet)
    BY DEF Timely
  <2>2. stalls = Picked(s, Closed)
    BY <2>1, StallsAre
  <2> HIDE DEF stalls
  <2> QED  BY <2>2, PickedTimely
<1>2. Episodes(packets, d) = (CHOOSE it : Is(it))[DOMAIN stalls]
  <2>1. ByTime(stalls) = stalls
    <3> HIDE DEF stalls
    <3> QED  BY <1>1, TimelySorted
  <2> QED  BY <2>1 DEF Episodes, FoldLeft, MapThenFoldSet
<1> HIDE DEF stalls
<1>3. N \in Nat /\ DOMAIN stalls = 1..N /\ \A i \in 1..N : stalls[i] \in Packet /\ stalls[i].ts = None
  <2>1. N \in Nat /\ DOMAIN stalls = 1..N /\ \A i \in 1..N : stalls[i] \in Packet
    BY <1>1 DEF Timely
  <2>2. \A i \in 1..N : stalls[i] \in Range(s)
    BY <1>1, <2>1 DEF Range
  <2> QED  BY <2>1, <2>2
<1>4. ASSUME NEW i \in 1..N
      PROVE  /\ stalls[i].time \in Nat
             /\ RecoveryAfter(packets, d, stalls[i].time) \in Nat \cup {None}
             /\ Reopens(RecoveryAfter(packets, d, stalls[i].time), s, stalls[i].time)
  <2>1. stalls[i] \in Packet
    BY <1>3
  <2>2. stalls[i].time \in Nat
    BY <2>1 DEF Packet
  <2>3. Reopens(RecoveryAfter(packets, d, stalls[i].time), s, stalls[i].time)
    BY <2>2, RecoveryIs
  <2>4. RecoveryAfter(packets, d, stalls[i].time) \in Nat \cup {None}
    BY <2>3 DEF Reopens
  <2> QED  BY <2>2, <2>3, <2>4
<1>5. ASSUME NEW r \in Eps, NEW i \in 1..N PROVE AddStall(packets, d, r, stalls[i]) \in Eps
  BY <1>3, <1>4, AddStallGrows
<1>6. step \in [1..N -> [Eps -> Eps]]
  BY <1>3, <1>5
<1>7. << >> \in Eps
  OBVIOUS
<1> HIDE DEF step, Eps
<1>8. PICK iter : FoldsOver(iter, N, Eps, << >>, step)
  BY <1>3, <1>6, <1>7, FoldExists
<1>9. Is(iter)
  <2> DEFINE next(c) == IF c = {} THEN << >>
                 ELSE LET x == Max(c) IN AddStall(packets, d, iter[c \ {x}], stalls[x])
  <2>1. ASSUME NEW c \in SUBSET (1..N) PROVE iter[c] = next(c)
    <3>1. CASE c = {}
      BY <1>8, <3>1 DEF FoldsOver
    <3>2. CASE c # {}
      <4> DEFINE x == Max(c)
      <4>1. x \in 1..N
        BY <1>3, <3>2, MaxIsIn
      <4>2. c \ {x} \in SUBSET (1..N)
        OBVIOUS
      <4>3. iter[c \ {x}] \in Eps /\ iter[c] = step[x][iter[c \ {x}]]
        BY <1>8, <3>2, <4>2 DEF FoldsOver
      <4> HIDE DEF x
      <4>4. iter[c] = AddStall(packets, d, iter[c \ {x}], stalls[x])
        BY <4>1, <4>3 DEF step
      <4> QED  BY <3>2, <4>4 DEF x
    <3> QED  BY <3>1, <3>2
  <2>2. iter = [c \in SUBSET (1..N) |-> next(c)]
    <3> HIDE DEF next
    <3> QED  BY <1>8, <2>1 DEF FoldsOver
  <2> QED  BY <1>3, <2>2
<1>10. ASSUME NEW it, Is(it)
       PROVE  /\ it[1..0] = << >>
              /\ \A n \in 1..N : it[1..n] = AddStall(packets, d, it[1..(n - 1)], stalls[n])
  <2>1. it[1..0] = << >>
    <3>1. 1..0 = {} /\ {} \in SUBSET (1..N)
      OBVIOUS
    <3> QED  BY <1>3, <1>10, <3>1
  <2>2. ASSUME NEW n \in 1..N PROVE it[1..n] = AddStall(packets, d, it[1..(n - 1)], stalls[n])
    <3>1. n \in Nat /\ n # 0 /\ 1..n \in SUBSET (1..N)
      BY <1>3
    <3>2. 1..n # {} /\ Max(1..n) = n /\ (1..n) \ {n} = 1..(n - 1)
      BY <3>1, TopIndex
    <3>3. it[1..n] = IF 1..n = {} THEN << >>
                        ELSE AddStall(packets, d, it[(1..n) \ {Max(1..n)}], stalls[Max(1..n)])
      BY <1>3, <1>10, <3>1
    <3> QED  BY <3>2, <3>3
  <2> QED  BY <2>1, <2>2
<1> HIDE DEF Is
<1>11. PICK it : Is(it) /\ Episodes(packets, d) = it[1..N]
  BY <1>2, <1>3, <1>9
<1> DEFINE T == {n \in 0..N : \E own : Owned(own, it[1..n], s, stalls, n)}
<1>12. 0 \in T
  <2>1. it[1..0] = << >> /\ Len(<< >>) = 0 /\ 1..0 = {} /\ 0 \in 0..N
    BY <1>3, <1>10, <1>11
  <2>2. Owned([k \in 1..0 |-> 0], << >>, s, stalls, 0)
    <3>1. [k \in 1..0 |-> 0] \in [1..0 -> 1..0] /\ << >> \in Seq(Episode)
      BY <2>1
    <3> QED  BY <2>1, <3>1 DEF Owned
  <2> QED  BY <2>1, <2>2
<1>13. ASSUME NEW n \in 1..N, n - 1 \in T PROVE n \in T
  <2> DEFINE eps == it[1..(n - 1)]
             new == AddStall(packets, d, eps, stalls[n])
             L == Len(eps)
             joins == eps # << >> /\ (eps[L].recovery = None \/ stalls[n].time < eps[L].recovery)
  <2>1. PICK own : Owned(own, eps, s, stalls, n - 1)
    BY <1>13
  <2>2. n \in 1..Len(stalls) /\ n \in 0..N /\ eps \in Seq(Episode) /\ it[1..n] = new /\ L \in Nat
    BY <1>3, <1>10, <1>11, <2>1 DEF Owned
  <2> HIDE DEF eps
  <2>3. /\ joins => Grown(new, eps, L, stalls[n].frame)
        /\ ~joins => /\ Grown(new, eps, L + 1, stalls[n].frame)
                     /\ new[L + 1].start = stalls[n].time
                     /\ new[L + 1].recovery = RecoveryAfter(packets, d, stalls[n].time)
    BY <1>3, <1>4, <2>2, AddStallGrows
  <2> HIDE DEF new
  <2>4. CASE joins
    <3>1. L # L + 1 /\ Grown(new, eps, L, stalls[n].frame)
          /\ (eps[L].recovery = None \/ stalls[n].time < eps[L].recovery)
      BY <2>2, <2>3, <2>4
    <3>2. \E o : Owned(o, new, s, stalls, n)
      BY <1>1, <2>1, <2>2, <3>1, OwnedGrows
    <3> QED  BY <2>2, <3>2
  <2>5. CASE ~joins
    <3>1. L # 0 => eps[L].recovery # None /\ eps[L].recovery <= stalls[n].time
      <4>1. ASSUME L # 0 PROVE eps[L].recovery \in Nat \cup {None} /\ eps # << >>
        <5>1. L \in 1..L
          BY <2>2, <4>1
        <5>2. eps[L] \in Episode
          BY <2>2, <5>1
        <5> QED  BY <4>1, <5>2 DEF Episode
      <4> QED  BY <2>5, <4>1, <1>4
    <3>2. /\ L + 1 # L /\ Grown(new, eps, L + 1, stalls[n].frame)
          /\ new[L + 1].start = stalls[n].time
          /\ Reopens(new[L + 1].recovery, s, stalls[n].time)
      BY <1>4, <2>2, <2>3, <2>5
    <3>3. \E o : Owned(o, new, s, stalls, n)
      BY <1>1, <2>1, <2>2, <3>1, <3>2, OwnedGrows
    <3> QED  BY <2>2, <3>3
  <2> QED  BY <2>4, <2>5
<1>14. \A n \in 0..N : n \in T
  <2> HIDE DEF T, N
  <2> QED  BY <1>3, <1>12, <1>13, UpTo
<1>15. N \in T
  BY <1>3, <1>14
<1> QED  BY <1>11, <1>15 DEF stalls

\* The packets whose window the history shows.
Opened == {p \in Packet : p.window \notin {None, 0}}

\* The points of the history are the packets whose window is known and open.
LEMMA HistoryIs ==
    ASSUME NEW packets, Timely(packets)
    PROVE  LET points == WindowHistory(packets)
               shown == Picked(packets, Opened)
           IN  DOMAIN points = DOMAIN shown /\ \A i \in DOMAIN shown : points[i].frame = shown[i].frame
<1> DEFINE points == WindowHistory(packets)
           shown == Picked(packets, Opened)
           Is(k) == k = [n \in 0..Len(packets) |-> IF n = 0 THEN << >>
                            ELSE IF packets[n].window \notin {None, 0}
                                 THEN Append(k[n - 1], packets[n]) ELSE k[n - 1]]
           kept == (CHOOSE k : Is(k))[Len(packets)]
           point(p) == LET shift == WindowScale(packets, p.direction) IN
               [frame |-> p.frame, direction |-> p.direction, raw |-> p.window,
                scaled |-> IF shift = None \/ p.syn THEN None ELSE p.window * 2^shift]
<1>1. packets \in Seq(Packet)
  BY DEF Timely
<1>2. \A n \in 0..Len(packets) : n = 0 \/ (packets[n] \in Opened <=> packets[n].window \notin {None, 0})
  BY <1>1 DEF Opened
<1>3. ASSUME NEW k PROVE Is(k) <=> Selects(k, packets, Opened)
  BY <1>2 DEF Selects
<1>4. points = [i \in DOMAIN kept |-> point(kept[i])]
  BY DEF WindowHistory, Kept
<1> HIDE DEF Is
<1>5. kept = shown
  BY <1>1, <1>3, SelectsPicked
<1> HIDE DEF kept, shown, points
<1>6. ASSUME NEW p PROVE point(p).frame = p.frame
  OBVIOUS
<1> HIDE DEF point
<1> QED  BY <1>4, <1>5, <1>6 DEF points, shown

\* What is taken for the analyses differs from what was captured in the clock alone.
LEMMA GroupIsTimed ==
    ASSUME CaptureInv
    PROVE  /\ Len(group) = Len(timed)
           /\ \A i \in 1..Len(group) : group[i].window = timed[i].window /\ group[i].time = timed[i].time
<1>1. InOrder(timed) /\ InOrder(group)
  BY TimedInOrder
<1>2. group = [i \in DOMAIN capture |-> [timed[i] EXCEPT !.ts = None]] /\ DOMAIN timed = DOMAIN capture
  BY DEF group, Group, timed, Timed
<1>3. DOMAIN group = 1..Len(group) /\ DOMAIN timed = 1..Len(timed) /\ Len(group) \in Nat /\ Len(timed) \in Nat
      /\ \A i \in 1..Len(timed) : timed[i] \in Packet
  BY <1>1, PacketsTyped
<1> DEFINE g == group
           t == timed
<1> HIDE DEF g, t
<1>4. Len(g) = Len(t)
  <2>1. 1..Len(g) = 1..Len(t) /\ Len(g) \in Nat /\ Len(t) \in Nat
    BY <1>2, <1>3 DEF g, t
  <2> QED  BY <2>1
<1>5. ASSUME NEW i \in 1..Len(g) PROVE g[i].window = t[i].window /\ g[i].time = t[i].time
  <2>1. t[i] \in Packet /\ g[i] = [t[i] EXCEPT !.ts = None]
    BY <1>2, <1>3, <1>4 DEF g, t
  <2> QED  BY <2>1 DEF Packet
<1> QED  BY <1>4, <1>5 DEF g, t

\* Every closed window an endpoint advertises is in exactly one of its episodes,
\* two are in the same one exactly when the endpoint has not opened its window in
\* between, and every other window after a SYN is in the history.
THEOREM StallsHaveTheirEpisode == Spec => []EpisodesHoldStalls
<1>1. CaptureInv => EpisodesHoldStalls
  <2> SUFFICES ASSUME CaptureInv PROVE EpisodesHoldStalls
    OBVIOUS
  <2> DEFINE packets == group
             points == WindowHistory(timed)
  <2>1. InOrder(timed) /\ InOrder(packets) /\ \A p \in Range(packets) : p.ts = None
    BY TimedInOrder
  <2>2. Timely(timed) /\ Timely(packets)
    BY <2>1, InOrderIsTimely
  <2> HIDE DEF packets, points
  <2> SUFFICES ASSUME NEW d \in Direction
               PROVE  LET episodes == Episodes(packets, d)
                          with(p) == {i \in DOMAIN episodes : p.frame \in Range(episodes[i].probes)}
                          opened(p, q) == \E w \in Range(From(packets, d)) :
                                              w.window \notin {0, None} /\ w.time \in (p.time + 1)..q.time
                      IN  /\ \A p, q \in Range(Stalls(packets, d)) : p.frame <= q.frame =>
                              /\ Cardinality(with(p)) = 1
                              /\ with(p) = with(q) <=> ~opened(p, q)
                          /\ \A o \in Range(From(packets, d)) : o.window # None /\ ~o.syn =>
                              ((\E i \in DOMAIN points : points[i].frame = o.frame) <=> with(o) = {})
    BY DEF EpisodesHoldStalls, packets, points
  <2> DEFINE s == From(packets, d)
             stalls == Stalls(packets, d)
             eps == Episodes(packets, d)
             with(p) == {i \in DOMAIN eps : p.frame \in Range(eps[i].probes)}
             opened(p, q) == \E w \in Range(s) : w.window \notin {0, None} /\ w.time \in (p.time + 1)..q.time
             N == Len(stalls)
  <2>3. Timely(s) /\ (\A p : p \in Range(s) <=> p \in Range(packets) /\ p \in Sent(d))
    <3>1. packets \in Seq(Packet)
      BY <2>2 DEF Timely
    <3>2. s = Picked(packets, Sent(d))
      BY <3>1, FromIs
    <3> QED  BY <2>2, <3>2, PickedTimely
  <2>4. Timely(stalls) /\ (\A p : p \in Range(stalls) <=> p \in Range(s) /\ p \in Closed)
    <3>1. s \in Seq(Packet)
      BY <2>3 DEF Timely
    <3>2. stalls = Picked(s, Closed)
      BY <3>1, StallsAre
    <3> HIDE DEF s, stalls
    <3> QED  BY <2>3, <3>2, PickedTimely
  <2>5. PICK own : Owned(own, eps, s, stalls, N)
    <3>1. \A p \in Range(s) : p.ts = None
      BY <2>1, <2>3 DEF packets
    <3> QED  BY <2>3, <3>1, EpisodesOwned
  <2> HIDE DEF s, stalls, eps
  <2>6. /\ N \in Nat /\ DOMAIN stalls = 1..N /\ \A i \in 1..N : stalls[i] \in Packet
    BY <2>4 DEF Timely
  <2>7. \A p \in Packet : p.time \in Nat /\ p.frame \in Nat
    BY DEF Packet
  <2>8. DOMAIN eps = 1..Len(eps) /\ Len(eps) \in Nat /\ own \in [1..N -> 1..Len(eps)]
    BY <2>5 DEF Owned
  <2>9. ASSUME NEW i \in 1..N PROVE with(stalls[i]) = {own[i]}
    <3>1. \A k \in 1..Len(eps) : stalls[i].frame \in Range(eps[k].probes) <=> own[i] = k
      BY <2>5 DEF Owned
    <3>2. own[i] \in 1..Len(eps)
      BY <2>8
    <3> QED  BY <3>1, <3>2, <2>8
  <2>10. ASSUME NEW p \in Range(stalls), NEW q \in Range(stalls), p.frame <= q.frame
         PROVE  Cardinality(with(p)) = 1 /\ (with(p) = with(q) <=> ~opened(p, q))
    <3>1. PICK i \in 1..N, j \in 1..N : p = stalls[i] /\ q = stalls[j]
      BY <2>6 DEF Range
    <3>2. p \in Packet /\ q \in Packet /\ p.time \in Nat /\ q.time \in Nat /\ p.time <= q.time
      <4>1. p \in Packet /\ q \in Packet
        BY <2>6, <3>1
      <4>2. i <= j
        <5>1. j < i => q.frame < p.frame
          BY <2>4, <3>1 DEF Timely
        <5> QED  BY <5>1, <4>1, <2>6, <2>7, <2>10
      <4> QED  BY <4>1, <4>2, <2>4, <2>7, <3>1 DEF Timely
    <3>3. with(p) = {own[i]} /\ with(q) = {own[j]}
      BY <2>9, <3>1
    <3>4. Cardinality(with(p)) = 1
      <4> HIDE DEF with
      <4> QED  BY <3>3, FS_Singleton
    <3>5. with(p) = with(q) <=> own[i] = own[j]
      <4> HIDE DEF with
      <4> QED  BY <3>3
    <3>6. own[i] \in 1..Len(eps) /\ own[j] \in 1..Len(eps)
      BY <2>8
    <3> DEFINE e == eps[own[i]]
               f == eps[own[j]]
    <3>7. /\ e.start \in Nat /\ e.recovery \in Nat \cup {None} /\ f.start \in Nat /\ f.recovery \in Nat \cup {None}
      <4>1. e \in Episode /\ f \in Episode
        BY <2>5, <3>6 DEF Owned
      <4> QED  BY <4>1 DEF Episode
    <3>8. /\ Reopens(e.recovery, s, e.start) /\ Reopens(f.recovery, s, f.start)
          /\ e.start <= p.time /\ (e.recovery = None \/ p.time < e.recovery)
          /\ f.start <= q.time /\ (f.recovery = None \/ q.time < f.recovery)
      BY <2>5, <3>1, <3>6 DEF Owned
    <3>9. /\ own[i] < own[j] => e.recovery # None /\ e.recovery <= f.start
          /\ own[j] < own[i] => f.recovery # None /\ f.recovery <= e.start
      BY <2>5, <3>6 DEF Owned
    <3> HIDE DEF e, f
    <3>10. \A w \in Range(s) : w.time \in Nat
      <4>1. \A w \in Range(s) : w \in Packet
        BY <2>3 DEF Timely, Range
      <4> QED  BY <4>1, <2>7
    <3>11. ASSUME own[i] = own[j], NEW w \in Range(s), w.window \notin {0, None}, w.time \in (p.time + 1)..q.time
           PROVE  FALSE
      <4>1. e = f
        BY <3>11 DEF e, f
      <4>2. w.time > e.start /\ w.time <= q.time /\ w.time \in Nat
        BY <3>2, <3>7, <3>8, <3>10, <3>11
      <4>3. e.recovery \in Nat /\ w.time >= e.recovery
        BY <3>8, <3>11, <3>7, <4>2 DEF Reopens
      <4>4. e.recovery # None
        BY <4>3, NoneIsNoNumber
      <4> QED  BY <3>2, <3>8, <4>1, <4>2, <4>3, <4>4
    <3>12. ASSUME own[i] # own[j] PROVE opened(p, q)
      <4>1. own[i] < own[j]
        <5>1. CASE own[j] < own[i]
          <6>1. f.recovery \in Nat /\ f.recovery <= e.start /\ q.time < f.recovery
            BY <3>7, <3>8, <3>9, <5>1
          <6> QED  BY <6>1, <3>2, <3>7, <3>8
        <5> QED  BY <5>1, <3>6, <3>12
      <4>2. e.recovery \in Nat /\ e.recovery <= f.start /\ p.time < e.recovery
        BY <3>7, <3>8, <3>9, <4>1
      <4>3. PICK w \in Range(s) : w.window \notin {0, None} /\ w.time = e.recovery
        BY <3>8, <4>2, NoneIsNoNumber DEF Reopens
      <4>4. w.time \in (p.time + 1)..q.time
        BY <3>2, <3>7, <3>8, <4>2, <4>3
      <4> QED  BY <4>3, <4>4
    <3>13. own[i] = own[j] <=> ~opened(p, q)
      BY <3>11, <3>12
    <3> HIDE DEF with, opened
    <3> QED  BY <3>4, <3>5, <3>13
  <2>11. ASSUME NEW o \in Range(s), o.window # None, ~o.syn
         PROVE  (\E i \in DOMAIN points : points[i].frame = o.frame) <=> with(o) = {}
    <3>1. o \in Packet /\ o \in Range(packets)
      <4>1. s \in Seq(Packet)
        BY <2>3 DEF Timely
      <4>2. o \in Packet
        BY <4>1 DEF Range
      <4> QED  BY <2>3, <4>2
    <3> DEFINE n == o.frame
    <3>2. n \in 1..Len(packets) /\ packets[n] = o /\ n \in Nat
      <4>1. DOMAIN packets = 1..Len(packets) /\ Len(packets) \in Nat
        BY <2>1, PacketsTyped
      <4>2. PICK m \in 1..Len(packets) : packets[m] = o
        BY <3>1, <4>1 DEF Range
      <4>3. packets[m].frame = m
        BY <2>1 DEF InOrder
      <4> QED  BY <4>1, <4>2, <4>3
    <3>3. n \in 1..Len(timed) /\ timed[n].window = o.window /\ timed[n].frame = n
      <4>1. Len(packets) = Len(timed) /\ packets[n].window = timed[n].window
        BY <3>2, GroupIsTimed DEF packets
      <4> QED  BY <4>1, <3>2, <2>1 DEF InOrder
    <3> DEFINE shown == Picked(timed, Opened)
    <3>4. DOMAIN points = DOMAIN shown /\ \A i \in DOMAIN shown : points[i].frame = shown[i].frame
      BY <2>2, HistoryIs DEF points
    <3>5. Timely(shown) /\ \A p : p \in Range(shown) <=> p \in Range(timed) /\ p \in Opened
      BY <2>2, PickedTimely
    <3> HIDE DEF shown, n
    <3>6. (\E i \in DOMAIN points : points[i].frame = n) <=> \E p \in Range(shown) : p.frame = n
      BY <3>4 DEF Range
    <3>7. (\E p \in Range(shown) : p.frame = n) <=> timed[n] \in Opened
      <4>1. DOMAIN timed = 1..Len(timed) /\ \A i \in 1..Len(timed) : timed[i].frame = i
        BY <2>1, PacketsTyped DEF InOrder
      <4>2. timed[n] \in Range(timed) /\ \A p \in Range(timed) : p.frame = n => p = timed[n]
        BY <3>3, <4>1 DEF Range
      <4> QED  BY <3>3, <3>5, <4>2
    <3>8. timed[n] \in Opened <=> o.window # 0
      <4>1. timed[n] \in Packet
        BY <3>3, <2>2 DEF Timely
      <4> QED  BY <4>1, <3>3, <2>11 DEF Opened
    <3>9. CASE o.window = 0
      <4>1. o \in Range(stalls)
        BY <2>4, <3>1, <3>9, <2>11 DEF Closed, ZeroWindow
      <4>2. PICK i \in 1..N : o = stalls[i]
        BY <2>6, <4>1 DEF Range
      <4>3. with(o) = {own[i]}
        BY <2>9, <4>2
      <4> HIDE DEF with
      <4> QED  BY <3>6, <3>7, <3>8, <3>9, <4>3 DEF n
    <3>10. CASE o.window # 0
      <4>1. ASSUME NEW k \in with(o) PROVE FALSE
        <5>1. k \in 1..Len(eps) /\ o.frame \in Range(eps[k].probes)
          BY <2>8
        <5>2. PICK i \in 1..N : stalls[i].frame = o.frame
          BY <2>5, <5>1 DEF Owned
        <5>3. stalls[i] \in Range(stalls)
          BY <2>6 DEF Range
        <5>4. stalls[i] \in Range(packets) /\ stalls[i] \in Closed
          BY <2>3, <2>4, <5>3
        <5>5. stalls[i] = o
          <6>1. DOMAIN packets = 1..Len(packets)
            BY <2>1, PacketsTyped
          <6>2. PICK m \in 1..Len(packets) : packets[m] = stalls[i]
            BY <5>4, <6>1 DEF Range
          <6>3. packets[m].frame = m
            BY <2>1 DEF InOrder
          <6> QED  BY <3>2, <5>2, <6>2, <6>3 DEF n
        <5> QED  BY <5>4, <5>5, <3>10 DEF Closed, ZeroWindow
      <4>2. with(o) = {}
        <5> HIDE DEF with
        <5> QED  BY <4>1
      <4> HIDE DEF with
      <4> QED  BY <3>6, <3>7, <3>8, <3>10, <4>2 DEF n
    <3> QED  BY <3>9, <3>10
  <2> HIDE DEF with, opened
  <2> QED  BY <2>10, <2>11 DEF with, opened, s, stalls, eps
<1> QED  BY <1>1, CaptureInvariant, PTL

-----------------------------------------------------------------------------
(* Numbers and places *)

\* What the analyses leave of a packet as it was captured.
Alike(q, p) ==
    /\ q.src = p.src /\ q.seq = p.seq /\ q.ack = p.ack /\ q.at = p.at /\ q.ackat = p.ackat
    /\ q.length = p.length /\ q.syn = p.syn

\* Every packet of the capture is one the scene allows.
CapturedInv == CaptureInv /\ \A i \in 1..Len(capture) : \E p \in scene.packets : Alike(capture[i], p)

\* Every captured packet is one of the scene's, but for its place in the capture.
LEMMA CapturedInvariant == Spec => []CapturedInv
<1>1. Init => CapturedInv
  <2>1. ASSUME Init PROVE 1..Len(capture) = {}
    BY <2>1 DEF Init
  <2> QED  BY <2>1, InitCapture DEF CapturedInv
<1>2. CapturedInv /\ [Next]_vars => CapturedInv'
  <2> SUFFICES ASSUME CapturedInv, [Next]_vars
               PROVE  (\A i \in 1..Len(capture) : \E p \in scene.packets : Alike(capture[i], p))'
    BY StepCapture DEF CapturedInv
  <2>1. CASE UNCHANGED vars
    BY <2>1 DEF vars, CapturedInv
  <2>2. ASSUME NEW p \in scene.packets, NEW gap \in scene.gaps, Capture(p, gap)
        PROVE  (\A i \in 1..Len(capture) : \E o \in scene.packets : Alike(capture[i], o))'
    <3> DEFINE n == Len(capture)
               now == IF capture = << >> THEN 0 ELSE Last(capture).ts + gap
               q == [p EXCEPT !.frame = n + 1, !.ts = now]
    <3>1. n \in Nat /\ capture \in Seq(Packet) /\ capture' = Append(capture, q) /\ scene' = scene
      BY <2>2 DEF CapturedInv, CaptureInv, Capture
    <3>2. p \in Packet
      BY <2>2, SceneConstants DEF CapturedInv, CaptureInv
    <3>3. Alike(q, p)
      BY <3>2 DEF Packet, Alike
    <3> HIDE DEF q, now
    <3>4. Len(capture') = n + 1 /\ capture'[n + 1] = q /\ \A i \in 1..n : capture'[i] = capture[i]
      BY <3>1
    <3>5. ASSUME NEW i \in 1..(n + 1) PROVE \E o \in scene.packets : Alike(capture'[i], o)
      <4>1. CASE i = n + 1
        BY <4>1, <3>3, <3>4
      <4>2. CASE i \in 1..n
        BY <4>2, <3>4 DEF CapturedInv
      <4> QED  BY <4>1, <4>2, <3>1
    <3> HIDE DEF n
    <3> QED  BY <3>1, <3>4, <3>5 DEF Alike
  <2> QED  BY <2>1, <2>2 DEF Next
<1> QED  BY <1>1, <1>2, PTL DEF Spec

\* A packet's numbers are its places counted from where its endpoints began.
Counted(first, q) ==
    /\ q.seq = (first[q.direction] + q.at) % SeqSpace
    /\ q.at + q.length <= SeqSpace
    /\ q.syn => q.at = 0
    /\ q.ack # 0 => q.ackat < SeqSpace /\ q.ack = (first[Opposite(q.direction)] + q.ackat) % SeqSpace

DirectionOf(p) == IF p.src = Client(capture) THEN "out" ELSE "in"

\* The packets with their times, and those of the reply: one for each captured.
LEMMA GroupIs ==
    ASSUME CaptureInv
    PROVE  /\ Len(timed) = Len(capture) /\ Len(group) = Len(capture)
           /\ \A i \in 1..Len(capture) :
                /\ timed[i] \in Packet /\ Alike(timed[i], capture[i]) /\ timed[i].direction = DirectionOf(capture[i])
                /\ timed[i].frame = i
                /\ group[i] = [timed[i] EXCEPT !.ts = None]
<1> DEFINE n == Len(capture)
           side(i) == IF capture[i].src = Client(capture) THEN "out" ELSE "in"
           time(i) == capture[i].ts - capture[1].ts
<1>1. n \in Nat /\ DOMAIN capture = 1..n /\ \A i \in 1..n : capture[i] \in Packet
  BY DEF CaptureInv
<1>2. timed = [i \in 1..n |-> [capture[i] EXCEPT !.direction = side(i), !.time = time(i)]]
  BY <1>1 DEF timed, Timed
<1>3. group = [i \in 1..n |-> [timed[i] EXCEPT !.ts = None]]
  <2>1. group = [i \in DOMAIN capture |-> [timed[i] EXCEPT !.ts = None]]
    BY DEF group, Group, timed
  <2> QED  BY <2>1, <1>1
<1>4. InOrder(timed) /\ InOrder(group)
  BY TimedInOrder
<1>5. DOMAIN timed = 1..Len(timed) /\ DOMAIN group = 1..Len(group) /\ Len(timed) \in Nat /\ Len(group) \in Nat
      /\ \A i \in 1..Len(timed) : timed[i] \in Packet /\ timed[i].frame = i
  BY <1>4, PacketsTyped DEF InOrder
<1>6. Len(timed) = n /\ Len(group) = n
  <2>1. DOMAIN timed = 1..n /\ DOMAIN group = 1..n
    BY <1>2, <1>3
  <2> DEFINE l == Len(timed)
             m == Len(group)
  <2>2. 1..l = 1..n /\ 1..m = 1..n /\ l \in Nat /\ m \in Nat
    BY <1>5, <2>1
  <2> HIDE DEF l, m, n
  <2>3. l = n /\ m = n
    BY <1>1, <2>2
  <2> QED  BY <2>3 DEF l, m
<1> HIDE DEF time
<1>7. ASSUME NEW i \in 1..n
      PROVE  Alike(timed[i], capture[i]) /\ timed[i].direction = DirectionOf(capture[i])
  <2>1. timed[i] = [capture[i] EXCEPT !.direction = side(i), !.time = time(i)] /\ capture[i] \in Packet
    BY <1>1, <1>2
  <2>2. side(i) = DirectionOf(capture[i])
    BY DEF DirectionOf
  <2> HIDE DEF side
  <2> QED  BY <2>1, <2>2 DEF Packet, Alike
<1> QED  BY <1>3, <1>5, <1>6, <1>7

\* The client is an endpoint.
LEMMA ClientIs ==
    ASSUME NEW g \in Seq(Packet), g # << >>
    PROVE  Client(g) \in Endpoint
<1> DEFINE A == {p \in Packet : p.syn /\ ~p.ackflag}
           Is(k) == k = [n \in 0..Len(g) |-> IF n = 0 THEN << >>
                            ELSE IF g[n].syn /\ ~g[n].ackflag THEN Append(k[n - 1], g[n]) ELSE k[n - 1]]
           opening == Kept(g, LAMBDA p : p.syn /\ ~p.ackflag)
<1>1. opening = (CHOOSE k : Is(k))[Len(g)]
  BY DEF Kept
<1>2. \A n \in 0..Len(g) : n = 0 \/ (g[n] \in A <=> g[n].syn /\ ~g[n].ackflag)
  OBVIOUS
<1>3. ASSUME NEW k PROVE Is(k) <=> Selects(k, g, A)
  <2> HIDE DEF A
  <2> QED  BY <1>2 DEF Selects
<1>4. Client(g) = IF opening # << >> THEN opening[1].src ELSE g[1].src
  BY DEF Client
<1> HIDE DEF Is, A, opening
<1>5. (CHOOSE k : Is(k))[Len(g)] = Picked(g, A)
  BY <1>3, SelectsPicked
<1>6. opening \in Seq(Packet)
  BY <1>1, <1>5, PickedPlaces
<1>7. g[1] \in Packet /\ (opening # << >> => opening[1] \in Packet)
  BY <1>6
<1> QED  BY <1>4, <1>7 DEF Packet

\* Counted from the first number, a number is the place it was given to.
LEMMA NumbersOfPlaces ==
    ASSUME CapturedInv
    PROVE  \E first \in [Direction -> 0..(SeqSpace - 1)] :
               \A i \in 1..Len(capture) : Counted(first, timed[i])
<1>0. scene \in Scene /\ CaptureInv
  BY DEF CapturedInv, CaptureInv
<1>1. PICK isn \in [Endpoint -> 0..(SeqSpace - 1)] : \A p \in scene.packets :
        /\ p.seq = (isn[p.src] + p.at) % SeqSpace
        /\ p.at + p.length <= SeqSpace
        /\ p.syn => p.at = 0
        /\ p.ack # 0 => /\ p.ackat < SeqSpace
                       /\ \A e \in Endpoint \ {p.src} : p.ack = (isn[e] + p.ackat) % SeqSpace
  BY <1>0, SceneNumbers DEF OneConnection
<1> DEFINE c == Client(capture)
<1>2. PICK x \in Endpoint, y \in Endpoint : x # y /\ Endpoint = {x, y}
  BY TwoEndpoints
<1> DEFINE out == IF x = c THEN x ELSE y
           in == IF x = c THEN y ELSE x
           first == [d \in Direction |-> IF d = "out" THEN isn[out] ELSE isn[in]]
<1>3. first \in [Direction -> 0..(SeqSpace - 1)]
  BY <1>1, <1>2
<1>4. ASSUME NEW i \in 1..Len(capture) PROVE Counted(first, timed[i])
  <2> DEFINE q == timed[i]
             r == capture[i]
  <2>1. Alike(q, r) /\ q.direction = DirectionOf(r) /\ r \in Packet
    <3>1. capture[i] \in Packet
      BY <1>0, <1>4 DEF CaptureInv
    <3> HIDE DEF c
    <3> QED  BY <1>0, <1>4, <3>1, GroupIs
  <2>2. PICK p \in scene.packets : Alike(r, p)
    BY <1>4 DEF CapturedInv
  <2>3. /\ q.src = p.src /\ q.seq = p.seq /\ q.ack = p.ack /\ q.at = p.at /\ q.ackat = p.ackat
        /\ q.length = p.length /\ q.syn = p.syn /\ r.src = p.src /\ p.src \in {x, y}
    BY <1>2, <2>1, <2>2 DEF Alike, Packet
  <2> HIDE DEF q, r, c
  <2>4. q.direction = IF p.src = c THEN "out" ELSE "in"
    BY <2>1, <2>3 DEF DirectionOf, c
  <2>5. \/ q.direction = "out" /\ first[q.direction] = isn[p.src]
           /\ \E e \in Endpoint \ {p.src} : first[Opposite(q.direction)] = isn[e]
        \/ q.direction = "in" /\ first[q.direction] = isn[p.src]
           /\ \E e \in Endpoint \ {p.src} : first[Opposite(q.direction)] = isn[e]
    <3>0. "out" \in Direction /\ "in" \in Direction /\ Opposite("out") = "in" /\ Opposite("in") = "out"
      BY DEF Direction, Opposite
    <3>1. first["out"] = isn[out] /\ first["in"] = isn[in]
      BY <3>0
    <3> HIDE DEF first
    <3>2. c \in {x, y}
      <4>1. capture \in Seq(Packet) /\ capture # << >>
        BY <1>0, <1>4 DEF CaptureInv
      <4> QED  BY <4>1, <1>2, ClientIs DEF c
    <3>3. CASE x = c
      BY <1>2, <2>3, <2>4, <3>0, <3>1, <3>2, <3>3
    <3>4. CASE y = c
      BY <1>2, <2>3, <2>4, <3>0, <3>1, <3>2, <3>4
    <3> QED  BY <3>2, <3>3, <3>4
  <2> HIDE DEF first
  <2> QED  BY <1>1, <2>3, <2>5 DEF Counted, q
<1> QED  BY <1>3, <1>4

-----------------------------------------------------------------------------
(* Payload *)

\* The payload of a direction, as the analyses take it from the packets.
DataIn(packets, d) == Payload(From(packets, d))

\* The payload of a direction: what it sent, with something in it.
LEMMA DataIs ==
    ASSUME NEW packets, InOrder(packets), NEW d
    PROVE  /\ DataIn(packets, d) = Picked(Picked(packets, Sent(d)), Paying)
           /\ Timely(DataIn(packets, d))
           /\ \A p : p \in Range(DataIn(packets, d)) <=> p \in Range(packets) /\ p \in Sent(d) /\ p \in Paying
<1> DEFINE s == Picked(packets, Sent(d))
           r == Picked(s, Paying)
<1>1. packets \in Seq(Packet) /\ Timely(packets)
  BY InOrderIsTimely DEF InOrder
<1>2. From(packets, d) = s /\ Timely(s) /\ \A p : p \in Range(s) <=> p \in Range(packets) /\ p \in Sent(d)
  BY <1>1, FromIs, PickedTimely
<1> HIDE DEF s
<1>3. s \in Seq(Packet)
  BY <1>2 DEF Timely
<1>4. Payload(s) = r /\ Timely(r) /\ \A p : p \in Range(r) <=> p \in Range(s) /\ p \in Paying
  BY <1>2, <1>3, PayloadIs, PickedTimely
<1> QED  BY <1>2, <1>4 DEF DataIn, s

\* The reply's payload is the payload without the capture clock.
Unclocked == [p \in Packet |-> [p EXCEPT !.ts = None]]

\* Taking the clock of a packet leaves the rest.
LEMMA UnclockedIs ==
    ASSUME NEW p \in Packet
    PROVE  LET q == [p EXCEPT !.ts = None] IN
           /\ Unclocked[p] = q /\ q \in Packet /\ Alike(q, p) /\ q.direction = p.direction /\ q.ts = None
           /\ q.frame = p.frame /\ q.time = p.time
  BY DEF Unclocked, Packet, Alike

\* Selecting commutes with taking the clocks.
LEMMA PickedUnclocked ==
    ASSUME NEW s \in Seq(Packet), NEW t \in Seq(Packet), Len(t) = Len(s),
           \A i \in 1..Len(s) : t[i] = Unclocked[s[i]], NEW A, \A i \in 1..Len(s) : s[i] \in A <=> t[i] \in A
    PROVE  /\ Len(Picked(t, A)) = Len(Picked(s, A))
           /\ \A i \in 1..Len(Picked(s, A)) : Picked(t, A)[i] = Unclocked[Picked(s, A)[i]]
<1>1. Len(t) = Len(s) /\ \A i \in 1..Len(s) : t[i] = Unclocked[s[i]] /\ (s[i] \in A <=> t[i] \in A)
  OBVIOUS
<1> QED  BY SMTT(40), <1>1, PickedMapped

\* The payload of a direction in the reply, without its clock.
LEMMA GroupData ==
    ASSUME CaptureInv, NEW d
    PROVE  /\ Len(DataIn(group, d)) = Len(Data(d))
           /\ \A i \in 1..Len(Data(d)) : /\ Data(d)[i] \in Packet /\ DataIn(group, d)[i] \in Packet
                                         /\ Data(d)[i].direction = d /\ Data(d)[i].length > 0
                                         /\ DataIn(group, d)[i] = Unclocked[Data(d)[i]]
<1> DEFINE s == Picked(timed, Sent(d))
           t == Picked(group, Sent(d))
           N == Len(timed)
<1>1. InOrder(timed) /\ InOrder(group)
  BY TimedInOrder
<1>2. timed \in Seq(Packet) /\ group \in Seq(Packet) /\ Len(group) = Len(timed)
  BY <1>1, GroupIs DEF InOrder
<1>3. ASSUME NEW i \in 1..N
      PROVE  /\ timed[i] \in Packet /\ group[i] = Unclocked[timed[i]] /\ group[i] \in Packet
             /\ timed[i] \in Sent(d) <=> group[i] \in Sent(d)
  <2>1. timed[i] \in Packet /\ group[i] = [timed[i] EXCEPT !.ts = None]
    BY GroupIs
  <2> DEFINE p == timed[i]
  <2> HIDE DEF p
  <2>2. p \in Packet /\ group[i] = [p EXCEPT !.ts = None]
    BY <2>1 DEF p
  <2> QED  BY <2>2, UnclockedIs DEF Sent, p
<1>4. Len(t) = Len(s) /\ \A i \in 1..Len(s) : t[i] = Unclocked[s[i]]
  <2> HIDE DEF N
  <2>1. \A i \in 1..Len(timed) : group[i] = Unclocked[timed[i]] /\ (timed[i] \in Sent(d) <=> group[i] \in Sent(d))
    BY <1>3 DEF N
  <2> QED  BY <1>2, <2>1, PickedUnclocked
<1>5. s \in Seq(Packet) /\ t \in Seq(Packet)
  BY <1>2, PickedPlaces
<1> HIDE DEF s, t
<1>6. ASSUME NEW i \in 1..Len(s) PROVE s[i] \in Paying <=> t[i] \in Paying
  <2> DEFINE p == s[i]
  <2>1. p \in Packet /\ t[i] = Unclocked[p]
    BY <1>4, <1>5
  <2> HIDE DEF p
  <2>2. Unclocked[p] \in Packet /\ Unclocked[p].length = p.length
    BY <2>1, UnclockedIs DEF Alike
  <2> QED  BY <2>1, <2>2 DEF Paying, p
<1>7. /\ Len(Picked(t, Paying)) = Len(Picked(s, Paying))
      /\ \A i \in 1..Len(Picked(s, Paying)) : Picked(t, Paying)[i] = Unclocked[Picked(s, Paying)[i]]
  BY <1>4, <1>5, <1>6, PickedUnclocked
<1>8. Data(d) = Picked(s, Paying) /\ DataIn(group, d) = Picked(t, Paying)
  BY <1>1, DataIs DEF Data, DataIn, s, t
<1>9. ASSUME NEW i \in 1..Len(Data(d))
      PROVE  Data(d)[i] \in Packet /\ Data(d)[i] \in Sent(d) /\ Data(d)[i] \in Paying
  <2>1. Data(d) = DataIn(timed, d)
    BY DEF Data, DataIn
  <2>2. Data(d) \in Seq(Packet)
    BY <1>1, <2>1, DataIs DEF Timely
  <2>3. Data(d)[i] \in Packet /\ Data(d)[i] \in Range(Data(d))
    BY <2>2 DEF Range
  <2> QED  BY <1>1, <2>1, <2>3, DataIs
<1>10. ASSUME NEW i \in 1..Len(Data(d)) PROVE DataIn(group, d)[i] \in Packet
  <2> DEFINE p == Data(d)[i]
  <2>1. p \in Packet /\ DataIn(group, d)[i] = Unclocked[p]
    BY <1>7, <1>8, <1>9
  <2> HIDE DEF p
  <2> QED  BY <2>1, UnclockedIs
<1> QED  BY <1>7, <1>8, <1>9, <1>10 DEF Sent, Paying

\* The packets with a SYN.
Opening == {p \in Packet : p.syn}

\* The packets with a SYN.
LEMMA SynPacketsAre ==
    ASSUME NEW s \in Seq(Packet)
    PROVE  Kept(s, LAMBDA p : p.syn) = Picked(s, Opening)
<1> DEFINE Is(k) == k = [n \in 0..Len(s) |-> IF n = 0 THEN << >>
                            ELSE IF s[n].syn THEN Append(k[n - 1], s[n]) ELSE k[n - 1]]
<1>1. Kept(s, LAMBDA p : p.syn) = (CHOOSE k : Is(k))[Len(s)]
  BY DEF Kept
<1>2. \A n \in 0..Len(s) : n = 0 \/ (s[n] \in Opening <=> s[n].syn)
  BY DEF Opening
<1>3. ASSUME NEW k PROVE Is(k) <=> Selects(k, s, Opening)
  BY <1>2 DEF Selects
<1> HIDE DEF Is
<1>4. (CHOOSE k : Is(k))[Len(s)] = Picked(s, Opening)
  BY <1>3, SelectsPicked
<1> QED  BY <1>1, <1>4

\* The number the places of a direction are counted from.
LEMMA BaseIs ==
    ASSUME NEW packets \in Seq(Packet), NEW d
    PROVE  LET sent == From(packets, d)
               syns == Picked(sent, Opening)
               data == DataIn(packets, d)
           IN  InitialSequence(packets, d) =
                   IF syns # << >> THEN syns[1].seq % SeqSpace
                   ELSE IF data # << >> THEN data[1].seq % SeqSpace ELSE None
<1> DEFINE sent == From(packets, d)
           data == DataIn(packets, d)
           syns == Kept(sent, LAMBDA p : p.syn)
<1>1. InitialSequence(packets, d) = IF syns # << >> THEN syns[1].seq % SeqSpace
                   ELSE IF data # << >> THEN data[1].seq % SeqSpace ELSE None
  BY DEF InitialSequence, DataIn
<1>2. sent \in Seq(Packet)
  BY FromIs, PickedPlaces
<1> HIDE DEF sent, data
<1>3. syns = Picked(sent, Opening)
  BY <1>2, SynPacketsAre
<1> HIDE DEF syns
<1> QED  BY <1>1, <1>3 DEF sent, data

-----------------------------------------------------------------------------
(* Repeats *)

\* Segments of one direction: each spans as many places as it is long.
Spanning(segments) ==
    /\ Len(segments) \in Nat /\ DOMAIN segments = 1..Len(segments) /\ \E S : segments \in Seq(S)
    /\ \A i \in 1..Len(segments) : /\ segments[i].start \in Nat /\ segments[i].length \in Nat \ {0}
                                   /\ segments[i].end = segments[i].start + segments[i].length

\* The places of a segment, counted from a base.
Span(segment, base) == (base + segment.start)..(base + segment.end - 1)

\* What two segments share, and how much.
OverlapSpans(segments, i, j, base) ==
    /\ Overlap(segments[i], segments[j]) \in 0..segments[i].length
    /\ Overlap(segments[i], segments[j]) = Overlap(segments[j], segments[i])
    /\ Overlap(segments[i], segments[j]) > 0 <=> Span(segments[i], base) \cap Span(segments[j], base) # {}
    /\ Overlap(segments[i], segments[j]) = Cardinality(Span(segments[i], base) \cap Span(segments[j], base))
    /\ Cardinality(Span(segments[i], base)) = segments[i].length

\* The overlap of two segments is what their places share.
LEMMA OverlapIs ==
    ASSUME NEW segments, Spanning(segments), NEW i \in 1..Len(segments), NEW j \in 1..Len(segments),
           NEW base \in Int
    PROVE  OverlapSpans(segments, i, j, base)
<1> DEFINE a == segments[i].start
           b == segments[i].end
           l == segments[i].length
           c == segments[j].start
           e == segments[j].end
           m == segments[j].length
           o == Overlap(segments[i], segments[j])
           both == Span(segments[i], base) \cap Span(segments[j], base)
           lo == IF a > c THEN a ELSE c
           hi == IF b < e THEN b ELSE e
<1>1. a \in Nat /\ c \in Nat /\ l \in Nat /\ m \in Nat /\ l > 0 /\ m > 0 /\ b = a + l /\ e = c + m
  BY DEF Spanning
<1>2. /\ o = IF 0 > hi - lo THEN 0 ELSE hi - lo
      /\ Overlap(segments[j], segments[i]) =
            Most(0, (IF e < b THEN e ELSE b) - (IF c > a THEN c ELSE a))
  BY DEF Overlap, Most, Least
<1>3. both = {x \in Int : base + a <= x /\ x <= base + b - 1 /\ base + c <= x /\ x <= base + e - 1}
  BY <1>1 DEF Span
<1>4. Span(segments[i], base) = (base + a)..(base + b - 1)
  BY DEF Span
<1> HIDE DEF a, b, c, e, l, m, o, both
<1>5. both = (base + lo)..(base + hi - 1) /\ lo \in Int /\ hi \in Int
  BY <1>1, <1>3
<1>6. o \in 0..l /\ o = Overlap(segments[j], segments[i])
  BY <1>1, <1>2 DEF Most
<1>7. Cardinality(both) = IF lo > hi - 1 THEN 0 ELSE (hi - 1) - lo + 1
  <2>0. lo \in Int /\ hi \in Int /\ base \in Int
    BY <1>1
  <2> DEFINE left == base + lo
             right == base + hi - 1
  <2>2. (left > right <=> lo > hi - 1) /\ right - left + 1 = (hi - 1) - lo + 1
    <3> HIDE DEF lo, hi
    <3> QED  BY <2>0
  <2> HIDE DEF lo, hi
  <2>3. both = left..right /\ left \in Int /\ right \in Int
    BY <1>5, <2>0 DEF lo, hi
  <2> HIDE DEF left, right
  <2>4. Cardinality(both) = IF left > right THEN 0 ELSE right - left + 1
    BY <2>3, FS_Interval
  <2> QED  BY <2>2, <2>4
<1>8. o = Cardinality(both)
  BY <1>1, <1>2, <1>7
<1>9. o > 0 <=> both # {}
  <2> HIDE DEF lo, hi
  <2>0. lo \in Int /\ hi \in Int /\ base \in Int
    BY <1>1 DEF lo, hi
  <2>1. lo < hi => base + lo \in (base + lo)..(base + hi - 1)
    BY <2>0
  <2>2. ~(lo < hi) => (base + lo)..(base + hi - 1) = {}
    BY <2>0
  <2>3. o > 0 <=> lo < hi
    BY <1>1, <1>2, <1>5 DEF lo, hi
  <2> QED  BY <1>5, <2>1, <2>2, <2>3
<1>10. Cardinality((base + a)..(base + b - 1)) = l
  <2> DEFINE left == base + a
             right == base + b - 1
  <2>1. left \in Int /\ right \in Int /\ ~(left > right) /\ right - left + 1 = l
    BY <1>1
  <2> HIDE DEF left, right
  <2>2. Cardinality(left..right) = l
    BY <2>1, FS_Interval
  <2> QED  BY <2>2 DEF left, right
<1> QED  BY <1>4, <1>6, <1>8, <1>9, <1>10 DEF o, l, both, OverlapSpans

\* What the i-th segment shares with each of the first n.
Shared(segments, i, n) == [j \in 1..n |-> Overlap(segments[i], segments[j])]

\* What a segment shares with each earlier one is a number of bytes.
LEMMA SharedIs ==
    ASSUME NEW segments, Spanning(segments), NEW i \in 1..Len(segments), NEW n \in 0..Len(segments)
    PROVE  Shared(segments, i, n) \in [1..n -> Nat]
<1>1. \A j \in 1..n : j \in 1..Len(segments)
  BY DEF Spanning
<1>2. ASSUME NEW j \in 1..n PROVE Overlap(segments[i], segments[j]) \in Nat
  <2>1. Overlap(segments[i], segments[j]) \in 0..segments[i].length /\ segments[i].length \in Nat
    <3>1. 0 \in Int
      OBVIOUS
    <3> QED  BY <1>1, <3>1, OverlapIs DEF OverlapSpans, Spanning
  <2> DEFINE o == Overlap(segments[i], segments[j])
             l == segments[i].length
  <2> HIDE DEF o, l
  <2>2. o \in 0..l /\ l \in Nat
    BY <2>1 DEF o, l
  <2>3. o \in Nat
    BY <2>2
  <2> QED  BY <2>3 DEF o
<1> QED  BY <1>2 DEF Shared

\* The overlaps the code adds up are the sum of what is shared.
LEMMA TotalShared ==
    ASSUME NEW segments, Spanning(segments), NEW i \in 1..Len(segments)
    PROVE  Total(SubSeq(segments, 1, i - 1), LAMBDA prior : Overlap(segments[i], prior))
               = Sum(Shared(segments, i, i - 1), i - 1)
<1> DEFINE n == i - 1
           covered == SubSeq(segments, 1, n)
           w == Shared(segments, i, n)
           Is(it) == it = [c \in SUBSET (DOMAIN covered) |-> IF c = {} THEN 0
                            ELSE LET x == Max(c) IN it[c \ {x}] + Overlap(segments[i], covered[x])]
<1>1. n \in 0..Len(segments) /\ n \in Nat /\ \A j \in 1..n : j \in 1..Len(segments)
  BY DEF Spanning
<1>2. DOMAIN covered = 1..n /\ \A j \in 1..n : covered[j] = segments[j]
  <2>1. PICK S : segments \in Seq(S)
    BY DEF Spanning
  <2>2. Len(covered) = n /\ \A j \in 1..n : covered[j] = segments[j]
    BY <1>1, <2>1
  <2>3. covered \in Seq(S)
    BY <1>1, <2>1
  <2> HIDE DEF covered, n
  <2> QED  BY <2>2, <2>3
<1>3. Total(covered, LAMBDA prior : Overlap(segments[i], prior)) = (CHOOSE it : Is(it))[DOMAIN covered]
  BY DEF Total, FoldLeft, MapThenFoldSet
<1>4. w \in [1..n -> Nat] /\ \A j \in 1..n : w[j] = Overlap(segments[i], segments[j])
  BY <1>1, SharedIs DEF Shared
<1> HIDE DEF covered, n, w
<1>5. ASSUME NEW it PROVE Is(it) <=> SumFold(it, w, n)
  <2> DEFINE left(c) == IF c = {} THEN 0 ELSE LET x == Max(c) IN it[c \ {x}] + Overlap(segments[i], covered[x])
             right(c) == IF c = {} THEN 0 ELSE LET x == Max(c) IN it[c \ {x}] + w[x]
  <2>1. ASSUME NEW c \in SUBSET (1..n) PROVE left(c) = right(c)
    <3>1. CASE c # {}
      <4>1. Max(c) \in 1..n
        BY <1>1, <3>1, MaxIsIn
      <4>2. Overlap(segments[i], covered[Max(c)]) = w[Max(c)]
        BY <1>2, <1>4, <4>1
      <4> QED  BY <4>2
    <3> QED  BY <3>1
  <2>2. Is(it) <=> it = [c \in SUBSET (1..n) |-> left(c)]
    BY <1>2
  <2>3. SumFold(it, w, n) <=> it = [c \in SUBSET (1..n) |-> right(c)]
    BY DEF SumFold
  <2> HIDE DEF left, right, Is
  <2>4. [c \in SUBSET (1..n) |-> left(c)] = [c \in SUBSET (1..n) |-> right(c)]
    BY <2>1
  <2> QED  BY <2>2, <2>3, <2>4
<1> HIDE DEF Is
<1>6. (CHOOSE it : Is(it)) = (CHOOSE it : SumFold(it, w, n))
  BY <1>5
<1>7. (CHOOSE it : SumFold(it, w, n))[1..n] = Sum(w, n)
  BY <1>1, <1>4, FoldSums
<1> QED  BY <1>2, <1>3, <1>6, <1>7 DEF covered, n, w

\* How much of a segment is counted as repeated, and when any of it is.
LEMMA RepeatIs ==
    ASSUME NEW segments, Spanning(segments), NEW i \in 1..Len(segments), NEW base \in Int
    PROVE  /\ RepeatBytes(segments, i) = Least(segments[i].length, Sum(Shared(segments, i, i - 1), i - 1))
           /\ RepeatBytes(segments, i) \in 0..segments[i].length
           /\ i \in Repeats(segments) <=>
                \E j \in 1..(i - 1) : Span(segments[i], base) \cap Span(segments[j], base) # {}
<1> DEFINE n == i - 1
           w == Shared(segments, i, n)
           s == Sum(w, n)
           l == segments[i].length
           r == RepeatBytes(segments, i)
<1>1. n \in Nat /\ n \in 0..Len(segments) /\ n \in 0..n /\ \A j \in 1..n : j \in 1..Len(segments)
  BY DEF Spanning
<1>2. w \in [1..n -> Nat] /\ \A j \in 1..n : w[j] = Overlap(segments[i], segments[j])
  BY <1>1, SharedIs DEF Shared
<1>3. l \in Nat /\ l > 0
  BY DEF Spanning
<1>4. r = Least(l, s)
  BY TotalShared DEF RepeatBytes, DuplicateBytes
<1>5. i \in Repeats(segments) <=> r > 0
  BY DEF Repeats, Spanning
<1> HIDE DEF n, w, l, r
<1>6. s \in Nat
  BY <1>1, <1>2, SumStep
<1>7. \A j \in 1..n : w[j] <= s
  BY <1>1, <1>2, SumLeast
<1>8. (\A j \in 1..n : w[j] = 0) => s = 0
  BY <1>1, <1>2, SumZero
<1> HIDE DEF s
<1>9. s > 0 <=> \E j \in 1..n : w[j] > 0
  BY <1>2, <1>6, <1>7, <1>8
<1>10. r \in 0..l /\ (r > 0 <=> s > 0)
  BY <1>3, <1>4, <1>6 DEF Least
<1>11. ASSUME NEW j \in 1..n PROVE w[j] > 0 <=> Span(segments[i], base) \cap Span(segments[j], base) # {}
  <2>1. j \in 1..Len(segments) /\ w[j] = Overlap(segments[i], segments[j])
    BY <1>1, <1>2
  <2>2. Overlap(segments[i], segments[j]) > 0 <=> Span(segments[i], base) \cap Span(segments[j], base) # {}
    <3>1. OverlapSpans(segments, i, j, base)
      BY <2>1, OverlapIs
    <3> QED  BY <3>1 DEF OverlapSpans
  <2> QED  BY <2>1, <2>2
<1> QED  BY <1>4, <1>5, <1>9, <1>10, <1>11 DEF n, w, l, r, s

\* What a repeat is compared with was captured before it.
LEMMA OriginalBefore ==
    ASSUME NEW segments, Spanning(segments), NEW i \in Repeats(segments), Original(segments, i) # None
    PROVE  Original(segments, i) < i
<1> DEFINE shared(j) == Overlap(segments[j], segments[i])
           candidates == {j \in Firsts(segments) : shared(j) > 0}
           most == {j \in candidates : \A k \in candidates : shared(j) >= shared(k)}
           N == Len(segments)
<1>1. N \in Nat /\ i \in 1..N /\ Firsts(segments) = (1..N) \ Repeats(segments)
  BY DEF Firsts, Repeats, Spanning
<1>2. Original(segments, i) = IF candidates = {} THEN None ELSE Min(most)
  BY DEF Original
<1>3. ASSUME NEW j \in candidates PROVE j < i /\ shared(j) \in 1..segments[j].length
  <2>1. j \in 1..N /\ j \notin Repeats(segments) /\ shared(j) > 0 /\ 0 \in Int
    BY <1>1
  <2>2. shared(j) \in 0..segments[j].length /\ Span(segments[j], 0) \cap Span(segments[i], 0) # {}
    <3>1. OverlapSpans(segments, j, i, 0)
      BY <1>1, <2>1, OverlapIs
    <3> QED  BY <2>1, <3>1 DEF OverlapSpans
  <2>3. i # j
    BY <2>1
  <2>4. ~(i < j)
    <3>1. ASSUME i < j PROVE FALSE
      <4>1. i \in 1..(j - 1)
        BY <1>1, <2>1, <3>1
      <4> QED  BY <2>1, <2>2, <4>1, RepeatIs
    <3> QED  BY <3>1
  <2>5. j < i
    <3> HIDE DEF N
    <3> QED  BY <1>1, <2>1, <2>3, <2>4
  <2> DEFINE o == shared(j)
             l == segments[j].length
  <2>6. o \in 0..l /\ o > 0 /\ l \in Nat
    BY <2>1, <2>2 DEF Spanning
  <2> HIDE DEF o, l
  <2>7. o \in 1..l
    BY <2>6
  <2> QED  BY <2>5, <2>7 DEF o, l
<1>4. candidates # {}
  BY <1>2
<1>5. most # {}
  <2> DEFINE values == {shared(j) : j \in candidates}
             l == segments[i].length
  <2>1. ASSUME NEW j \in candidates PROVE shared(j) \in 1..l
    <3>1. j \in 1..N /\ 0 \in Int
      BY <1>1
    <3>2. shared(j) = Overlap(segments[i], segments[j]) /\ Overlap(segments[i], segments[j]) \in 0..l
      BY <1>1, <3>1, OverlapIs DEF OverlapSpans
    <3>3. shared(j) \in 0..l /\ shared(j) > 0 /\ l \in Nat
      BY <1>1, <3>2 DEF Spanning
    <3> DEFINE o == shared(j)
    <3> HIDE DEF o, l
    <3>4. o \in 0..l /\ o > 0 /\ l \in Nat
      BY <3>3 DEF o
    <3>5. o \in 1..l
      BY <3>4
    <3> QED  BY <3>5 DEF o
  <2>2. values \in SUBSET (1..l) /\ values # {} /\ l \in Nat
    BY <1>1, <1>4, <2>1 DEF Spanning
  <2> HIDE DEF l, values
  <2>3. Max(values) \in values /\ \A v \in values : v <= Max(values)
    BY <2>2, MaxIsIn
  <2> HIDE DEF candidates
  <2>4. PICK j \in candidates : shared(j) = Max(values)
    BY <2>3 DEF values
  <2>5. ASSUME NEW k \in candidates PROVE shared(j) >= shared(k)
    <3>1. shared(k) \in values /\ shared(k) \in Int /\ shared(j) \in Int
      BY <2>1 DEF values
    <3> QED  BY <2>3, <2>4, <3>1
  <2> QED  BY <2>5
<1>6. most \in SUBSET (1..N)
  BY <1>1
<1>7. Min(most) \in most
  <2> HIDE DEF most, N
  <2> QED  BY <1>1, <1>5, <1>6, MinIsIn
<1> QED  BY <1>2, <1>3, <1>4, <1>7

\* The places of the first n segments.
Covered(segments, n, base) == UNION {Span(segments[j], base) : j \in 1..n}

\* One more segment adds its places to those covered.
LEMMA CoveredStep ==
    ASSUME NEW segments, Spanning(segments), NEW base \in Int
    PROVE  /\ Covered(segments, 0, base) = {}
           /\ \A n \in 1..Len(segments) :
                Covered(segments, n, base) = Covered(segments, n - 1, base) \cup Span(segments[n], base)
           /\ \A n \in 0..Len(segments) : IsFiniteSet(Covered(segments, n, base))
           /\ \A n \in 1..Len(segments) : IsFiniteSet(Span(segments[n], base))
<1> DEFINE C(n) == Covered(segments, n, base)
           N == Len(segments)
           T == {n \in 0..N : IsFiniteSet(C(n))}
<1>1. N \in Nat
  BY DEF Spanning
<1>2. C(0) = {}
  <2>1. 1..0 = {}
    OBVIOUS
  <2> QED  BY <2>1 DEF Covered
<1>3. ASSUME NEW n \in 1..N PROVE C(n) = C(n - 1) \cup Span(segments[n], base)
  <2>1. 1..n = (1..(n - 1)) \cup {n}
    OBVIOUS
  <2> DEFINE m == n - 1
  <2> HIDE DEF m
  <2>2. C(m) = UNION {Span(segments[j], base) : j \in 1..m}
    BY DEF Covered
  <2>3. C(n) = UNION {Span(segments[j], base) : j \in (1..m) \cup {n}}
    BY <2>1 DEF Covered, m
  <2>4. C(n) = C(m) \cup Span(segments[n], base)
    BY <2>2, <2>3
  <2> QED  BY <2>4 DEF m
<1>4. ASSUME NEW n \in 1..N PROVE IsFiniteSet(Span(segments[n], base))
  <2>1. segments[n].start \in Nat /\ segments[n].end \in Nat
    BY DEF Spanning
  <2> DEFINE left == base + segments[n].start
             right == base + segments[n].end - 1
  <2>2. left \in Int /\ right \in Int /\ Span(segments[n], base) = left..right
    BY <2>1 DEF Span
  <2> HIDE DEF left, right
  <2> QED  BY <2>2, FS_Interval
<1>5. 0 \in T
  BY <1>1, <1>2, FS_EmptySet
<1>6. ASSUME NEW n \in 1..N, n - 1 \in T PROVE n \in T
  <2> HIDE DEF C
  <2>1. n \in 0..N
    BY <1>1
  <2>2. IsFiniteSet(C(n - 1) \cup Span(segments[n], base))
    BY <1>4, <1>6, FS_Union
  <2> QED  BY <1>3, <2>1, <2>2
<1>7. \A n \in 0..N : n \in T
  <2> HIDE DEF T
  <2> QED  BY <1>1, <1>5, <1>6, UpTo
<1> QED  BY <1>2, <1>3, <1>4, <1>7

\* A segment shares no more with the ones before it than it shares with each.
LEMMA SharedCovers ==
    ASSUME NEW segments, Spanning(segments), NEW base \in Int,
           NEW i \in 1..Len(segments), NEW n \in 0..Len(segments)
    PROVE  Cardinality(Span(segments[i], base) \cap Covered(segments, n, base)) <= Sum(Shared(segments, i, n), n)
<1> DEFINE P == Span(segments[i], base)
           C(m) == Covered(segments, m, base)
           w == Shared(segments, i, n)
           T == {m \in 0..n : Cardinality(P \cap C(m)) <= Sum(w, m)}
           N == Len(segments)
<1>1. N \in Nat /\ n \in Nat /\ n \in 0..n /\ \A m \in 1..n : m \in 1..N
  BY DEF Spanning
<1>2. C(0) = {} /\ IsFiniteSet(P) /\ \A m \in 1..N : C(m) = C(m - 1) \cup Span(segments[m], base)
  BY CoveredStep
<1>3. w \in [1..n -> Nat]
  BY SharedIs
<1>4. \A m \in 1..n : w[m] = Cardinality(P \cap Span(segments[m], base))
  <2>1. ASSUME NEW m \in 1..n PROVE w[m] = Cardinality(P \cap Span(segments[m], base))
    <3>1. m \in 1..Len(segments) /\ w[m] = Overlap(segments[i], segments[m])
      BY <1>1 DEF Shared
    <3>2. OverlapSpans(segments, i, m, base)
      BY <3>1, OverlapIs
    <3> QED  BY <3>1, <3>2 DEF OverlapSpans
  <2> QED  BY <2>1
<1> HIDE DEF P, C, w, N
<1>5. 0 \in T
  <2>1. P \cap C(0) = {} /\ Sum(w, 0) = 0
    BY <1>1, <1>2, <1>3, SumStep
  <2> QED  BY <1>1, <2>1, FS_EmptySet
<1>6. ASSUME NEW m \in 1..n, m - 1 \in T PROVE m \in T
  <2> DEFINE X == P \cap C(m - 1)
             Y == P \cap Span(segments[m], base)
  <2>1. P \cap C(m) = X \cup Y
    BY <1>1, <1>2
  <2>2. IsFiniteSet(X) /\ IsFiniteSet(Y)
    BY <1>2, FS_Intersection
  <2>3. Cardinality(X) <= Sum(w, m - 1) /\ Cardinality(Y) = w[m]
    BY <1>4, <1>6
  <2> HIDE DEF X, Y
  <2>4. Cardinality(X \cup Y) = Cardinality(X) + Cardinality(Y) - Cardinality(X \cap Y)
    BY <2>2, FS_Union
  <2>5. Cardinality(X) \in Nat /\ Cardinality(Y) \in Nat /\ Cardinality(X \cap Y) \in Nat
    <3>1. IsFiniteSet(X \cap Y)
      BY <2>2, FS_Intersection
    <3> QED  BY <2>2, <3>1, FS_CardinalityType
  <2>6. Sum(w, m) = Sum(w, m - 1) + w[m] /\ Sum(w, m - 1) \in Nat /\ m \in 0..n
    <3>1. m - 1 \in 0..n /\ m \in 0..n
      BY <1>1
    <3> QED  BY <1>1, <1>3, <3>1, SumStep
  <2>7. Cardinality(P \cap C(m)) <= Sum(w, m)
    <3> DEFINE a == Sum(w, m - 1)
               b == w[m]
               x == Cardinality(X)
               y == Cardinality(Y)
               z == Cardinality(X \cap Y)
    <3>1. a \in Nat /\ x \in Nat /\ y \in Nat /\ z \in Nat /\ x <= a /\ y = b
          /\ Cardinality(P \cap C(m)) = x + y - z /\ Sum(w, m) = a + b
      BY <2>1, <2>3, <2>4, <2>5, <2>6
    <3> HIDE DEF a, b, x, y, z
    <3> QED  BY <3>1
  <2> QED  BY <2>6, <2>7
<1>7. \A m \in 0..n : m \in T
  <2> HIDE DEF T
  <2> QED  BY <1>1, <1>5, <1>6, UpTo
<1>8. n \in T
  BY <1>1, <1>7
<1> QED  BY <1>8 DEF P, C, w

\* What a segment carries and no earlier one did, as far as it is counted.
Fresh(segments) == [i \in 1..Len(segments) |-> segments[i].length - RepeatBytes(segments, i)]

\* What is fresh of each segment is a number of bytes.
LEMMA FreshIs ==
    ASSUME NEW segments, Spanning(segments)
    PROVE  Fresh(segments) \in [1..Len(segments) -> Nat]
<1>1. ASSUME NEW i \in 1..Len(segments) PROVE segments[i].length - RepeatBytes(segments, i) \in Nat
  <2> DEFINE l == segments[i].length
             r == RepeatBytes(segments, i)
  <2>1. l \in Nat /\ r \in 0..l
    <3>1. 0 \in Int
      OBVIOUS
    <3> QED  BY <3>1, RepeatIs DEF Spanning
  <2> HIDE DEF l, r
  <2>2. l - r \in Nat
    BY <2>1
  <2> QED  BY <2>2 DEF l, r
<1> QED  BY <1>1 DEF Fresh

\* No place is counted as new twice.
LEMMA FreshCovers ==
    ASSUME NEW segments, Spanning(segments), NEW base \in Int
    PROVE  Sum(Fresh(segments), Len(segments)) <= Cardinality(Covered(segments, Len(segments), base))
<1> DEFINE N == Len(segments)
           w == Fresh(segments)
           C(m) == Covered(segments, m, base)
           T == {n \in 0..N : Sum(w, n) <= Cardinality(C(n))}
<1>1. N \in Nat /\ N \in 0..N
  BY DEF Spanning
<1>2. /\ C(0) = {}
      /\ \A n \in 1..N : C(n) = C(n - 1) \cup Span(segments[n], base) /\ IsFiniteSet(Span(segments[n], base))
      /\ \A n \in 0..N : IsFiniteSet(C(n))
  BY CoveredStep
<1>3. w \in [1..N -> Nat]
  BY FreshIs
<1>4. 0 \in T
  <2>1. Sum(w, 0) = 0 /\ Cardinality(C(0)) = 0
    <3> HIDE DEF C, w, N
    <3> QED  BY <1>1, <1>2, <1>3, SumStep, FS_EmptySet
  <2> HIDE DEF C, w, N
  <2> QED  BY <1>1, <2>1
<1>5. ASSUME NEW n \in 1..N, n - 1 \in T PROVE n \in T
  <2> DEFINE P == Span(segments[n], base)
             X == C(n - 1)
             c == Cardinality(X)
             l == segments[n].length
             o == Cardinality(P \cap X)
             t == Sum(Shared(segments, n, n - 1), n - 1)
             r == RepeatBytes(segments, n)
  <2>1. n - 1 \in 0..N /\ n \in 0..N
    BY <1>1
  <2>2. C(n) = X \cup P /\ IsFiniteSet(X) /\ IsFiniteSet(P)
    BY <1>2, <2>1
  <2>3. Cardinality(P) = l
    <3>1. OverlapSpans(segments, n, n, base)
      BY OverlapIs
    <3> QED  BY <3>1 DEF OverlapSpans
  <2>4. o <= t
    BY <2>1, SharedCovers
  <2>5. w[n] = l - r /\ l \in Nat /\ r \in 0..l
    BY RepeatIs DEF Fresh, Spanning
  <2>6. r = Least(l, t)
    BY RepeatIs
  <2>7. t \in Nat
    <3>1. Shared(segments, n, n - 1) \in [1..(n - 1) -> Nat]
      BY <2>1, SharedIs
    <3> DEFINE m == n - 1
    <3>2. m \in Nat /\ m \in 0..m
      OBVIOUS
    <3> HIDE DEF m
    <3>3. Shared(segments, n, m) \in [1..m -> Nat]
      BY <3>1 DEF m
    <3>4. Sum(Shared(segments, n, m), m) \in Nat
      BY <3>2, <3>3, SumStep
    <3> QED  BY <3>4 DEF m
  <2>8. Sum(w, n) = Sum(w, n - 1) + w[n] /\ Sum(w, n - 1) \in Nat
    <3> HIDE DEF w, N
    <3> QED  BY <1>1, <1>3, <2>1, SumStep
  <2>9. Sum(w, n - 1) <= c
    BY <1>5
  <2> DEFINE a == Sum(w, n - 1)
             b == w[n]
  <2> HIDE DEF P, X
  <2>10. Cardinality(X \cup P) = c + Cardinality(P) - Cardinality(X \cap P)
    BY <2>2, FS_Union
  <2>11. X \cap P = P \cap X
    OBVIOUS
  <2>12. c \in Nat /\ o \in Nat /\ o <= l
    <3>1. IsFiniteSet(P \cap X) /\ Cardinality(P \cap X) <= Cardinality(P)
      BY <2>2, FS_Intersection
    <3> QED  BY <2>2, <2>3, <3>1, FS_CardinalityType
  <2>13. Cardinality(X \cup P) = c + l - o
    BY <2>3, <2>10, <2>11
  <2>14. a \in Nat /\ a <= c /\ b = l - r
    BY <2>5, <2>8, <2>9
  <2>15. Sum(w, n) = a + b
    BY <2>8
  <2> HIDE DEF a, b, c, l, o, t, r, w, C
  <2>16. o <= r
    BY <2>4, <2>6, <2>7, <2>12 DEF Least
  <2>17. a + b <= c + l - o
    BY <2>5, <2>12, <2>14, <2>16
  <2> QED  BY <2>1, <2>2, <2>13, <2>15, <2>17
<1>6. \A n \in 0..N : n \in T
  <2> HIDE DEF T
  <2> QED  BY <1>1, <1>4, <1>5, UpTo
<1>7. N \in T
  BY <1>1, <1>6
<1> QED  BY <1>7

\* Unique and new bytes together are the sum of what is fresh.
LEMMA CountedBytes ==
    ASSUME NEW segments, Spanning(segments)
    PROVE  UniqueBytes(segments) + NewBytes(segments) = Sum(Fresh(segments), Len(segments))
<1> DEFINE N == Len(segments)
           l == [i \in 1..N |-> segments[i].length]
           w == Fresh(segments)
           A == Firsts(segments)
           B == Repeats(segments)
           First(it) == it = [c \in SUBSET A |-> IF c = {} THEN 0
                                ELSE LET x == CHOOSE x \in c : TRUE IN segments[x].length + it[c \ {x}]]
           Again(it) == it = [c \in SUBSET B |-> IF c = {} THEN 0
                                ELSE LET x == CHOOSE x \in c : TRUE
                                     IN (segments[x].length - RepeatBytes(segments, x)) + it[c \ {x}]]
<1>1. N \in Nat /\ A \in SUBSET (1..N) /\ B \in SUBSET (1..N) /\ A = (1..N) \ B
  BY DEF Firsts, Repeats, Spanning
<1>2. l \in [1..N -> Nat] /\ w \in [1..N -> Nat]
  <2>1. \A i \in 1..N : segments[i].length \in Nat
    BY DEF Spanning
  <2> QED  BY <2>1, FreshIs
<1>3. UniqueBytes(segments) = (CHOOSE it : First(it))[A]
  BY DEF UniqueBytes, MapThenSumSet, MapThenFoldSet
<1>4. NewBytes(segments) = (CHOOSE it : Again(it))[B]
  BY DEF NewBytes, MapThenSumSet, MapThenFoldSet
<1>5. \A x \in 1..N : l[x] = segments[x].length /\ w[x] = segments[x].length - RepeatBytes(segments, x)
  BY DEF Fresh
<1> HIDE DEF A, B, w, l
<1>6. ASSUME NEW it PROVE First(it) <=> SetFold(it, l, A)
  <2> DEFINE left(c) == IF c = {} THEN 0 ELSE LET x == CHOOSE x \in c : TRUE IN segments[x].length + it[c \ {x}]
             right(c) == IF c = {} THEN 0 ELSE LET x == CHOOSE x \in c : TRUE IN l[x] + it[c \ {x}]
  <2>1. ASSUME NEW c \in SUBSET A PROVE left(c) = right(c)
    <3>1. CASE c # {}
      <4>1. (CHOOSE x \in c : TRUE) \in 1..N
        BY <1>1, <3>1
      <4>2. l[CHOOSE x \in c : TRUE] = segments[CHOOSE x \in c : TRUE].length
        BY <1>5, <4>1
      <4> QED  BY <4>2
    <3> QED  BY <3>1
  <2>2. First(it) <=> it = [c \in SUBSET A |-> left(c)]
    OBVIOUS
  <2>3. SetFold(it, l, A) <=> it = [c \in SUBSET A |-> right(c)]
    BY DEF SetFold
  <2> HIDE DEF left, right, First
  <2>4. [c \in SUBSET A |-> left(c)] = [c \in SUBSET A |-> right(c)]
    BY <2>1
  <2> QED  BY <2>2, <2>3, <2>4
<1>7. ASSUME NEW it PROVE Again(it) <=> SetFold(it, w, B)
  <2> DEFINE left(c) == IF c = {} THEN 0 ELSE LET x == CHOOSE x \in c : TRUE
                            IN (segments[x].length - RepeatBytes(segments, x)) + it[c \ {x}]
             right(c) == IF c = {} THEN 0 ELSE LET x == CHOOSE x \in c : TRUE IN w[x] + it[c \ {x}]
  <2>1. ASSUME NEW c \in SUBSET B PROVE left(c) = right(c)
    <3>1. CASE c # {}
      <4> DEFINE x == CHOOSE x \in c : TRUE
      <4>1. x \in 1..N
        BY <1>1, <3>1
      <4> HIDE DEF x
      <4>2. w[x] = segments[x].length - RepeatBytes(segments, x)
        BY <1>5, <4>1
      <4> QED  BY <4>2 DEF x
    <3> QED  BY <3>1
  <2>2. Again(it) <=> it = [c \in SUBSET B |-> left(c)]
    OBVIOUS
  <2>3. SetFold(it, w, B) <=> it = [c \in SUBSET B |-> right(c)]
    BY DEF SetFold
  <2> HIDE DEF left, right, Again
  <2>4. [c \in SUBSET B |-> left(c)] = [c \in SUBSET B |-> right(c)]
    BY <2>1
  <2> QED  BY <2>2, <2>3, <2>4
<1> HIDE DEF First, Again
<1>8. (CHOOSE it : First(it)) = (CHOOSE it : SetFold(it, l, A)) /\ (CHOOSE it : Again(it)) = (CHOOSE it : SetFold(it, w, B))
  BY <1>6, <1>7
<1> DEFINE u == Only(l, N, A)
           v == Only(w, N, B)
<1>9. UniqueBytes(segments) = Sum(u, N) /\ NewBytes(segments) = Sum(v, N)
  <2>1. (CHOOSE it : SetFold(it, l, A))[A] = Sum(u, N)
    <3> HIDE DEF N
    <3> QED  BY <1>1, <1>2, SetSums
  <2>2. (CHOOSE it : SetFold(it, w, B))[B] = Sum(v, N)
    <3> HIDE DEF N
    <3> QED  BY <1>1, <1>2, SetSums
  <2> QED  BY <1>3, <1>4, <1>8, <2>1, <2>2
<1>10. u \in [1..N -> Nat] /\ v \in [1..N -> Nat]
  BY <1>1, <1>2, OnlyTyped
<1>11. ASSUME NEW i \in 1..N PROVE w[i] = u[i] + v[i]
  <2>1. u[i] = (IF i \in A THEN l[i] ELSE 0) /\ v[i] = (IF i \in B THEN w[i] ELSE 0)
    BY DEF Only
  <2>2. w[i] \in Nat /\ l[i] \in Nat
    BY <1>2
  <2>3. CASE i \in B
    BY <1>1, <2>1, <2>2, <2>3
  <2>4. CASE i \notin B
    <3> DEFINE r == RepeatBytes(segments, i)
               k == segments[i].length
    <3>1. r \in 0..k /\ k \in Nat
      <4>1. 0 \in Int
        OBVIOUS
      <4> QED  BY <4>1, RepeatIs DEF Spanning
    <3>2. ~(r > 0)
      BY <2>4 DEF Repeats, Spanning, B
    <3>3. w[i] = k - r /\ l[i] = k
      BY <1>5
    <3> HIDE DEF r, k
    <3>4. w[i] = l[i]
      BY <3>1, <3>2, <3>3
    <3>5. i \in A
      BY <1>1, <2>4
    <3> QED  BY <2>1, <2>2, <2>4, <3>4, <3>5
  <2> QED  BY <2>3, <2>4
<1>12. Sum(w, N) = Sum(u, N) + Sum(v, N)
  <2> HIDE DEF N, u, v
  <2> QED  BY <1>1, <1>2, <1>10, <1>11, SumParts
<1> QED  BY <1>9, <1>12 DEF w

-----------------------------------------------------------------------------
\* The segments of a direction of the reply span places.
LEMMA SegmentsSpan ==
    ASSUME CaptureInv, NEW d
    PROVE  LET data == DataIn(group, d) IN
           /\ Spanning(Segments(group, d)) /\ Len(Segments(group, d)) = Len(data)
           /\ \A i \in 1..Len(data) : /\ Segments(group, d)[i].start = Relative(data[i].seq, InitialSequence(data, d))
                                      /\ Segments(group, d)[i].length = data[i].length
           /\ data # << >> => \E b \in {p.seq : p \in {q \in Range(data) : q.syn}} \cup {data[1].seq} :
                InitialSequence(data, d) = b % SeqSpace
<1> DEFINE data == DataIn(group, d)
           N == Len(data)
           base == InitialSequence(data, d)
           segs == Segments(group, d)
<1>1. N \in Nat /\ DOMAIN data = 1..N /\ data \in Seq(Packet)
      /\ \A i \in 1..N : data[i] \in Packet /\ data[i].direction = d /\ data[i].length > 0
  <2>1. InOrder(group)
    BY TimedInOrder
  <2>2. data \in Seq(Packet) /\ N \in Nat /\ DOMAIN data = 1..N
    BY <2>1, DataIs DEF Timely
  <2>3. ASSUME NEW i \in 1..N PROVE data[i] \in Packet /\ data[i].direction = d /\ data[i].length > 0
    <3>1. data[i] \in Packet /\ data[i] \in Range(data)
      BY <2>2 DEF Range
    <3>2. data[i] \in Sent(d) /\ data[i] \in Paying
      BY <2>1, <3>1, DataIs
    <3> QED  BY <3>1, <3>2 DEF Sent, Paying
  <2> QED  BY <2>2, <2>3
<1>2. From(data, d) = data /\ DataIn(data, d) = data
  <2> HIDE DEF data, N
  <2>1. \A i \in 1..Len(data) : data[i] \in Sent(d) /\ data[i] \in Paying
    BY <1>1 DEF Sent, Paying, N
  <2>2. Picked(data, Sent(d)) = data /\ Picked(data, Paying) = data
    BY <1>1, <2>1, PickedAll
  <2>3. From(data, d) = data
    BY <1>1, <2>2, FromIs
  <2> QED  BY <1>1, <2>2, <2>3, PayloadIs DEF DataIn
<1>3. \E f : segs = [i \in 1..N |->
                [frame |-> data[i].frame, time |-> f[i],
                 start |-> Relative(data[i].seq, base), end |-> Relative(data[i].seq, base) + data[i].length,
                 length |-> data[i].length]]
  <2> DEFINE clock(p) == IF p.ts = None THEN None ELSE p.ts - Origin(data)
             f == [i \in 1..N |-> clock(data[i])]
  <2>1. segs = [i \in DOMAIN data |->
                [frame |-> data[i].frame, time |-> clock(data[i]),
                 start |-> Relative(data[i].seq, base), end |-> Relative(data[i].seq, base) + data[i].length,
                 length |-> data[i].length]]
    BY DEF Segments, DataIn
  <2>2. \A i \in 1..N : f[i] = clock(data[i])
    OBVIOUS
  <2> HIDE DEF data, base, clock, f, segs, N
  <2>3. segs = [i \in 1..N |->
                [frame |-> data[i].frame, time |-> f[i],
                 start |-> Relative(data[i].seq, base), end |-> Relative(data[i].seq, base) + data[i].length,
                 length |-> data[i].length]]
    BY <1>1, <2>1, <2>2
  <2> QED  BY <2>3
<1>4. base = IF Picked(data, Opening) # << >> THEN Picked(data, Opening)[1].seq % SeqSpace
             ELSE IF data # << >> THEN data[1].seq % SeqSpace ELSE None
  <2> HIDE DEF data
  <2> QED  BY <1>1, <1>2, BaseIs
<1> DEFINE syns == Picked(data, Opening)
<1>5. syns # << >> => syns[1] \in Range(data) /\ syns[1].syn
  <2> SUFFICES ASSUME syns # << >> PROVE syns[1] \in Range(data) /\ syns[1].syn
    OBVIOUS
  <2>1. syns \in Seq(Packet) /\ \E pos : Picks(pos, syns, data, Len(data), Opening)
    <3> HIDE DEF data
    <3> QED  BY <1>1, PickedPlaces
  <2>2. PICK pos : Picks(pos, syns, data, Len(data), Opening)
    BY <2>1
  <2> HIDE DEF syns, data, N
  <2>3. 1 \in 1..Len(syns)
    BY <2>1
  <2>4. pos[1] \in 1..Len(data) /\ syns[1] = data[pos[1]] /\ data[pos[1]] \in Opening
    BY <2>2, <2>3 DEF Picks
  <2> QED  BY <1>1, <2>4 DEF Opening, Range, N
<1>6. data # << >> => \E b \in {p.seq : p \in {q \in Range(data) : q.syn}} \cup {data[1].seq} : base = b % SeqSpace
  <2> HIDE DEF data, syns, base
  <2> QED  BY <1>4, <1>5 DEF syns
<1>7. \A i \in 1..N : Relative(data[i].seq, base) \in Nat
  <2> HIDE DEF N
  <2>1. ASSUME NEW i \in 1..N PROVE Relative(data[i].seq, base) \in Nat
    <3> DEFINE q == data[i].seq
    <3>1. q \in Nat
      BY <1>1 DEF Packet
    <3>2. SeqSpace \in Nat \ {0}
      BY AccountingConstants
    <3>3. \A x \in Nat : x % SeqSpace \in Nat
      BY <3>2
    <3>4. base = None \/ base \in Nat
      <4>1. data # << >> => data[1].seq \in Nat
        <5>1. data # << >> => data[1] \in Packet
          BY <1>1
        <5> QED  BY <5>1 DEF Packet
      <4>2. syns # << >> => syns[1].seq \in Nat
        <5>1. syns # << >> => syns[1] \in Packet
          BY <1>1, <1>5 DEF Range, N
        <5> QED  BY <5>1 DEF Packet
      <4> HIDE DEF data, syns, base
      <4> QED  BY <1>4, <3>3, <4>1, <4>2 DEF syns
    <3> HIDE DEF q, base
    <3>5. q % SeqSpace \in Nat /\ (base \in Nat => (q - base) % SeqSpace \in Nat)
      BY <3>1, <3>2
    <3>6. Relative(q, base) \in Nat
      BY <3>4, <3>5 DEF Relative
    <3> QED  BY <3>6 DEF q
  <2> QED  BY <2>1
<1>8. PICK f : segs = [i \in 1..N |->
                [frame |-> data[i].frame, time |-> f[i],
                 start |-> Relative(data[i].seq, base), end |-> Relative(data[i].seq, base) + data[i].length,
                 length |-> data[i].length]]
  BY <1>3
<1> HIDE DEF data, base, segs
<1>9. \A i \in 1..N : /\ segs[i].start = Relative(data[i].seq, base)
                      /\ segs[i].end = Relative(data[i].seq, base) + data[i].length
                      /\ segs[i].length = data[i].length
  BY <1>8
<1>10. DOMAIN segs = 1..N /\ \E S : segs \in Seq(S) /\ Len(segs) = N
  <2> DEFINE S == {segs[i] : i \in 1..N}
  <2>1. segs \in [1..N -> S]
    BY <1>8
  <2> HIDE DEF S, N
  <2>2. segs \in Seq(S) /\ Len(segs) = N
    BY <1>1, <2>1
  <2> QED  BY <2>1, <2>2
<1>11. \A i \in 1..N : data[i].length \in Nat \ {0}
  BY <1>1 DEF Packet
<1>12. Spanning(segs)
  BY <1>1, <1>7, <1>9, <1>10, <1>11 DEF Spanning
<1> QED  BY <1>6, <1>9, <1>10, <1>12 DEF segs, data, base

\* Each payload packet of a direction is one of the capture's, and so is its
\* twin in the reply.
LEMMA DataCounted ==
    ASSUME CaptureInv, NEW d, NEW first, \A i \in 1..Len(capture) : Counted(first, timed[i]),
           NEW i \in 1..Len(Data(d))
    PROVE  LET p == Data(d)[i]
               q == DataIn(group, d)[i]
           IN  /\ Counted(first, p) /\ p \in Packet /\ p.direction = d /\ p.length > 0
               /\ q.seq = p.seq /\ q.at = p.at /\ q.length = p.length /\ q.syn = p.syn
<1> DEFINE p == Data(d)[i]
           q == DataIn(group, d)[i]
<1>1. p \in Packet /\ p.direction = d /\ p.length > 0 /\ q = Unclocked[p]
  BY GroupData
<1>2. InOrder(timed) /\ Data(d) = DataIn(timed, d) /\ Data(d) \in Seq(Packet)
  BY TimedInOrder, DataIs DEF Data, DataIn, Timely
<1>3. p \in Range(timed)
  <2>1. p \in Range(Data(d))
    BY <1>2 DEF Range
  <2> HIDE DEF p
  <2> QED  BY <1>2, <2>1, DataIs
<1> HIDE DEF p, q
<1>4. PICK k \in 1..Len(timed) : p = timed[k]
  BY <1>2, <1>3, PacketsTyped DEF Range
<1>5. Counted(first, p)
  BY <1>4, GroupIs
<1>6. Alike(q, p)
  BY <1>1, UnclockedIs
<1> QED  BY <1>1, <1>5, <1>6 DEF Alike, p, q

\* Where the lowest payload is the first, a segment spans the places of its packet.
LEMMA SegmentPlaces ==
    ASSUME CaptureInv, NEW d \in Direction, NEW first \in [Direction -> 0..(SeqSpace - 1)],
           \A i \in 1..Len(capture) : Counted(first, timed[i]), Data(d) # << >>, LowestFirst(d),
           NEW i \in 1..Len(Data(d))
    PROVE  Data(d)[1].at \in Int /\ Span(Segments(group, d)[i], Data(d)[1].at) = Places(Data(d)[i])
<1> DEFINE data == DataIn(group, d)
           N == Len(Data(d))
           own == Data(d)
           F == first[d]
           zero == own[1].at
           base == InitialSequence(data, d)
           segs == Segments(group, d)
<1>1. N \in Nat /\ own \in Seq(Packet) /\ 1 \in 1..N /\ Len(data) = N
  <2>1. InOrder(timed) /\ own = DataIn(timed, d)
    BY TimedInOrder DEF Data, DataIn
  <2>2. own \in Seq(Packet)
    BY <2>1, DataIs DEF Timely
  <2> HIDE DEF own
  <2> QED  BY <2>2, GroupData DEF own
<1>2. ASSUME NEW j \in 1..N
      PROVE  /\ own[j].at \in Nat /\ own[j].length \in Nat \ {0} /\ own[j].at + own[j].length <= SeqSpace
             /\ own[j].at >= zero /\ own[j].seq = (F + own[j].at) % SeqSpace
             /\ own[j].syn => own[j].at = 0
             /\ data[j].seq = own[j].seq /\ data[j].syn = own[j].syn /\ data[j].length = own[j].length
  <2> DEFINE p == own[j]
  <2>1. Counted(first, p) /\ p \in Packet /\ p.direction = d /\ p.length > 0
        /\ data[j].seq = p.seq /\ data[j].length = p.length /\ data[j].syn = p.syn
    BY DataCounted, ZenonT(60)
  <2>2. p \in Range(own)
    BY <1>1 DEF Range
  <2>3. p.at >= zero
    BY <2>2 DEF LowestFirst
  <2> HIDE DEF p, own, data
  <2>4. p.at \in Nat /\ p.length \in Nat \ {0}
    BY <2>1 DEF Packet
  <2> QED  BY <2>1, <2>3, <2>4 DEF Counted, p
<1>3. zero \in Nat /\ F \in 0..(SeqSpace - 1) /\ SeqSpace \in Nat \ {0}
  BY <1>1, <1>2, AccountingConstants
<1>4. base = ((F + zero) % SeqSpace) % SeqSpace
  <2>0. data # << >>
    <3> HIDE DEF own, data
    <3> QED  BY <1>1
  <2>1. PICK b \in {p.seq : p \in {q \in Range(data) : q.syn}} \cup {data[1].seq} : base = b % SeqSpace
    BY <2>0, SegmentsSpan
  <2>2. data \in Seq(Packet)
    <3>1. InOrder(group)
      BY TimedInOrder
    <3> QED  BY <3>1, DataIs DEF Timely
  <2> HIDE DEF own, data, base, N, F
  <2>3. CASE b = data[1].seq
    BY <1>1, <1>2, <2>1, <2>3
  <2>4. CASE b \in {p.seq : p \in {q \in Range(data) : q.syn}}
    <3>1. PICK p \in Range(data) : p.syn /\ b = p.seq
      BY <2>4
    <3>2. PICK j \in 1..N : p = data[j]
      BY <1>1, <2>2, <3>1 DEF Range
    <3>3. own[j].at = 0 /\ own[j].at >= zero
      BY <1>2, <3>1, <3>2
    <3>4. own[j].at = zero
      BY <1>3, <3>3
    <3>5. b = (F + zero) % SeqSpace
      BY <1>2, <3>1, <3>2, <3>4
    <3> QED  BY <2>1, <3>5
  <2> QED  BY <2>1, <2>3, <2>4
<1>5. segs[i].start = Relative(data[i].seq, base) /\ segs[i].length = data[i].length /\ Spanning(segs)
      /\ i \in 1..Len(segs)
  BY <1>1, SegmentsSpan
<1> DEFINE place == own[i].at
           l == own[i].length
<1>6. /\ place \in Nat /\ l \in Nat \ {0} /\ place + l <= SeqSpace /\ place >= zero
      /\ data[i].seq = (F + place) % SeqSpace /\ data[i].length = l
  BY <1>2
<1>7. Places(own[i]) = place..(place + l - 1)
  BY DEF Places
<1> HIDE DEF own, data, base, N, F, zero, place, l, segs
<1>8. Relative((F + place) % SeqSpace, base) = (((F + place) % SeqSpace) - base) % SeqSpace
  <2>1. base \in Int
    <3> DEFINE x == F + zero
    <3>1. x \in Int /\ x % SeqSpace \in Int
      BY <1>3
    <3> DEFINE y == x % SeqSpace
    <3> HIDE DEF x
    <3>2. y \in Int
      BY <3>1
    <3> HIDE DEF y
    <3>3. y % SeqSpace \in Int
      BY <1>3, <3>2
    <3> QED  BY <1>4, <3>3 DEF x, y
  <2>2. base # None
    BY <2>1, NoneIsNoNumber
  <2> QED  BY <2>2 DEF Relative
<1>9. segs[i].start = place - zero
  <2> DEFINE a == F + place
             b == F + zero
  <2>1. a \in Int /\ b \in Int /\ a - b \in 0..(SeqSpace - 1) /\ a - b = place - zero
    BY <1>3, <1>6
  <2>2. segs[i].start = ((a % SeqSpace) - ((b % SeqSpace) % SeqSpace)) % SeqSpace
    BY <1>4, <1>5, <1>6, <1>8
  <2> HIDE DEF a, b
  <2>3. ((a % SeqSpace) - ((b % SeqSpace) % SeqSpace)) % SeqSpace = a - b
    BY <1>3, <2>1, ModBetween
  <2> QED  BY <2>1, <2>2, <2>3
<1>10. segs[i].end = segs[i].start + l
  BY <1>5, <1>6 DEF Spanning
<1>11. zero + segs[i].start = place /\ zero + segs[i].end - 1 = place + l - 1
  BY <1>3, <1>6, <1>9, <1>10
<1>12. Span(segs[i], zero) = place..(place + l - 1)
  BY <1>11 DEF Span
<1> QED  BY <1>3, <1>7, <1>12 DEF own, zero, segs

\* A segment is a repeat exactly when it carries a byte carried before; the
\* overlaps that are added up and cut to the segment's length never make it new
\* twice, and its first transmission was captured before it.
THEOREM RepeatsWereSent == Spec => []RepeatsAreResent
<1>1. CapturedInv => RepeatsAreResent
  <2> SUFFICES ASSUME CapturedInv, NEW d \in Direction
               PROVE  LET segments == Segments(group, d)
                          data == Data(d)
                      IN  /\ data # << >> /\ LowestFirst(d) =>
                              /\ Repeats(segments) =
                                  {i \in DOMAIN data : Places(data[i]) \cap PlacesOf(SubSeq(data, 1, i - 1)) # {}}
                              /\ UniqueBytes(segments) + NewBytes(segments) <= Cardinality(PlacesOf(data))
                          /\ \A i \in Repeats(segments) :
                              Original(segments, i) # None => Original(segments, i) < i
    BY DEF RepeatsAreResent
  <2> DEFINE segs == Segments(group, d)
             data == Data(d)
             N == Len(data)
  <2>1. CaptureInv
    BY DEF CapturedInv
  <2>2. Spanning(segs) /\ Len(segs) = N
    BY <2>1, SegmentsSpan, GroupData
  <2>3. \A i \in Repeats(segs) : Original(segs, i) # None => Original(segs, i) < i
    <3> HIDE DEF segs
    <3> QED  BY <2>2, OriginalBefore
  <2>4. ASSUME data # << >>, LowestFirst(d)
        PROVE  /\ Repeats(segs) = {i \in DOMAIN data : Places(data[i]) \cap PlacesOf(SubSeq(data, 1, i - 1)) # {}}
               /\ UniqueBytes(segs) + NewBytes(segs) <= Cardinality(PlacesOf(data))
    <3>1. PICK first \in [Direction -> 0..(SeqSpace - 1)] :
            \A i \in 1..Len(capture) : Counted(first, timed[i])
      BY NumbersOfPlaces
    <3> DEFINE zero == data[1].at
    <3>2. ASSUME NEW i \in 1..N PROVE zero \in Int /\ Span(segs[i], zero) = Places(data[i])
      BY <2>1, <2>4, <3>1, SegmentPlaces
    <3>3. data \in Seq(Packet) /\ N \in Nat /\ DOMAIN data = 1..N /\ 1 \in 1..N
      <4>1. InOrder(timed) /\ data = DataIn(timed, d)
        BY <2>1, TimedInOrder DEF Data, DataIn
      <4>2. data \in Seq(Packet)
        BY <4>1, DataIs DEF Timely
      <4> HIDE DEF data
      <4> QED  BY <2>4, <4>2
    <3> HIDE DEF data, segs
    <3>4. zero \in Int
      BY <3>2, <3>3
    <3> HIDE DEF zero
    <3>5. ASSUME NEW n \in 0..N
          PROVE  PlacesOf(SubSeq(data, 1, n)) = UNION {Span(segs[j], zero) : j \in 1..n}
      <4> DEFINE s == SubSeq(data, 1, n)
      <4>1. Len(s) = n /\ s \in Seq(Packet) /\ \A j \in 1..n : s[j] = data[j]
        BY <3>3
      <4>2. DOMAIN s = 1..n /\ n \in Nat
        <5> HIDE DEF s
        <5> QED  BY <4>1, <3>3
      <4> HIDE DEF s
      <4>3. \A j \in 1..n : j \in 1..N /\ Span(segs[j], zero) = Places(s[j])
        <5>1. \A j \in 1..n : j \in 1..N
          BY <3>3
        <5> QED  BY <3>2, <4>1, <5>1
      <4>4. Range(s) = {s[j] : j \in 1..n}
        BY <4>2 DEF Range
      <4>5. PlacesOf(s) = UNION {Places(s[j]) : j \in 1..n}
        BY <4>4 DEF PlacesOf
      <4> QED  BY <4>3, <4>5 DEF s
    <3>6. ASSUME NEW i \in 1..N
          PROVE  i \in Repeats(segs) <=> Places(data[i]) \cap PlacesOf(SubSeq(data, 1, i - 1)) # {}
      <4>1. i - 1 \in 0..N /\ \A j \in 1..(i - 1) : j \in 1..N
        BY <3>3
      <4> DEFINE n == i - 1
      <4> HIDE DEF n
      <4>2. PlacesOf(SubSeq(data, 1, n)) = UNION {Span(segs[j], zero) : j \in 1..n}
        BY <3>5, <4>1 DEF n
      <4>3. i \in Repeats(segs) <=> \E j \in 1..n : Span(segs[i], zero) \cap Span(segs[j], zero) # {}
        BY <2>2, <3>4, RepeatIs DEF n
      <4>4. Span(segs[i], zero) = Places(data[i])
        BY <3>2
      <4>5. i \in Repeats(segs) <=> Places(data[i]) \cap PlacesOf(SubSeq(data, 1, n)) # {}
        BY <4>2, <4>3, <4>4
      <4> QED  BY <4>5 DEF n
    <3>7. Repeats(segs) \in SUBSET (1..N)
      BY <2>2 DEF Repeats, Spanning
    <3>8. Repeats(segs) = {i \in DOMAIN data : Places(data[i]) \cap PlacesOf(SubSeq(data, 1, i - 1)) # {}}
      BY <3>3, <3>6, <3>7
    <3>9. SubSeq(data, 1, N) = data /\ N \in 0..N
      BY <3>3
    <3>10. Covered(segs, N, zero) = PlacesOf(data)
      BY <3>5, <3>9 DEF Covered
    <3>11. UniqueBytes(segs) + NewBytes(segs) <= Cardinality(Covered(segs, N, zero))
      BY <2>2, <3>4, CountedBytes, FreshCovers
    <3> QED  BY <3>8, <3>10, <3>11
  <2> QED  BY <2>3, <2>4
<1> QED  BY <1>1, CapturedInvariant, PTL

-----------------------------------------------------------------------------
(* Ranges *)

\* The order in which ranges are merged.
Earlier(r, s) == r[1] < s[1] \/ (r[1] = s[1] /\ r[2] < s[2])

\* The ranges in the order they are merged in.
LEMMA RangesSorted ==
    ASSUME NEW s \in Seq(Nat \X Nat)
    PROVE  LET r == Sorted(s, LAMBDA x, y : x[1] < y[1] \/ (x[1] = y[1] /\ x[2] < y[2])) IN
           /\ r \in Seq(Nat \X Nat) /\ Len(r) = Len(s)
           /\ \A i, j \in 1..Len(s) : i <= j => r[i][1] <= r[j][1]
           /\ \A y : (\E k \in 1..Len(s) : r[k] = y) <=> \E k \in 1..Len(s) : s[k] = y
<1> DEFINE N == Len(s)
           S == Nat \X Nat
           B == {p \in S \X S : Earlier(p[1], p[2])}
           Put(rest, n) == LET at == n - Cardinality({k \in 1..(n - 1) : s[n][1] < rest[k][1]
                                                        \/ (s[n][1] = rest[k][1] /\ s[n][2] < rest[k][2])})
                           IN  SubSeq(rest, 1, at - 1) \o <<s[n]>> \o SubSeq(rest, at, n - 1)
           Is(g) == g = [n \in 0..N |-> IF n = 0 THEN << >> ELSE Put(g[n - 1], n)]
           r == Sorted(s, LAMBDA x, y : x[1] < y[1] \/ (x[1] = y[1] /\ x[2] < y[2]))
<1>1. N \in Nat /\ N \in 0..N /\ \A i \in 1..N : s[i] \in S /\ i \in 0..N /\ i # 0 /\ i - 1 \in 0..N
  OBVIOUS
<1>2. r = (CHOOSE g : Is(g))[N]
  BY DEF Sorted
<1>3. \A x, y \in S : <<x, y>> \in B <=> Earlier(x, y)
  OBVIOUS
<1>4. OrderOn(B, S)
  <2>1. \A x \in S : x[1] \in Nat /\ x[2] \in Nat
    OBVIOUS
  <2> HIDE DEF B, S
  <2>2. ASSUME NEW x \in S, NEW y \in S, Earlier(x, y) PROVE ~Earlier(y, x)
    BY <2>1, <2>2 DEF Earlier
  <2>3. ASSUME NEW x \in S, NEW y \in S, NEW z \in S, Earlier(x, y), ~Earlier(z, y) PROVE Earlier(x, z)
    BY <2>1, <2>3 DEF Earlier
  <2> QED  BY <1>3, <2>2, <2>3 DEF OrderOn
<1> HIDE DEF B, S, r
<1>5. PICK g : /\ SortSteps(g, s, B) /\ DOMAIN g = 0..N /\ g[0] = << >>
               /\ \A n \in 0..N : SortOf(g[n], s, n, S, B)
  <2>1. s \in Seq(S)
    BY DEF S
  <2> QED  BY <1>4, <2>1, SortExists
<1>6. ASSUME NEW n \in 1..N PROVE g[n] = Put(g[n - 1], n)
  <2>1. g[n] = PutIn(g[n - 1], s[n], n, B)
    BY <1>1, <1>5 DEF SortSteps
  <2> DEFINE rest == g[n - 1]
  <2>2. rest \in Seq(S) /\ Len(rest) = n - 1
    BY <1>1, <1>5 DEF SortOf
  <2> HIDE DEF rest
  <2>3. \A k \in 1..(n - 1) : rest[k] \in S
    BY <2>2
  <2>4. {k \in 1..(n - 1) : <<s[n], rest[k]>> \in B}
            = {k \in 1..(n - 1) : s[n][1] < rest[k][1] \/ (s[n][1] = rest[k][1] /\ s[n][2] < rest[k][2])}
    BY <1>1, <1>3, <2>3 DEF Earlier
  <2> QED  BY <2>1, <2>4 DEF PutIn, rest
<1> HIDE DEF Put
<1>7. Is(g)
  <2> DEFINE next(n) == IF n = 0 THEN << >> ELSE Put(g[n - 1], n)
  <2>1. g = [n \in 0..N |-> g[n]]
    BY <1>5 DEF SortSteps
  <2>2. \A n \in 0..N : g[n] = next(n)
    <3>1. \A n \in 0..N : n = 0 \/ n \in 1..N
      BY <1>1
    <3> QED  BY <1>5, <1>6, <3>1
  <2> HIDE DEF next
  <2>3. g = [n \in 0..N |-> next(n)]
    BY <2>1, <2>2
  <2> QED  BY <2>3 DEF next
<1>8. ASSUME NEW h, Is(h) PROVE h[N] = g[N]
  <2> DEFINE T == {n \in 0..N : h[n] = g[n]}
  <2>0. h[0] = << >> /\ \A n \in 1..N : h[n] = Put(h[n - 1], n)
    <3>1. 0 \in 0..N
      BY <1>1
    <3> QED  BY <1>1, <1>8, <3>1
  <2>1. 0 \in T
    BY <1>1, <1>5, <2>0
  <2>2. ASSUME NEW n \in 1..N, n - 1 \in T PROVE n \in T
    BY <1>1, <1>6, <2>0, <2>2
  <2>3. \A n \in 0..N : n \in T
    <3> HIDE DEF T
    <3> QED  BY <1>1, <2>1, <2>2, UpTo
  <2> QED  BY <1>1, <2>3
<1> HIDE DEF Is
<1>9. r = g[N]
  BY <1>2, <1>7, <1>8
<1>10. r \in Seq(S) /\ Len(r) = N /\ OrderedBy(B, r)
       /\ \A y : (\E k \in 1..N : r[k] = y) <=> \E k \in 1..N : s[k] = y
  BY <1>1, <1>5, <1>9, ZenonT(60) DEF SortOf
<1>11. ASSUME NEW i \in 1..N, NEW j \in 1..N, i <= j PROVE r[i][1] <= r[j][1]
  <2> DEFINE x == r[i]
             y == r[j]
  <2>1. x \in S /\ y \in S /\ <<y, x>> \notin B
    BY <1>10, <1>11 DEF OrderedBy
  <2> HIDE DEF x, y
  <2>2. ~(y[1] < x[1]) /\ x[1] \in Nat /\ y[1] \in Nat
    BY <1>3, <2>1 DEF Earlier, S
  <2>3. x[1] <= y[1]
    BY <2>2
  <2> QED  BY <2>3 DEF x, y
<1> QED  BY <1>10, <1>11 DEF r, S

\* The members of a finite set, one after the other.
LEMMA Listed ==
    ASSUME NEW R, IsFiniteSet(R)
    PROVE  SetToSeq(R) \in Seq(R) /\ \A y : y \in R <=> \E k \in 1..Len(SetToSeq(R)) : SetToSeq(R)[k] = y
<1> DEFINE n == Cardinality(R)
           P(f) == f \in [1..n -> R] /\ IsInjective(f)
<1>1. n \in Nat /\ ExistsBijection(1..n, R)
  BY FS_CardinalityType
<1>2. \E f : P(f)
  BY <1>1 DEF ExistsBijection, Bijection, Injection
<1>3. SetToSeq(R) = CHOOSE f : P(f)
  <2>1. (CHOOSE f : P(f)) = (CHOOSE f \in [1..n -> R] : IsInjective(f))
    OBVIOUS
  <2> QED  BY <2>1 DEF SetToSeq
<1> DEFINE f == SetToSeq(R)
<1>4. f \in [1..n -> R] /\ IsInjective(f)
  <2> HIDE DEF P
  <2>1. P(f)
    BY <1>2, <1>3
  <2> QED  BY <2>1 DEF P
<1> HIDE DEF f
<1>5. f \in Injection(1..n, R)
  BY <1>4 DEF Injection
<1>6. f \in Surjection(1..n, R)
  <2>1. IsFiniteSet(1..n) /\ Cardinality(1..n) = n
    <3>1. 1 \in Int /\ n \in Int
      BY <1>1
    <3>2. Cardinality(1..n) = IF 1 > n THEN 0 ELSE n - 1 + 1
      BY <3>1, FS_Interval
    <3>3. IsFiniteSet(1..n)
      BY <3>1, FS_Interval
    <3> DEFINE c == Cardinality(1..n)
    <3>4. c = IF 1 > n THEN 0 ELSE n - 1 + 1
      BY <3>2
    <3> HIDE DEF c, n
    <3>5. c = n
      BY <1>1, <3>4
    <3> QED  BY <3>3, <3>5 DEF c
  <2> QED  BY <1>5, <2>1, FS_Injection
<1>7. f \in Seq(R) /\ Len(f) = n
  <2> HIDE DEF n
  <2> QED  BY <1>1, <1>4
<1>8. \A y \in R : \E k \in 1..n : f[k] = y
  BY <1>6 DEF Surjection
<1>9. \A k \in 1..n : f[k] \in R
  BY <1>4
<1> HIDE DEF n
<1> QED  BY <1>7, <1>8, <1>9 DEF f

\* A place in a range.
Inside(x, r) == x \in Nat /\ r[1] <= x /\ x < r[2]
Range2 == {r \in Nat \X Nat : r[1] < r[2]}

\* Ranges one after the other with room between them, that hold the places of the
\* first n of others.
Apart(m) ==
    /\ m \in Seq(Nat \X Nat)
    /\ \A k \in 1..Len(m) : m[k][1] < m[k][2]
    /\ \A k, l \in 1..Len(m) : k < l => m[k][2] < m[l][1]
Merged(m, s, n) ==
    /\ Apart(m)
    /\ m # << >> => n # 0 /\ m[Len(m)][1] <= s[n][1]
    /\ \A x : (\E k \in 1..Len(m) : Inside(x, m[k])) <=> \E k \in 1..n : Inside(x, s[k])

\* The last of a sequence replaced.
LEMMA LastReplaced ==
    ASSUME NEW S, NEW m \in Seq(S), Len(m) \in 1..Len(m), NEW y \in S
    PROVE  LET t == Append(Front(m), y) IN
           t \in Seq(S) /\ Len(t) = Len(m) /\ t[Len(m)] = y /\ \A k \in 1..(Len(m) - 1) : t[k] = m[k]
<1> DEFINE L == Len(m)
           front == Front(m)
<1>1. front \in Seq(S) /\ Len(front) = L - 1 /\ \A k \in 1..(L - 1) : front[k] = m[k]
  BY FrontOf
<1>2. L \in Nat \ {0} /\ L - 1 + 1 = L
  OBVIOUS
<1> HIDE DEF front, L
<1>3. /\ Append(front, y) \in Seq(S) /\ Len(Append(front, y)) = L
      /\ Append(front, y)[L] = y /\ \A k \in 1..(L - 1) : Append(front, y)[k] = m[k]
  BY <1>1, <1>2
<1> QED  BY <1>3 DEF front, L

\* One more range, merged or appended, keeps them apart and holds what they hold.
LEMMA MergeGrows ==
    ASSUME NEW s, NEW n \in Nat \ {0}, \A k \in 1..n : s[k] \in Range2,
           \A k \in 1..n : s[k][1] <= s[n][1], NEW m, Merged(m, s, n - 1)
    PROVE  Merged(MergeRange(m, s[n]), s, n)
<1> DEFINE r == s[n]
           L == Len(m)
           S == Nat \X Nat
<1>1. r \in S /\ r[1] \in Nat /\ r[2] \in Nat /\ r[1] < r[2]
  <2>1. s[n] \in Range2
    OBVIOUS
  <2> QED  BY <2>1 DEF Range2
<1>2. /\ m \in Seq(S) /\ L \in Nat
      /\ \A k \in 1..L : m[k] \in S /\ m[k][1] \in Nat /\ m[k][2] \in Nat /\ m[k][1] < m[k][2]
      /\ \A k, l \in 1..L : k < l => m[k][2] < m[l][1]
  BY DEF Merged, Apart
<1>3. /\ \A k \in 1..n : k = n \/ k \in 1..(n - 1)
      /\ n \in 1..n /\ \A k \in 1..(n - 1) : k \in 1..n
  OBVIOUS
<1>4. \A x : (\E k \in 1..L : Inside(x, m[k])) \/ Inside(x, r) <=> \E k \in 1..n : Inside(x, s[k])
  BY <1>3 DEF Merged
<1>5. CASE m # << >> /\ r[1] <= Last(m)[2]
  <2> DEFINE old == m[L]
             top == Most(old[2], r[2])
             y == <<old[1], top>>
             t == Append(Front(m), y)
  <2>1. L \in 1..L /\ L # 0
    BY <1>2, <1>5
  <2>2. old[1] \in Nat /\ old[2] \in Nat /\ old[1] < old[2] /\ r[1] <= old[2] /\ old[1] <= r[1]
    <3>1. old[1] <= s[n - 1][1] /\ n - 1 \in 1..n
      <4>1. n - 1 # 0 /\ m[Len(m)][1] <= s[n - 1][1]
        BY <1>5 DEF Merged
      <4> QED  BY <4>1
    <3>2. s[n - 1] \in Range2 /\ s[n - 1][1] <= r[1]
      BY <3>1
    <3>3. s[n - 1][1] \in Nat
      BY <3>2 DEF Range2
    <3>4. old[1] \in Nat /\ old[2] \in Nat /\ old[1] < old[2] /\ r[1] <= old[2]
      BY <1>2, <1>5, <2>1 DEF Last
    <3> DEFINE a == old[1]
               b == s[n - 1][1]
               c == r[1]
    <3>5. a <= b /\ b <= c /\ a \in Nat /\ b \in Nat /\ c \in Nat
      BY <1>1, <3>1, <3>2, <3>3, <3>4
    <3> HIDE DEF a, b, c
    <3>6. a <= c
      BY <3>5
    <3> QED  BY <3>4, <3>6 DEF a, c
  <2> HIDE DEF old
  <2>3. top \in Nat /\ top >= old[2] /\ top >= r[2] /\ (top = old[2] \/ top = r[2])
    BY <1>1, <2>2 DEF Most
  <2> HIDE DEF top
  <2>4. y \in S /\ y[1] = old[1] /\ y[2] = top
    BY <2>2, <2>3
  <2> HIDE DEF y
  <2>5. t \in Seq(S) /\ Len(t) = L /\ t[L] = y /\ \A k \in 1..(L - 1) : t[k] = m[k]
    <3>1. m \in Seq(S) /\ Len(m) \in 1..Len(m) /\ y \in S
      BY <1>2, <2>1, <2>4
    <3> HIDE DEF S
    <3> QED  BY <3>1, LastReplaced
  <2>6. MergeRange(m, r) = t
    BY <1>5 DEF MergeRange, Last, t, y, top, old
  <2> HIDE DEF t, S
  <2>7. \A k \in 1..L : (k = L \/ (k \in 1..(L - 1) /\ k < L))
    BY <1>2
  <2>8. \A k \in 1..(L - 1) : k \in 1..L /\ t[k] = m[k]
    BY <1>2, <2>5
  <2>9. \A k \in 1..L : t[k][1] = m[k][1] /\ t[k][2] \in Nat /\ t[k][1] < t[k][2]
    <3>1. t[L][1] = m[L][1] /\ t[L][2] = top /\ m[L][1] < top
      BY <2>2, <2>3, <2>4, <2>5 DEF old
    <3> QED  BY <1>2, <2>3, <2>7, <2>8, <3>1
  <2>10. \A k, l \in 1..L : k < l => t[k][2] < t[l][1]
    <3>1. ASSUME NEW k \in 1..L, NEW l \in 1..L, k < l PROVE t[k][2] < t[l][1]
      <4>1. k # L
        BY <3>1
      <4>2. t[k] = m[k] /\ t[l][1] = m[l][1]
        BY <2>7, <2>8, <2>9, <4>1
      <4> QED  BY <1>2, <3>1, <4>2
    <3> QED  BY <3>1
  <2>11. ASSUME NEW x PROVE Inside(x, y) <=> Inside(x, old) \/ Inside(x, r)
    BY <1>1, <2>2, <2>3, <2>4 DEF Inside
  <2>12. ASSUME NEW x
         PROVE  (\E k \in 1..L : Inside(x, t[k])) <=> (\E k \in 1..L : Inside(x, m[k])) \/ Inside(x, r)
    <3>1. \A k \in 1..(L - 1) : Inside(x, t[k]) <=> Inside(x, m[k])
      BY <2>8
    <3>2. Inside(x, t[L]) <=> Inside(x, m[L]) \/ Inside(x, r)
      BY <2>5, <2>11 DEF old
    <3> QED  BY <2>1, <2>7, <2>8, <3>1, <3>2
  <2>13. Apart(t)
    BY <2>5, <2>9, <2>10 DEF Apart, S
  <2>14. t[Len(t)][1] <= s[n][1]
    BY <2>2, <2>4, <2>5
  <2>15. \A x : (\E k \in 1..Len(t) : Inside(x, t[k])) <=> \E k \in 1..n : Inside(x, s[k])
    BY <1>4, <2>5, <2>12
  <2> QED  BY <2>6, <2>13, <2>14, <2>15 DEF Merged
<1>6. CASE ~(m # << >> /\ r[1] <= Last(m)[2])
  <2> DEFINE t == Append(m, r)
  <2>1. t \in Seq(S) /\ Len(t) = L + 1 /\ t[L + 1] = r /\ \A k \in 1..L : t[k] = m[k]
    <3>1. m \in Seq(S) /\ r \in S
      BY <1>1, <1>2
    <3> HIDE DEF r, S
    <3> QED  BY <3>1
  <2>2. MergeRange(m, r) = t
    BY <1>6 DEF MergeRange
  <2> HIDE DEF t, S
  <2>3. \A k \in 1..(L + 1) : (k = L + 1 \/ (k \in 1..L /\ k < L + 1))
    BY <1>2
  <2>4. L + 1 \in 1..(L + 1) /\ \A k \in 1..L : k \in 1..(L + 1)
    BY <1>2
  <2>5. \A k \in 1..L : m[k][2] < r[1]
    <3>1. ASSUME NEW k \in 1..L PROVE m[k][2] < r[1]
      <4>1. L \in 1..L /\ m # << >>
        <5>1. L \in 1..L /\ L # 0
          <6>1. L \in Nat
            BY <1>2
          <6> QED  BY <6>1
        <5> QED  BY <5>1
      <4>2. m[L][2] \in Nat /\ m[L][2] < r[1] /\ m[L][1] < m[L][2] /\ m[L][1] \in Nat
        <5>1. ~(r[1] <= m[L][2])
          BY <1>6, <4>1 DEF Last
        <5> QED  BY <1>1, <1>2, <4>1, <5>1
      <4>3. k = L \/ k < L
        BY <1>2
      <4>4. k < L => m[k][2] < m[L][1]
        BY <1>2, <4>1
      <4> QED  BY <1>1, <1>2, <4>2, <4>3, <4>4
    <3> QED  BY <3>1
  <2>6. \A k \in 1..(L + 1) : t[k][1] < t[k][2]
    BY <1>1, <1>2, <2>1, <2>3
  <2>7. \A k, l \in 1..(L + 1) : k < l => t[k][2] < t[l][1]
    <3>1. ASSUME NEW k \in 1..(L + 1), NEW l \in 1..(L + 1), k < l PROVE t[k][2] < t[l][1]
      <4>1. k \in 1..L /\ (l = L + 1 \/ l \in 1..L)
        <5>1. L \in Nat
          BY <1>2
        <5> HIDE DEF L
        <5> QED  BY <3>1, <5>1
      <4> QED  BY <1>2, <2>1, <2>5, <3>1, <4>1
    <3> QED  BY <3>1
  <2>8. Apart(t)
    BY <2>1, <2>6, <2>7 DEF Apart, S
  <2>9. t[Len(t)][1] <= s[n][1]
    BY <1>1, <2>1
  <2>10. ASSUME NEW x
         PROVE  (\E k \in 1..(L + 1) : Inside(x, t[k])) <=> (\E k \in 1..L : Inside(x, m[k])) \/ Inside(x, r)
    BY <2>1, <2>3, <2>4
  <2>11. \A x : (\E k \in 1..Len(t) : Inside(x, t[k])) <=> \E k \in 1..n : Inside(x, s[k])
    BY <1>4, <2>1, <2>10
  <2> QED  BY <2>2, <2>8, <2>9, <2>11 DEF Merged
<1> QED  BY <1>5, <1>6

\* Merging gives ranges.
LEMMA MergeTyped ==
    ASSUME NEW m \in Seq(Nat \X Nat), NEW r \in Nat \X Nat
    PROVE  MergeRange(m, r) \in Seq(Nat \X Nat)
<1> DEFINE S == Nat \X Nat
           y == <<Last(m)[1], Most(Last(m)[2], r[2])>>
<1>1. Append(m, r) \in Seq(S)
  OBVIOUS
<1>2. CASE m # << >>
  <2>1. Len(m) \in 1..Len(m) /\ Last(m) \in S
    BY <1>2 DEF Last
  <2>2. y \in S
    <3> DEFINE a == Last(m)
    <3>1. a[1] \in Nat /\ a[2] \in Nat /\ r[2] \in Nat
      BY <2>1
    <3> HIDE DEF a
    <3>2. <<a[1], Most(a[2], r[2])>> \in S
      BY <3>1 DEF Most
    <3> QED  BY <3>2 DEF a
  <2> HIDE DEF y, S
  <2>3. Append(Front(m), y) \in Seq(S)
    <3>1. m \in Seq(S)
      BY DEF S
    <3> QED  BY <2>1, <2>2, <3>1, LastReplaced
  <2> QED  BY <1>1, <2>3 DEF MergeRange, y, S
<1> QED  BY <1>1, <1>2 DEF MergeRange

\* Merged in the order of their starts, ranges keep their places.
LEMMA MergedAll ==
    ASSUME NEW s \in Seq(Nat \X Nat), \A k \in 1..Len(s) : s[k] \in Range2,
           \A i, j \in 1..Len(s) : i <= j => s[i][1] <= s[j][1]
    PROVE  Merged(FoldLeft(MergeRange, << >>, s), s, Len(s))
<1> DEFINE N == Len(s)
           All == Seq(Nat \X Nat)
           step == [i \in 1..N |-> [r \in All |-> MergeRange(r, s[i])]]
           Is(it) == it = [c \in SUBSET (DOMAIN s) |->
                        IF c = {} THEN << >> ELSE LET x == Max(c) IN MergeRange(it[c \ {x}], s[x])]
<1>1. FoldLeft(MergeRange, << >>, s) = (CHOOSE it : Is(it))[DOMAIN s]
  BY DEF FoldLeft, MapThenFoldSet
<1>2. N \in Nat /\ DOMAIN s = 1..N /\ \A i \in 1..N : s[i] \in Nat \X Nat
  OBVIOUS
<1>3. step \in [1..N -> [All -> All]]
  BY <1>2, MergeTyped
<1>4. << >> \in All
  OBVIOUS
<1> HIDE DEF step, All
<1>5. PICK iter : FoldsOver(iter, N, All, << >>, step)
  BY <1>2, <1>3, <1>4, FoldExists
<1>6. Is(iter)
  <2> DEFINE next(c) == IF c = {} THEN << >> ELSE LET x == Max(c) IN MergeRange(iter[c \ {x}], s[x])
  <2>1. ASSUME NEW c \in SUBSET (1..N) PROVE iter[c] = next(c)
    <3>1. CASE c = {}
      BY <1>5, <3>1 DEF FoldsOver
    <3>2. CASE c # {}
      <4> DEFINE x == Max(c)
      <4>1. x \in 1..N
        BY <1>2, <3>2, MaxIsIn
      <4>2. c \ {x} \in SUBSET (1..N)
        OBVIOUS
      <4>3. iter[c \ {x}] \in All /\ iter[c] = step[x][iter[c \ {x}]]
        BY <1>5, <3>2, <4>2 DEF FoldsOver
      <4> HIDE DEF x
      <4>4. iter[c] = MergeRange(iter[c \ {x}], s[x])
        BY <4>1, <4>3 DEF step
      <4> QED  BY <3>2, <4>4 DEF x
    <3> QED  BY <3>1, <3>2
  <2>2. iter = [c \in SUBSET (1..N) |-> next(c)]
    <3> HIDE DEF next
    <3> QED  BY <1>5, <2>1 DEF FoldsOver
  <2> QED  BY <1>2, <2>2
<1>7. ASSUME NEW it, Is(it)
      PROVE  it[1..0] = << >> /\ \A n \in 1..N : it[1..n] = MergeRange(it[1..(n - 1)], s[n])
  <2>1. it[1..0] = << >>
    <3>1. 1..0 = {} /\ {} \in SUBSET (1..N)
      OBVIOUS
    <3> QED  BY <1>2, <1>7, <3>1
  <2>2. ASSUME NEW n \in 1..N PROVE it[1..n] = MergeRange(it[1..(n - 1)], s[n])
    <3>1. n \in Nat /\ n # 0 /\ 1..n \in SUBSET (1..N)
      BY <1>2
    <3>2. 1..n # {} /\ Max(1..n) = n /\ (1..n) \ {n} = 1..(n - 1)
      BY <3>1, TopIndex
    <3>3. it[1..n] = IF 1..n = {} THEN << >> ELSE MergeRange(it[(1..n) \ {Max(1..n)}], s[Max(1..n)])
      BY <1>2, <1>7, <3>1
    <3> QED  BY <3>2, <3>3
  <2> QED  BY <2>1, <2>2
<1> HIDE DEF Is
<1>8. PICK it : Is(it) /\ FoldLeft(MergeRange, << >>, s) = it[1..N]
  BY <1>1, <1>2, <1>6
<1> DEFINE T == {n \in 0..N : Merged(it[1..n], s, n)}
<1>9. 0 \in T
  <2>1. it[1..0] = << >> /\ Len(<< >>) = 0 /\ 1..0 = {} /\ 0 \in 0..N
    <3>1. it[1..0] = << >>
      BY <1>7, <1>8
    <3>2. Len(<< >>) = 0 /\ 1..0 = {} /\ 0 \in 0..N
      BY <1>2
    <3> QED  BY <3>1, <3>2
  <2>2. Merged(<< >>, s, 0)
    <3>1. << >> \in Seq(Nat \X Nat)
      OBVIOUS
    <3> QED  BY <2>1, <3>1 DEF Merged, Apart
  <2> QED  BY <2>1, <2>2
<1>10. ASSUME NEW n \in 1..N, n - 1 \in T PROVE n \in T
  <2>1. n \in Nat \ {0} /\ \A k \in 1..n : k \in 1..N /\ k <= n
    BY <1>2
  <2> DEFINE m == it[1..(n - 1)]
  <2>2. Merged(m, s, n - 1)
    BY <1>10
  <2>3. it[1..n] = MergeRange(m, s[n]) /\ n \in 0..N
    BY <1>2, <1>7, <1>8
  <2> HIDE DEF m
  <2>4. Merged(MergeRange(m, s[n]), s, n)
    <3>1. \A k \in 1..n : s[k] \in Range2 /\ s[k][1] <= s[n][1]
      BY <2>1
    <3> QED  BY <2>1, <2>2, <3>1, MergeGrows
  <2> QED  BY <2>3, <2>4
<1>11. \A n \in 0..N : n \in T
  <2> HIDE DEF T, N
  <2> QED  BY <1>2, <1>9, <1>10, UpTo
<1>12. N \in T
  BY <1>2, <1>11
<1> QED  BY <1>8, <1>12

-----------------------------------------------------------------------------
(* Widths *)

Widths(m) == [k \in 1..Len(m) |-> m[k][2] - m[k][1]]

\* The places in the first n ranges.
Held(m, n) == {x \in Nat : \E k \in 1..n : Inside(x, m[k])}

\* The widths of ranges that lie apart, added up.
LEMMA TotalWidths ==
    ASSUME NEW m, Apart(m)
    PROVE  /\ Widths(m) \in [1..Len(m) -> Nat]
           /\ Total(m, LAMBDA r : r[2] - r[1]) = Sum(Widths(m), Len(m))
<1> DEFINE n == Len(m)
           w == Widths(m)
           Is(it) == it = [c \in SUBSET (DOMAIN m) |-> IF c = {} THEN 0
                            ELSE LET x == Max(c) IN it[c \ {x}] + (m[x][2] - m[x][1])]
<1>1. n \in Nat /\ DOMAIN m = 1..n /\ \A k \in 1..n : m[k] \in Nat \X Nat
  BY DEF Apart
<1>2. w \in [1..n -> Nat] /\ \A k \in 1..n : w[k] = m[k][2] - m[k][1]
  <2>1. \A k \in 1..n : m[k][1] \in Nat /\ m[k][2] \in Nat /\ m[k][1] < m[k][2]
    BY <1>1 DEF Apart
  <2>2. \A k \in 1..n : m[k][2] - m[k][1] \in Nat
    BY <2>1
  <2> QED  BY <2>2 DEF Widths
<1>3. Total(m, LAMBDA r : r[2] - r[1]) = (CHOOSE it : Is(it))[DOMAIN m]
  BY DEF Total, FoldLeft, MapThenFoldSet
<1> HIDE DEF n, w
<1>4. ASSUME NEW it PROVE Is(it) <=> SumFold(it, w, n)
  <2> DEFINE left(c) == IF c = {} THEN 0 ELSE LET x == Max(c) IN it[c \ {x}] + (m[x][2] - m[x][1])
             right(c) == IF c = {} THEN 0 ELSE LET x == Max(c) IN it[c \ {x}] + w[x]
  <2>1. ASSUME NEW c \in SUBSET (1..n) PROVE left(c) = right(c)
    <3>1. CASE c # {}
      <4>1. Max(c) \in 1..n
        BY <1>1, <3>1, MaxIsIn
      <4>2. m[Max(c)][2] - m[Max(c)][1] = w[Max(c)]
        BY <1>2, <4>1
      <4> QED  BY <4>2
    <3> QED  BY <3>1
  <2>2. Is(it) <=> it = [c \in SUBSET (1..n) |-> left(c)]
    BY <1>1
  <2>3. SumFold(it, w, n) <=> it = [c \in SUBSET (1..n) |-> right(c)]
    BY DEF SumFold
  <2> HIDE DEF left, right, Is
  <2>4. [c \in SUBSET (1..n) |-> left(c)] = [c \in SUBSET (1..n) |-> right(c)]
    BY <2>1
  <2> QED  BY <2>2, <2>3, <2>4
<1> HIDE DEF Is
<1>5. (CHOOSE it : Is(it)) = (CHOOSE it : SumFold(it, w, n))
  BY <1>4
<1>6. (CHOOSE it : SumFold(it, w, n))[1..n] = Sum(w, n)
  BY <1>1, <1>2, FoldSums
<1> QED  BY <1>1, <1>2, <1>3, <1>5, <1>6 DEF n, w

\* Ranges with room between them have as many places as their widths add up to.
LEMMA WidthsAre ==
    ASSUME NEW m, Apart(m)
    PROVE  IsFiniteSet(Held(m, Len(m))) /\ Sum(Widths(m), Len(m)) = Cardinality(Held(m, Len(m)))
<1> DEFINE N == Len(m)
           w == Widths(m)
           T == {n \in 0..N : IsFiniteSet(Held(m, n)) /\ Sum(w, n) = Cardinality(Held(m, n))}
<1>1. /\ N \in Nat /\ w \in [1..N -> Nat]
      /\ \A k \in 1..N : /\ m[k][1] \in Nat /\ m[k][2] \in Nat /\ m[k][1] < m[k][2]
                         /\ w[k] = m[k][2] - m[k][1]
      /\ \A k, l \in 1..N : k < l => m[k][2] < m[l][1]
  <2>1. N \in Nat /\ w \in [1..N -> Nat] /\ \A k \in 1..N : m[k] \in Nat \X Nat
    <3>1. N \in Nat /\ \A k \in 1..N : m[k] \in Nat \X Nat
      BY DEF Apart
    <3>2. w \in [1..N -> Nat]
      BY TotalWidths
    <3> QED  BY <3>1, <3>2
  <2>2. \A k \in 1..N : m[k][1] \in Nat /\ m[k][2] \in Nat
    BY <2>1
  <2> QED  BY <2>1, <2>2 DEF Apart, Widths
<1> HIDE DEF N, w
<1>2. 0 \in T
  <2>1. Held(m, 0) = {}
    <3>1. 1..0 = {}
      OBVIOUS
    <3> QED  BY <3>1 DEF Held
  <2>2. 0 \in 0..N
    BY <1>1
  <2> QED  BY <1>1, <2>1, <2>2, SumStep, FS_EmptySet
<1>3. ASSUME NEW n \in 1..N, n - 1 \in T PROVE n \in T
  <2> DEFINE a == m[n][1]
             b == m[n][2]
             A == Held(m, n - 1)
             B == a..(b - 1)
  <2>1. a \in Nat /\ b \in Nat /\ a < b /\ w[n] = b - a
    BY <1>1
  <2>2. Sum(w, n) = Sum(w, n - 1) + w[n]
    BY <1>1, SumStep
  <2>3. IsFiniteSet(A) /\ Sum(w, n - 1) = Cardinality(A)
    BY <1>3
  <2>4. IsFiniteSet(B) /\ Cardinality(B) = b - a
    <3>1. a \in Int /\ b - 1 \in Int /\ ~(a > b - 1) /\ b - 1 - a + 1 = b - a
      BY <2>1
    <3> HIDE DEF a, b
    <3>2. IsFiniteSet(a..(b - 1)) /\ Cardinality(a..(b - 1)) = IF a > b - 1 THEN 0 ELSE b - 1 - a + 1
      BY <3>1, FS_Interval
    <3> QED  BY <3>1, <3>2
  <2>5. Held(m, n) = A \cup B
    <3>1. \A k \in 1..n : k = n \/ k \in 1..(n - 1)
      BY <1>1
    <3>2. n \in 1..n /\ \A k \in 1..(n - 1) : k \in 1..n
      BY <1>1
    <3>3. \A x : x \in B <=> Inside(x, m[n])
      BY <2>1 DEF Inside
    <3>4. \A x : Inside(x, m[n]) => x \in Nat
      BY DEF Inside
    <3> HIDE DEF B
    <3> QED  BY <3>1, <3>2, <3>3, <3>4 DEF Held
  <2>6. A \cap B = {}
    <3>1. ASSUME NEW x \in A, x \in B PROVE FALSE
      <4>1. PICK k \in 1..(n - 1) : Inside(x, m[k])
        BY DEF Held
      <4>2. k \in 1..N /\ k < n
        BY <1>1
      <4>3. m[k][2] < a /\ m[k][2] \in Nat
        BY <1>1, <4>2
      <4>4. x \in Nat /\ x < m[k][2] /\ a <= x
        BY <2>1, <3>1, <4>1 DEF Inside
      <4> HIDE DEF a
      <4> QED  BY <2>1, <4>3, <4>4
    <3> HIDE DEF A, B
    <3> QED  BY <3>1
  <2> HIDE DEF A, B
  <2>7. IsFiniteSet(A \cup B) /\ Cardinality(A \cup B) = Cardinality(A) + Cardinality(B) - Cardinality(A \cap B)
    BY <2>3, <2>4, FS_Union
  <2>8. Cardinality(A \cap B) = 0
    BY <2>6, FS_EmptySet
  <2>9. n \in 0..N /\ Cardinality(A) \in Nat
    BY <1>1, <2>3, FS_CardinalityType
  <2> DEFINE x == Cardinality(A)
             y == Cardinality(B)
  <2>10. x + y - 0 = x + y
    BY <2>1, <2>4, <2>9
  <2> QED  BY <2>1, <2>2, <2>3, <2>4, <2>5, <2>7, <2>8, <2>9, <2>10
<1>4. \A n \in 0..N : n \in T
  <2> HIDE DEF T
  <2> QED  BY <1>1, <1>2, <1>3, UpTo
<1>5. N \in T
  BY <1>1, <1>4
<1> QED  BY <1>5 DEF N, w

\* The unique payload of ranges is the number of places in them.
PlacesIn(R) == UNION {r[1]..(r[2] - 1) : r \in R}

\* The unique payload is how many numbers the ranges hold.
LEMMA UniquePayloadIs ==
    ASSUME NEW R, IsFiniteSet(R), R \subseteq Range2
    PROVE  IsFiniteSet(PlacesIn(R)) /\ UniquePayload(R) = Cardinality(PlacesIn(R))
<1> DEFINE l == SetToSeq(R)
           s == Sorted(l, LAMBDA x, y : x[1] < y[1] \/ (x[1] = y[1] /\ x[2] < y[2]))
           m == FoldLeft(MergeRange, << >>, s)
<1>1. l \in Seq(R) /\ \A y : y \in R <=> \E k \in 1..Len(l) : l[k] = y
  BY Listed
<1>2. l \in Seq(Nat \X Nat)
  <2>1. \A y \in R : y \in Nat \X Nat
    BY DEF Range2
  <2> HIDE DEF l
  <2>2. Len(l) \in Nat /\ DOMAIN l = 1..Len(l) /\ \A k \in 1..Len(l) : l[k] \in R
    BY <1>1
  <2>3. \A k \in 1..Len(l) : l[k] \in Nat \X Nat
    BY <2>1, <2>2
  <2>4. l = [k \in 1..Len(l) |-> l[k]]
    BY <1>1
  <2> QED  BY <2>2, <2>3, <2>4
<1> HIDE DEF l
<1>3. /\ s \in Seq(Nat \X Nat) /\ Len(s) = Len(l)
      /\ \A i, j \in 1..Len(l) : i <= j => s[i][1] <= s[j][1]
      /\ \A y : (\E k \in 1..Len(l) : s[k] = y) <=> \E k \in 1..Len(l) : l[k] = y
  BY <1>2, RangesSorted
<1> HIDE DEF s
<1>4. \A y : y \in R <=> \E k \in 1..Len(s) : s[k] = y
  BY <1>1, <1>3
<1>5. \A k \in 1..Len(s) : s[k] \in Range2
  BY <1>4
<1>6. Merged(m, s, Len(s))
  BY <1>3, <1>5, MergedAll
<1> HIDE DEF m
<1>7. Apart(m) /\ \A x : (\E k \in 1..Len(m) : Inside(x, m[k])) <=> \E k \in 1..Len(s) : Inside(x, s[k])
  BY <1>6 DEF Merged
<1>8. Held(m, Len(m)) = PlacesIn(R)
  <2>1. ASSUME NEW x PROVE (\E r \in R : Inside(x, r)) <=> \E k \in 1..Len(s) : Inside(x, s[k])
    BY <1>4
  <2>2. ASSUME NEW x, NEW r \in R PROVE Inside(x, r) <=> x \in r[1]..(r[2] - 1)
    <3>1. r[1] \in Nat /\ r[2] \in Nat
      BY DEF Range2
    <3> DEFINE a == r[1]
               b == r[2]
    <3> HIDE DEF a, b
    <3>2. a \in Nat /\ b \in Nat
      BY <3>1 DEF a, b
    <3>3. (x \in Nat /\ a <= x /\ x < b) <=> x \in a..(b - 1)
      BY <3>2
    <3> QED  BY <3>3 DEF Inside, a, b
  <2>3. ASSUME NEW x PROVE x \in Held(m, Len(m)) <=> \E r \in R : Inside(x, r)
    <3>1. x \in Held(m, Len(m)) <=> \E k \in 1..Len(m) : Inside(x, m[k])
      BY DEF Held, Inside
    <3> QED  BY <1>7, <2>1, <3>1
  <2>4. ASSUME NEW x PROVE x \in PlacesIn(R) <=> \E r \in R : x \in r[1]..(r[2] - 1)
    BY DEF PlacesIn
  <2> QED  BY <2>2, <2>3, <2>4
<1>9. UniquePayload(R) = Total(m, LAMBDA r : r[2] - r[1])
  BY DEF UniquePayload, l, s, m
<1> QED  BY <1>7, <1>8, <1>9, TotalWidths, WidthsAre

\* Ranges with bounds are finitely many.
LEMMA RangesFinite == ASSUME NEW M \in Nat, NEW R \in SUBSET ((0..M) \X (0..M)) PROVE IsFiniteSet(R)
<1>1. IsFiniteSet(0..M)
  BY FS_Interval
<1>2. IsFiniteSet((0..M) \X (0..M))
  <2> DEFINE A == 0..M
  <2> HIDE DEF A
  <2>1. IsFiniteSet(A)
    BY <1>1 DEF A
  <2>2. IsFiniteSet(A \X A)
    BY <2>1, FS_Product
  <2> QED  BY <2>2 DEF A
<1> QED  BY <1>2, FS_Subset

\* Counting from another number turns the space, and a range in it.
LEMMA TurnBack ==
    ASSUME NEW S \in Nat \ {0}, NEW b \in Int, NEW x \in 0..(S - 1)
    PROVE  (((x - b) % S) + b) % S = x
<1> DEFINE q == (x - b) \div S
           r == (x - b) % S
<1>1. q \in Int /\ r \in 0..(S - 1) /\ x - b = S * q + r
  <2>1. x - b \in Int
    OBVIOUS
  <2> DEFINE z == x - b
  <2> HIDE DEF z
  <2>2. z % S \in 0..(S - 1) /\ z \div S \in Int /\ z = S * (z \div S) + (z % S)
    BY <2>1, ModOf DEF z
  <2> QED  BY <2>2 DEF z
<1> HIDE DEF q, r
<1>2. r + b = S * (0 - q) + x /\ r + b \in Int /\ 0 - q \in Int
  <2>1. S * (0 - q) = 0 - S * q
    BY <1>1
  <2>2. S * q \in Int
    BY <1>1
  <2> QED  BY <1>1, <2>1, <2>2
<1>3. (r + b) % S = x
  <2> DEFINE y == r + b
             p == 0 - q
  <2> HIDE DEF y, p
  <2>1. y = S * p + x /\ y \in Int /\ p \in Int
    BY <1>2 DEF y, p
  <2>2. y % S = x
    BY <2>1, ModIs
  <2> QED  BY <2>2 DEF y
<1> QED  BY <1>3 DEF r

\* Counting on before or after the base is taken away is the same.
LEMMA TurnOn ==
    ASSUME NEW S \in Nat \ {0}, NEW b \in Int, NEW n \in Int, NEW k \in Int
    PROVE  (((n + k) % S) - b) % S = (((n - b) % S) + k) % S
<1> DEFINE u == n + k
           v == n - b
           A == u % S
           s == v % S
           w == s + k
           r == w % S
           q1 == u \div S
           q2 == v \div S
           q3 == w \div S
<1>1. u \in Int /\ v \in Int
  OBVIOUS
<1>2. A \in 0..(S - 1) /\ s \in 0..(S - 1) /\ q1 \in Int /\ q2 \in Int /\ u = S * q1 + A /\ v = S * q2 + s
  <2> HIDE DEF u, v
  <2> QED  BY <1>1, ModOf
<1> HIDE DEF A, s, q1, q2
<1>3. w \in Int
  BY <1>2
<1>4. r \in 0..(S - 1) /\ q3 \in Int /\ w = S * q3 + r
  <2> HIDE DEF w
  <2> QED  BY <1>3, ModOf
<1> HIDE DEF r, q3
<1>5. S * (q2 + q3 - q1) = S * q2 + S * q3 - S * q1 /\ S * q1 \in Int /\ S * q2 \in Int /\ S * q3 \in Int
  BY <1>2, <1>4
<1>6. A - b = S * (q2 + q3 - q1) + r /\ A - b \in Int /\ q2 + q3 - q1 \in Int
  <2>1. n + k = S * q1 + A /\ n - b = S * q2 + s /\ s + k = S * q3 + r
    BY <1>2, <1>4
  <2> DEFINE x == S * q1
             y == S * q2
             z == S * q3
  <2>2. n + k = x + A /\ n - b = y + s /\ s + k = z + r /\ x \in Int /\ y \in Int /\ z \in Int
        /\ S * (q2 + q3 - q1) = y + z - x
    BY <1>5, <2>1
  <2> HIDE DEF x, y, z
  <2>3. A - b = y + z - x + r
    BY <1>2, <1>4, <2>2
  <2> QED  BY <1>2, <1>4, <2>2, <2>3
<1>7. (A - b) % S = r
  <2> DEFINE y == A - b
             p == q2 + q3 - q1
  <2> HIDE DEF y, p
  <2>1. y = S * p + r /\ y \in Int /\ p \in Int
    BY <1>6 DEF y, p
  <2>2. y % S = r
    BY <1>4, <2>1, ModIs
  <2> QED  BY <2>2 DEF y
<1> QED  BY <1>7 DEF A, r, s

\* Turned numbers are as many.
Turned(y, V, b, S) == \E x \in V : y = (x - b) % S
\* As many numbers before as after they are counted from another one.
LEMMA TurnedCount ==
    ASSUME NEW S \in Nat \ {0}, NEW b \in Int, NEW V \in SUBSET (0..(S - 1)), NEW W,
           \A y : y \in W <=> Turned(y, V, b, S)
    PROVE  Cardinality(W) = Cardinality(V)
<1> DEFINE h == [x \in V |-> (x - b) % S]
<1>1. IsFiniteSet(V)
  <2>1. 0 \in Int /\ S - 1 \in Int
    OBVIOUS
  <2>2. IsFiniteSet(0..(S - 1))
    BY <2>1, FS_Interval
  <2> QED  BY <2>2, FS_Subset
<1>2. h \in [V -> W] /\ \A y \in W : \E x \in V : h[x] = y
  BY DEF Turned
<1>3. ASSUME NEW x \in V, NEW y \in V, h[x] = h[y] PROVE x = y
  <2>1. x \in 0..(S - 1) /\ y \in 0..(S - 1) /\ (x - b) % S = (y - b) % S
    BY <1>3
  <2>2. (((x - b) % S) + b) % S = x /\ (((y - b) % S) + b) % S = y
    BY <2>1, TurnBack
  <2> QED  BY <2>1, <2>2
<1> HIDE DEF h
<1>4. h \in Bijection(V, W)
  BY <1>2, <1>3 DEF Bijection, Injection, Surjection, IsInjective
<1>5. ExistsBijection(V, W)
  BY <1>4 DEF ExistsBijection
<1> QED  BY <1>1, <1>5, FS_Bijection

\* A range that is split where the space ends holds the numbers it spans.
LEMMA SplitHolds ==
    ASSUME NEW start \in 0..(SeqSpace - 1), NEW length \in 1..SeqSpace
    PROVE  /\ SplitRange(start, length) \subseteq Range2
           /\ SplitRange(start, length) \subseteq (0..SeqSpace) \X (0..SeqSpace)
           /\ \A x : x \in PlacesIn(SplitRange(start, length)) <=>
                \E k \in 0..(length - 1) : x = (start + k) % SeqSpace
<1> DEFINE S == SeqSpace
<1>1. S \in Nat \ {0} /\ start \in Nat /\ length \in Nat /\ start < S /\ length > 0 /\ length <= S
  BY AccountingConstants
<1> HIDE DEF S
<1>2. ASSUME NEW k \in 0..(length - 1)
      PROVE  (start + k) % S = IF start + k < S THEN start + k ELSE start + k - S
  <2> DEFINE z == start + k
  <2>1. z \in Int /\ z >= 0 /\ z < 2 * S
    BY <1>1
  <2> HIDE DEF z
  <2>2. CASE z < S
    <3>1. z = S * 0 + z /\ z \in 0..(S - 1) /\ 0 \in Int
      BY <1>1, <2>1, <2>2
    <3>2. z % S = z
      BY <1>1, <2>1, <3>1, ModIs
    <3> QED  BY <2>2, <3>2 DEF z
  <2>3. CASE ~(z < S)
    <3> DEFINE r == z - S
    <3>1. z = S * 1 + r /\ r \in 0..(S - 1) /\ 1 \in Int
      BY <1>1, <2>1, <2>3
    <3> HIDE DEF r
    <3>2. z % S = r
      BY <1>1, <2>1, <3>1, ModIs
    <3>3. z % S = IF z < S THEN z ELSE z - S
      BY <2>3, <3>2 DEF r
    <3>4. z - S = start + k - S
      BY <1>1 DEF z
    <3> QED  BY <2>3, <3>3, <3>4 DEF z
  <2> QED  BY <2>2, <2>3
<1>3. ASSUME NEW x
      PROVE  (\E k \in 0..(length - 1) : x = (start + k) % S) <=>
                 x \in start..(IF start + length > S THEN S - 1 ELSE start + length - 1)
                 \/ (start + length > S /\ x \in 0..(start + length - S - 1))
  <2>1. ASSUME NEW k \in 0..(length - 1), x = (start + k) % S
        PROVE  x \in start..(IF start + length > S THEN S - 1 ELSE start + length - 1)
                 \/ (start + length > S /\ x \in 0..(start + length - S - 1))
    BY <1>1, <1>2, <2>1
  <2>2. ASSUME x \in start..(IF start + length > S THEN S - 1 ELSE start + length - 1)
        PROVE  \E k \in 0..(length - 1) : x = (start + k) % S
    <3> DEFINE k == x - start
    <3>1. k \in 0..(length - 1) /\ start + k = x /\ x < S
      BY <1>1, <2>2
    <3> HIDE DEF k
    <3>2. (start + k) % S = x
      BY <1>2, <3>1
    <3> QED  BY <3>1, <3>2
  <2>3. ASSUME start + length > S, x \in 0..(start + length - S - 1)
        PROVE  \E k \in 0..(length - 1) : x = (start + k) % S
    <3> DEFINE k == x + S - start
    <3>1. k \in 0..(length - 1) /\ ~(start + k < S) /\ start + k - S = x
      BY <1>1, <2>3
    <3> HIDE DEF k
    <3>2. (start + k) % S = IF start + k < S THEN start + k ELSE start + k - S
      BY <1>2, <3>1
    <3>3. (start + k) % S = x
      BY <3>1, <3>2
    <3> QED  BY <3>1, <3>3
  <2> QED  BY <2>1, <2>2, <2>3
<1>4. CASE start + length > S
  <2> DEFINE e == start + length - S
             a == <<start, S>>
             b == <<0, e>>
  <2>1. SplitRange(start, length) = {a, b}
    BY <1>4 DEF SplitRange, S
  <2>2. e \in 1..S
    BY <1>1, <1>4
  <2> HIDE DEF e
  <2>3. a \in Range2 /\ b \in Range2 /\ a \in (0..S) \X (0..S) /\ b \in (0..S) \X (0..S)
    BY <1>1, <2>2 DEF Range2
  <2>4. a[1] = start /\ a[2] = S /\ b[1] = 0 /\ b[2] = e
    OBVIOUS
  <2>5. \A x : x \in PlacesIn({a, b}) <=> x \in start..(S - 1) \/ x \in 0..(e - 1)
    <3> HIDE DEF a, b
    <3>1. PlacesIn({a, b}) = (a[1]..(a[2] - 1)) \cup (b[1]..(b[2] - 1))
      BY DEF PlacesIn
    <3> QED  BY <2>4, <3>1
  <2>6. e - 1 = start + length - S - 1
    BY <1>1 DEF e
  <2> HIDE DEF a, b
  <2>7. \A x : x \in PlacesIn({a, b}) <=> \E k \in 0..(length - 1) : x = (start + k) % S
    <3>1. \A x : (\E k \in 0..(length - 1) : x = (start + k) % S) <=>
                    x \in start..(S - 1) \/ x \in 0..(e - 1)
      BY <1>3, <1>4, <2>6
    <3> QED  BY <2>5, <3>1
  <2> QED  BY <2>1, <2>3, <2>7 DEF S
<1>5. CASE ~(start + length > S)
  <2> DEFINE e == start + length
             a == <<start, e>>
  <2>1. SplitRange(start, length) = {a}
    BY <1>5 DEF SplitRange, S
  <2>2. e \in 1..S /\ start < e
    BY <1>1, <1>5
  <2> HIDE DEF e
  <2>3. a \in Range2 /\ a \in (0..S) \X (0..S)
    BY <1>1, <2>2 DEF Range2
  <2>4. a[1] = start /\ a[2] = e
    OBVIOUS
  <2>5. \A x : x \in PlacesIn({a}) <=> x \in start..(e - 1)
    <3> HIDE DEF a
    <3>1. PlacesIn({a}) = a[1]..(a[2] - 1)
      BY DEF PlacesIn
    <3> QED  BY <2>4, <3>1
  <2> HIDE DEF a
  <2>6. \A x : x \in PlacesIn({a}) <=> \E k \in 0..(length - 1) : x = (start + k) % S
    <3>1. \A x : (\E k \in 0..(length - 1) : x = (start + k) % S) <=> x \in start..(e - 1)
      BY <1>3, <1>5 DEF e
    <3> QED  BY <2>5, <3>1
  <2> QED  BY <2>1, <2>3, <2>6 DEF S
<1> QED  BY <1>4, <1>5

\* The numbers a packet's payload carries.
Carried(p) == {(p.seq + k) % SeqSpace : k \in 0..(p.length - 1)}

\* No byte is counted twice and none is left out, however ranges overlap and
\* wherever they wrap: the ranges that are sorted, merged and added up hold each
\* number a direction carried.
THEOREM UniqueIsCounted == Spec => []UniqueIsCovered
<1>1. CapturedInv => UniqueIsCovered
  <2> SUFFICES ASSUME CapturedInv, NEW d \in Direction
               PROVE  UniquePayload(SeqRanges(timed, d)) =
                        Cardinality(UNION {Carried(p) : p \in Range(From(timed, d))})
    BY DEF UniqueIsCovered, Carried
  <2> DEFINE S == SeqSpace
             sent == From(timed, d)
             data == DataIn(timed, d)
             base == InitialSequence(timed, d)
             V == UNION {Carried(p) : p \in Range(sent)}
             R == SeqRanges(timed, d)
  <2>0. S \in Nat \ {0}
    BY AccountingConstants
  <2>1. CaptureInv /\ InOrder(timed) /\ timed \in Seq(Packet)
    BY TimedInOrder DEF CapturedInv, InOrder
  <2>2. \A p : p \in Range(data) <=> p \in Range(timed) /\ p \in Sent(d) /\ p \in Paying
    BY <2>1, DataIs
  <2>3. \A p : p \in Range(sent) <=> p \in Range(timed) /\ p \in Sent(d)
    <3>1. Timely(timed)
      BY <2>1, InOrderIsTimely
    <3> QED  BY <2>1, <3>1, FromIs, PickedTimely
  <2>4. ASSUME NEW p \in Range(timed) PROVE p \in Packet /\ p.length <= S
    <3>1. PICK k \in 1..Len(capture) : p = timed[k]
      BY <2>1, GroupIs, PacketsTyped DEF Range
    <3>2. PICK q \in scene.packets : Alike(capture[k], q)
      BY DEF CapturedInv
    <3>3. q.length <= S
      BY <2>1, <3>2, SceneLengths DEF CaptureInv
    <3>4. p \in Packet /\ Alike(p, capture[k])
      BY <2>1, <3>1, GroupIs
    <3> QED  BY <3>2, <3>3, <3>4 DEF Alike
  <2>5. R = UNION {SplitRange(Relative(p.seq, base), p.length) : p \in Range(data)}
    BY DEF SeqRanges, DataIn
  <2>6. ASSUME data # << >> PROVE base \in Int /\ base # None
    <3>1. base = IF Picked(sent, Opening) # << >> THEN Picked(sent, Opening)[1].seq % S
                 ELSE IF data # << >> THEN data[1].seq % S ELSE None
      BY <2>1, BaseIs
    <3>2. sent \in Seq(Packet) /\ Picked(sent, Opening) \in Seq(Packet) /\ data \in Seq(Packet)
      <4>1. sent \in Seq(Packet)
        BY <2>1, FromIs, PickedPlaces
      <4> HIDE DEF sent, data
      <4> QED  BY <2>1, <4>1, PickedPlaces, DataIs DEF data, Timely
    <3> DEFINE syns == Picked(sent, Opening)
    <3> HIDE DEF syns, sent, data, base, S
    <3>3. (syns # << >> => syns[1].seq \in Nat) /\ data[1].seq \in Nat
      <4>1. (syns # << >> => syns[1] \in Packet) /\ data[1] \in Packet
        BY <2>6, <3>2 DEF syns
      <4> QED  BY <4>1 DEF Packet
    <3>4. base \in Int
      BY <2>0, <2>6, <3>1, <3>3 DEF syns
    <3> QED  BY <3>4, NoneIsNoNumber
  <2> HIDE DEF sent, data, base, R, S
  <2>7. ASSUME NEW p \in Range(data)
        PROVE  /\ base \in Int
               /\ p.seq \in Nat /\ p.length \in 1..S
               /\ Relative(p.seq, base) = (p.seq - base) % S /\ Relative(p.seq, base) \in 0..(S - 1)
    <3>1. data # << >>
      BY DEF Range
    <3>2. p \in Packet /\ p.length <= S /\ p.length > 0 /\ p \in Range(timed)
      BY <2>2, <2>4 DEF Paying
    <3>3. p.seq \in Nat /\ p.length \in 1..S
      BY <2>0, <3>2 DEF Packet
    <3>4. Relative(p.seq, base) = (p.seq - base) % S
      BY <2>6, <3>1 DEF Relative, S
    <3> DEFINE z == p.seq - base
    <3>5. z \in Int
      BY <2>6, <3>1, <3>3
    <3> HIDE DEF z
    <3>6. z % S \in 0..(S - 1)
      BY <2>0, <3>5
    <3> QED  BY <2>6, <3>1, <3>3, <3>4, <3>6 DEF z
  <2>8. ASSUME NEW p \in Range(data)
        PROVE  LET parts == SplitRange(Relative(p.seq, base), p.length)
               IN  /\ parts \subseteq Range2 /\ parts \subseteq (0..S) \X (0..S)
                   /\ \A y : y \in PlacesIn(parts) <=> Turned(y, Carried(p), base, S)
    <3> DEFINE start == Relative(p.seq, base)
               l == p.length
               n == p.seq
    <3>1. base \in Int /\ n \in Nat /\ l \in 1..S /\ start = (n - base) % S /\ start \in 0..(S - 1)
      BY <2>7
    <3>2. Carried(p) = {(n + k) % S : k \in 0..(l - 1)}
      BY DEF Carried, S
    <3> HIDE DEF start, l, n
    <3>3. /\ SplitRange(start, l) \subseteq Range2
          /\ SplitRange(start, l) \subseteq (0..S) \X (0..S)
          /\ \A y : y \in PlacesIn(SplitRange(start, l)) <=> \E k \in 0..(l - 1) : y = (start + k) % S
      BY <3>1, SplitHolds DEF S
    <3>4. ASSUME NEW k \in 0..(l - 1) PROVE (((n + k) % S) - base) % S = (start + k) % S
      <4>1. k \in Int /\ n \in Int
        BY <3>1
      <4> QED  BY <2>0, <3>1, <4>1, TurnOn
    <3>5. ASSUME NEW y
          PROVE  (Turned(y, Carried(p), base, S)) <=> \E k \in 0..(l - 1) : y = (start + k) % S
      BY <3>2, <3>4 DEF Turned
    <3> QED  BY <3>3, <3>5 DEF start, l
  <2>9. R \subseteq Range2 /\ R \in SUBSET ((0..S) \X (0..S))
    BY <2>5, <2>8
  <2>10. UniquePayload(R) = Cardinality(PlacesIn(R))
    <3>1. IsFiniteSet(R)
      BY <2>0, <2>9, RangesFinite
    <3> QED  BY <2>9, <3>1, UniquePayloadIs
  <2>11. ASSUME NEW p \in Range(sent) PROVE p \in Range(data) \/ Carried(p) = {}
    <3>1. p \in Range(timed) /\ p \in Sent(d) /\ p \in Packet
      BY <2>3, <2>4
    <3>2. CASE p.length > 0
      BY <2>2, <3>1, <3>2 DEF Paying
    <3>3. CASE ~(p.length > 0)
      <4>1. p.length = 0
        BY <3>1, <3>3 DEF Packet
      <4>2. 0..(p.length - 1) = {}
        BY <4>1
      <4> QED  BY <4>2 DEF Carried
    <3> QED  BY <3>2, <3>3
  <2>12. V = UNION {Carried(p) : p \in Range(data)}
    <3>1. \A p \in Range(data) : p \in Range(sent)
      BY <2>2, <2>3
    <3> QED  BY <2>11, <3>1
  <2>13. V \in SUBSET (0..(S - 1))
    <3>1. ASSUME NEW p \in Range(data) PROVE Carried(p) \subseteq 0..(S - 1)
      <4>1. \A k \in 0..(p.length - 1) : p.seq + k \in Int
        BY <2>7
      <4>2. \A k \in 0..(p.length - 1) : (p.seq + k) % S \in 0..(S - 1)
        BY <2>0, <4>1
      <4> QED  BY <4>2 DEF Carried, S
    <3> QED  BY <2>12, <3>1
  <2> HIDE DEF V
  <2>14. \A y : y \in PlacesIn(R) <=> Turned(y, V, base, S)
    <3>1. ASSUME NEW y
          PROVE y \in PlacesIn(R) <=> \E p \in Range(data) : y \in PlacesIn(SplitRange(Relative(p.seq, base), p.length))
      BY <2>5 DEF PlacesIn
    <3> HIDE DEF Carried
    <3>2. ASSUME NEW p \in Range(data), NEW y
          PROVE  y \in PlacesIn(SplitRange(Relative(p.seq, base), p.length)) <=>
                     Turned(y, Carried(p), base, S)
      BY <2>8
    <3>3. ASSUME NEW y
          PROVE  (\E p \in Range(data) : Turned(y, Carried(p), base, S))
                    <=> Turned(y, V, base, S)
      BY <2>12 DEF Turned
    <3> QED  BY <3>1, <3>2, <3>3
  <2>15. CASE data # << >>
    <3>1. Cardinality(PlacesIn(R)) = Cardinality(V)
      <4> DEFINE W == PlacesIn(R)
      <4> HIDE DEF W
      <4>1. base \in Int /\ \A y : y \in W <=> Turned(y, V, base, S)
        BY <2>6, <2>14, <2>15 DEF W
      <4>2. Cardinality(W) = Cardinality(V)
        BY <2>0, <2>13, <4>1, TurnedCount
      <4> QED  BY <4>2 DEF W
    <3> QED  BY <2>10, <3>1 DEF V, R, sent
  <2>16. CASE data = << >>
    <3>1. Range(data) = {}
      BY <2>16 DEF Range
    <3>2. V = {}
      BY <2>12, <3>1
    <3>3. PlacesIn(R) = {}
      BY <2>14, <3>2 DEF Turned
    <3> QED  BY <2>10, <3>2, <3>3 DEF V, R, sent
  <2> QED  BY <2>15, <2>16
<1> QED  BY <1>1, CapturedInvariant, PTL

-----------------------------------------------------------------------------
(* What an ACK leaves *)

\* The packets of a sequence by a time.
Until(t) == {p \in Packet : p.time <= t}
By(s, t) == Kept(s, LAMBDA p : p.time <= t)

\* What was sent by a time, selected or taken from the capture.
LEMMA ByIs ==
    ASSUME NEW s \in Seq(Packet), NEW t
    PROVE  By(s, t) = Picked(s, Until(t))
<1> DEFINE Is(k) == k = [n \in 0..Len(s) |-> IF n = 0 THEN << >>
                            ELSE IF s[n].time <= t THEN Append(k[n - 1], s[n]) ELSE k[n - 1]]
<1>1. By(s, t) = (CHOOSE k : Is(k))[Len(s)]
  BY DEF By, Kept
<1>2. \A n \in 0..Len(s) : n = 0 \/ (s[n] \in Until(t) <=> s[n].time <= t)
  BY DEF Until
<1>3. ASSUME NEW k PROVE Is(k) <=> Selects(k, s, Until(t))
  BY <1>2 DEF Selects
<1> HIDE DEF Is
<1>4. (CHOOSE k : Is(k))[Len(s)] = Picked(s, Until(t))
  BY <1>3, SelectsPicked
<1> QED  BY <1>1, <1>4

\* Places from a captured SYN on: a number less the SYN's is the place.
LEMMA PlaceOfNumber ==
    ASSUME NEW F \in 0..(SeqSpace - 1), NEW place \in 0..(SeqSpace - 1)
    PROVE  Relative((F + place) % SeqSpace, ((F + 0) % SeqSpace) % SeqSpace) = place
<1> DEFINE S == SeqSpace
           a == F + place
           b == F + 0
<1>0. S \in Nat \ {0}
  BY AccountingConstants
<1> HIDE DEF S
<1>1. a \in Int /\ b \in Int /\ a - b \in 0..(S - 1) /\ a - b = place
  BY <1>0 DEF S
<1> HIDE DEF a, b
<1>2. ((a % S) - ((b % S) % S)) % S = a - b
  BY <1>0, <1>1, ModBetween
<1>3. (b % S) % S # None
  <2>1. b % S \in Int
    BY <1>0, <1>1
  <2> DEFINE y == b % S
  <2> HIDE DEF y
  <2>2. y % S \in Int
    BY <1>0, <2>1 DEF y
  <2> QED  BY <2>2, NoneIsNoNumber DEF y
<1> DEFINE base == (b % S) % S
           n == a % S
<1>4. Relative(n, base) = (n - base) % S
  <2> HIDE DEF n
  <2> QED  BY <1>3 DEF Relative, S
<1>5. Relative(n, base) = place
  BY <1>1, <1>2, <1>4
<1> QED  BY <1>5 DEF n, base, a, b, S

\* The first number of a direction whose SYN was captured is its SYN's.
LEMMA BaseOfSyn ==
    ASSUME CaptureInv, NEW d \in Direction, NEW first \in [Direction -> 0..(SeqSpace - 1)],
           \A i \in 1..Len(capture) : Counted(first, timed[i]),
           \E p \in Range(From(timed, d)) : p.syn
    PROVE  InitialSequence(timed, d) = ((first[d] + 0) % SeqSpace) % SeqSpace
<1> DEFINE sent == From(timed, d)
           syns == Picked(sent, Opening)
<1>1. InOrder(timed) /\ timed \in Seq(Packet) /\ Timely(timed)
  BY TimedInOrder, InOrderIsTimely DEF InOrder
<1>2. sent = Picked(timed, Sent(d)) /\ Timely(sent) /\ \A p : p \in Range(sent) <=> p \in Range(timed) /\ p \in Sent(d)
  BY <1>1, FromIs, PickedTimely
<1>3. Timely(syns) /\ \A p : p \in Range(syns) <=> p \in Range(sent) /\ p \in Opening
  BY <1>2, PickedTimely
<1>4. InitialSequence(timed, d) = IF syns # << >> THEN syns[1].seq % SeqSpace
              ELSE IF DataIn(timed, d) # << >> THEN DataIn(timed, d)[1].seq % SeqSpace ELSE None
  BY <1>1, BaseIs
<1> HIDE DEF syns, sent
<1>5. PICK o \in Range(sent) : o.syn
  BY DEF sent
<1>6. o \in Packet
  BY <1>2 DEF Sent
<1>7. o \in Range(syns)
  BY <1>3, <1>5, <1>6 DEF Opening
<1>8. syns \in Seq(Packet) /\ syns # << >>
  BY <1>3, <1>7 DEF Timely, Range
<1>9. syns[1] \in Range(syns)
  BY <1>8 DEF Range
<1> DEFINE p == syns[1]
<1> HIDE DEF p
<1>10. p \in Range(timed) /\ p \in Sent(d) /\ p \in Opening
  BY <1>2, <1>3, <1>9 DEF p
<1>11. PICK k \in 1..Len(capture) : p = timed[k]
  BY <1>1, <1>10, GroupIs, PacketsTyped DEF Range
<1>12. Counted(first, p) /\ p.direction = d /\ p.syn
  BY <1>10, <1>11 DEF Sent, Opening
<1>13. p.seq = (first[d] + 0) % SeqSpace
  BY <1>12 DEF Counted
<1> QED  BY <1>4, <1>8, <1>13 DEF p

\* Every reading of outstanding bytes is the number of distinct bytes sent by
\* then and not acknowledged by its ACK: what is counted above the ACK in ranges
\* that overlap is counted once.
THEOREM OutstandingIsCounted == Spec => []OutstandingIsUnacked
<1>1. CapturedInv => OutstandingIsUnacked
  <2> SUFFICES ASSUME CapturedInv, NEW d \in Direction,
                      NEW a \in Range(From(timed, Opposite(d))), a.ack # 0,
                      \E p \in Range(From(timed, d)) : p.syn
               PROVE  Reading(timed, d, a).outstanding =
                        Cardinality({x \in PlacesOf(By(From(timed, d), a.time)) : x >= capture[a.frame].ackat})
    <3>1. ASSUME NEW r \in OutstandingBytes(timed)
          PROVE  \E d \in Direction : \E a \in Range(From(timed, Opposite(d))) :
                     a.ack # 0 /\ r = Reading(timed, d, a)
      BY DEF OutstandingBytes
    <3>2. ASSUME NEW d, NEW a
          PROVE  /\ Reading(timed, d, a).direction = d /\ Reading(timed, d, a).time = a.time
                 /\ Reading(timed, d, a).frame = a.frame
      BY DEF Reading
    <3>3. ASSUME CapturedInv, NEW r \in OutstandingBytes(timed), \E p \in Range(From(timed, r.direction)) : p.syn
          PROVE  r.outstanding =
                     Cardinality({x \in PlacesOf(By(From(timed, r.direction), r.time)) : x >= capture[r.frame].ackat})
      BY <3>1, <3>2, <3>3
    <3> QED  BY <3>3 DEF OutstandingIsUnacked, By
  <2> DEFINE S == SeqSpace
             sent == From(timed, d)
             data == DataIn(timed, d)
             base == InitialSequence(timed, d)
             acked == Relative(a.ack, base)
             ranges == {<<Relative(q.seq, base), Relative(q.seq, base) + q.length>> : q \in Range(By(data, a.time))}
             R == {<<Most(r[1], acked), r[2]>> : r \in {s \in ranges : s[2] > acked}}
  <2>0. S \in Nat \ {0}
    BY AccountingConstants
  <2>1. CaptureInv /\ InOrder(timed) /\ timed \in Seq(Packet) /\ Timely(timed)
    BY TimedInOrder, InOrderIsTimely DEF CapturedInv, InOrder
  <2>2. PICK first \in [Direction -> 0..(SeqSpace - 1)] : \A i \in 1..Len(capture) : Counted(first, timed[i])
    BY NumbersOfPlaces
  <2> DEFINE F == first[d]
  <2>3. F \in 0..(S - 1)
    OBVIOUS
  <2>4. base = ((F + 0) % S) % S
    BY <2>1, <2>2, BaseOfSyn
  <2>5. ASSUME NEW p \in Range(timed)
        PROVE  p \in Packet /\ Counted(first, p) /\ p.frame \in 1..Len(capture) /\ p.ackat = capture[p.frame].ackat
    <3>1. PICK k \in 1..Len(capture) : p = timed[k]
      <4>1. DOMAIN timed = 1..Len(timed)
        BY <2>1
      <4>2. Len(timed) = Len(capture)
        BY <2>1, GroupIs
      <4> HIDE DEF S, sent, data, base, acked, ranges, R
      <4> QED  BY <4>1, <4>2 DEF Range
    <3>2. p.frame = k /\ p \in Packet /\ Alike(p, capture[k])
      BY <2>1, <3>1, GroupIs
    <3> QED  BY <2>2, <3>1, <3>2 DEF Alike
  <2>6. acked = capture[a.frame].ackat /\ acked \in 0..(S - 1)
    <3>1. a \in Range(timed) /\ a \in Sent(Opposite(d))
      BY <2>1, FromIs, PickedTimely
    <3>2. Opposite(a.direction) = d
      BY <3>1 DEF Sent, Opposite, Direction
    <3>3. a.ackat \in 0..(S - 1) /\ a.ack = (F + a.ackat) % S
      <4>1. a.ackat \in Nat /\ a.ackat < S
        BY <2>5, <3>1 DEF Counted, Packet
      <4>2. a.ack = (F + a.ackat) % S
        BY <2>5, <3>1, <3>2 DEF Counted
      <4> QED  BY <2>0, <4>1, <4>2
    <3> DEFINE l == a.ackat
    <3> HIDE DEF l, F
    <3>4. Relative((F + l) % S, ((F + 0) % S) % S) = l
      BY <2>3, <3>3, PlaceOfNumber DEF l
    <3>5. acked = l
      BY <2>4, <3>3, <3>4 DEF l
    <3> QED  BY <2>5, <3>1, <3>3, <3>5 DEF l
  <2>7. /\ \A p : p \in Range(sent) <=> p \in Range(timed) /\ p \in Sent(d)
        /\ \A p : p \in Range(data) <=> p \in Range(timed) /\ p \in Sent(d) /\ p \in Paying
        /\ Timely(sent) /\ Timely(data)
    BY <2>1, FromIs, PickedTimely, DataIs
  <2>8. Reading(timed, d, a).outstanding = UniquePayload(R)
    BY DEF Reading, SentBy, By, DataIn
  <2> HIDE DEF F, base, acked, sent, data
  <2>9. ASSUME NEW s \in {sent, data}
        PROVE  \A p : p \in Range(By(s, a.time)) <=> p \in Range(s) /\ p \in Until(a.time)
    <3>1. Timely(s) /\ s \in Seq(Packet)
      BY <2>7 DEF Timely
    <3> QED  BY <3>1, ByIs, PickedTimely
  <2>10. ASSUME NEW q \in Range(By(data, a.time))
         PROVE  /\ q.at \in Nat /\ q.length \in Nat \ {0} /\ q.at + q.length <= S
                /\ Relative(q.seq, base) = q.at
    <3>1. q \in Range(timed) /\ q \in Sent(d) /\ q \in Paying
      BY <2>7, <2>9
    <3>2. q \in Packet /\ q.direction = d /\ q.length > 0 /\ Counted(first, q)
      BY <2>5, <3>1 DEF Sent, Paying
    <3> DEFINE l == q.at
    <3>3. l \in Nat /\ q.length \in Nat \ {0} /\ l + q.length <= S /\ q.seq = (F + l) % S
      BY <3>2 DEF Packet, Counted, F
    <3> HIDE DEF l
    <3>4. l \in 0..(S - 1)
      BY <2>0, <3>3
    <3>5. Relative((F + l) % S, ((F + 0) % S) % S) = l
      BY <2>3, <3>4, PlaceOfNumber
    <3> QED  BY <2>4, <3>3, <3>5 DEF l
  <2> DEFINE range(q) == <<q.at, q.at + q.length>>
             above == {q \in Range(By(data, a.time)) : q.at + q.length > acked}
             cut(q) == <<Most(q.at, acked), q.at + q.length>>
  <2>11. R = {cut(q) : q \in above}
    <3>1. ranges = {range(q) : q \in Range(By(data, a.time))}
      BY <2>10
    <3>2. \A q : range(q)[1] = q.at /\ range(q)[2] = q.at + q.length
                  /\ cut(q) = <<Most(range(q)[1], acked), range(q)[2]>>
      OBVIOUS
    <3> DEFINE part(r) == <<Most(r[1], acked), r[2]>>
    <3>3. R = {part(r) : r \in {s \in ranges : s[2] > acked}}
      OBVIOUS
    <3>4. \A q : cut(q) = part(range(q)) /\ (range(q)[2] > acked <=> q.at + q.length > acked)
      BY <3>2
    <3> HIDE DEF ranges, R, cut, part, range
    <3>5. R = {part(range(q)) : q \in above}
      BY <3>1, <3>3, <3>4
    <3> QED  BY <3>4, <3>5
  <2>12. ASSUME NEW q \in above
         PROVE  /\ cut(q) \in Range2 /\ cut(q) \in (0..S) \X (0..S)
                /\ \A x : x \in (cut(q)[1])..(cut(q)[2] - 1) <=> x \in Places(q) /\ x >= acked
    <3> DEFINE l == q.at
               e == q.at + q.length
               m == Most(l, acked)
    <3>1. l \in Nat /\ e \in Nat /\ l < e /\ e <= S /\ acked < e /\ Places(q) = l..(e - 1)
      <4>1. /\ q.at \in Nat /\ q.length \in Nat \ {0} /\ q.at + q.length <= S /\ q.at + q.length > acked
        BY <2>10
      <4> DEFINE n == q.length
      <4> HIDE DEF l, n
      <4>2. l \in Nat /\ n \in Nat \ {0} /\ l + n <= S /\ l + n > acked
        BY <4>1 DEF l, n
      <4>3. l + n \in Nat /\ l < l + n /\ acked < l + n
        BY <2>0, <2>6, <4>2
      <4> QED  BY <4>2, <4>3 DEF l, n, Places
    <3> HIDE DEF l, e
    <3>2. m \in Nat /\ m < e /\ m >= l /\ m >= acked /\ (m = l \/ m = acked)
      BY <2>0, <2>6, <3>1 DEF Most
    <3>3. cut(q) = <<m, e>>
      BY DEF l, e
    <3> HIDE DEF m, cut
    <3>4. cut(q) \in Range2 /\ cut(q) \in (0..S) \X (0..S) /\ cut(q)[1] = m /\ cut(q)[2] = e
      BY <2>0, <3>1, <3>2, <3>3 DEF Range2
    <3>5. \A x : x \in m..(e - 1) <=> x \in l..(e - 1) /\ x >= acked
      BY <2>6, <3>1, <3>2
    <3> QED  BY <3>1, <3>4, <3>5
  <2> HIDE DEF cut, R
  <2>13. R \subseteq Range2 /\ R \in SUBSET ((0..S) \X (0..S))
    BY <2>11, <2>12
  <2>14. UniquePayload(R) = Cardinality(PlacesIn(R))
    <3>1. IsFiniteSet(R)
      BY <2>0, <2>13, RangesFinite
    <3> QED  BY <2>13, <3>1, UniquePayloadIs
  <2> DEFINE W == {x \in PlacesOf(By(sent, a.time)) : x >= acked}
  <2>15. ASSUME NEW x PROVE x \in PlacesIn(R) <=> x \in W
    <3>1. x \in PlacesIn(R) <=> \E q \in above : x \in (cut(q)[1])..(cut(q)[2] - 1)
      BY <2>11 DEF PlacesIn
    <3>2. x \in PlacesIn(R) <=> \E q \in above : x \in Places(q) /\ x >= acked
      BY <2>12, <3>1
    <3>3. ASSUME NEW q \in above PROVE q \in Range(By(sent, a.time))
      BY <2>7, <2>9
    <3>4. ASSUME NEW q \in Range(By(sent, a.time)), x \in Places(q), x >= acked PROVE q \in above
      <4>1. q \in Range(timed) /\ q \in Sent(d) /\ q \in Until(a.time) /\ q \in Packet
        BY <2>5, <2>7, <2>9
      <4>2. q.at \in Nat /\ q.length \in Nat
        BY <4>1 DEF Packet
      <4> DEFINE l == q.at
                 n == q.length
      <4>3. l \in Nat /\ n \in Nat /\ x \in l..(l + n - 1)
        BY <3>4, <4>2 DEF Places
      <4> HIDE DEF l, n
      <4>4. n > 0 /\ l + n > acked
        BY <2>6, <3>4, <4>3
      <4>5. q \in Paying
        BY <4>1, <4>4 DEF Paying, n
      <4>6. q \in Range(By(data, a.time))
        BY <2>7, <2>9, <4>1, <4>5
      <4> QED  BY <4>4, <4>6 DEF l, n
    <3>5. x \in W <=> \E q \in Range(By(sent, a.time)) : x \in Places(q) /\ x >= acked
      BY DEF PlacesOf
    <3> HIDE DEF above, W
    <3> QED  BY <3>2, <3>3, <3>4, <3>5
  <2>16. PlacesIn(R) = W
    <3> HIDE DEF W
    <3> QED  BY <2>15
  <2> HIDE DEF W
  <2>17. W = {x \in PlacesOf(By(From(timed, d), a.time)) : x >= capture[a.frame].ackat}
    BY <2>6 DEF W, sent
  <2> QED  BY <2>8, <2>14, <2>16, <2>17
<1> QED  BY <1>1, CapturedInvariant, PTL

-----------------------------------------------------------------------------
(* Episodes as they are reported *)

\* An episode of one of the directions, with how long it lasted where that is known.
Reports(e, packets) ==
    \E d \in Direction : \E o \in Range(Episodes(packets, d)) :
        /\ e.start = o.start /\ e.probes = o.probes
        /\ e.duration = IF o.recovery # None THEN o.recovery - o.start ELSE None

\* Two packets with one number are one.
LEMMA FramesDiffer ==
    ASSUME NEW packets, Timely(packets), NEW p \in Range(packets), NEW q \in Range(packets), p.frame = q.frame
    PROVE  p = q
<1>1. Len(packets) \in Nat /\ DOMAIN packets = 1..Len(packets) /\ \A i \in 1..Len(packets) : packets[i] \in Packet
  BY DEF Timely
<1>2. PICK i \in 1..Len(packets), j \in 1..Len(packets) : p = packets[i] /\ q = packets[j]
  BY <1>1 DEF Range
<1>3. p.frame \in Nat /\ q.frame \in Nat
  BY <1>1, <1>2 DEF Packet
<1>4. (i < j => p.frame < q.frame) /\ (j < i => q.frame < p.frame)
  BY <1>2 DEF Timely
<1>5. i = j
  BY <1>1, <1>3, <1>4
<1> QED  BY <1>2, <1>5

\* Episodes and what waits for each.
LEMMA EpisodesTyped ==
    ASSUME NEW packets, Timely(packets), \A p \in Range(packets) : p.ts = None, NEW d \in Direction
    PROVE  /\ Episodes(packets, d) \in Seq(Episode)
           /\ \A o \in Range(Episodes(packets, d)) :
                /\ o \in Episode /\ (o.recovery # None => o.recovery - o.start \in Nat)
                /\ \A p \in Range(packets) : p.frame \in Range(o.probes) =>
                    /\ p.window = 0 /\ o.start <= p.time
                    /\ o.recovery # None => p.time < o.recovery
<1> DEFINE s == From(packets, d)
           stalls == Stalls(packets, d)
           eps == Episodes(packets, d)
           N == Len(stalls)
<1>1. packets \in Seq(Packet)
  BY DEF Timely
<1>2. Timely(s) /\ (\A p : p \in Range(s) <=> p \in Range(packets) /\ p \in Sent(d))
  <2>1. s = Picked(packets, Sent(d))
    BY <1>1, FromIs
  <2> QED  BY <2>1, PickedTimely
<1>3. Timely(stalls) /\ (\A p : p \in Range(stalls) <=> p \in Range(s) /\ p \in Closed)
  <2>1. s \in Seq(Packet)
    BY <1>2 DEF Timely
  <2>2. stalls = Picked(s, Closed)
    BY <2>1, StallsAre
  <2> HIDE DEF s, stalls
  <2> QED  BY <1>2, <2>2, PickedTimely
<1>4. PICK own : Owned(own, eps, s, stalls, N)
  <2>1. \A p \in Range(s) : p.ts = None
    BY <1>2
  <2> QED  BY <1>2, <2>1, EpisodesOwned
<1> HIDE DEF s, stalls, eps
<1>5. N \in Nat /\ DOMAIN stalls = 1..N /\ \A i \in 1..N : stalls[i] \in Packet
  BY <1>3 DEF Timely
<1>6. eps \in Seq(Episode) /\ Len(eps) \in Nat /\ DOMAIN eps = 1..Len(eps) /\ own \in [1..N -> 1..Len(eps)]
  BY <1>4 DEF Owned
<1>7. ASSUME NEW k \in 1..Len(eps)
      PROVE  eps[k] \in Episode /\ (eps[k].recovery # None => eps[k].recovery - eps[k].start \in Nat)
  <2>1. eps[k] \in Episode /\ Reopens(eps[k].recovery, s, eps[k].start)
    BY <1>4, <1>6 DEF Owned
  <2>2. eps[k].start \in Nat
    BY <2>1 DEF Episode
  <2>3. eps[k].recovery # None => eps[k].recovery \in Nat /\ eps[k].recovery > eps[k].start
    BY <2>1 DEF Reopens
  <2> QED  BY <2>1, <2>2, <2>3
<1>8. ASSUME NEW k \in 1..Len(eps), NEW p \in Range(packets), p.frame \in Range(eps[k].probes)
      PROVE  p.window = 0 /\ eps[k].start <= p.time /\ (eps[k].recovery # None => p.time < eps[k].recovery)
  <2>1. PICK i \in 1..N : stalls[i].frame = p.frame
    BY <1>4, <1>8 DEF Owned
  <2>2. own[i] = k
    BY <1>4, <1>8, <2>1 DEF Owned
  <2>3. eps[k].start <= stalls[i].time /\ (eps[k].recovery # None => stalls[i].time < eps[k].recovery)
    BY <1>4, <2>2 DEF Owned
  <2>4. stalls[i] \in Range(stalls)
    BY <1>5 DEF Range
  <2>5. stalls[i] \in Range(packets) /\ stalls[i].window = 0
    BY <1>2, <1>3, <2>4 DEF Closed, ZeroWindow
  <2>6. p = stalls[i]
    BY <2>1, <2>5, FramesDiffer
  <2> QED  BY <2>3, <2>5, <2>6
<1> QED  BY <1>6, <1>7, <1>8 DEF Range, eps

\* The first closed window of a stream, which says whose episodes come first.
LEMMA FirstStallIs ==
    ASSUME NEW packets \in Seq(Packet)
    PROVE  Kept(packets, LAMBDA p : ZeroWindow(p) /\ ~p.syn) = Picked(packets, Closed)
<1> DEFINE s == packets
           Is(k) == k = [n \in 0..Len(s) |-> IF n = 0 THEN << >>
                            ELSE IF ZeroWindow(s[n]) /\ ~s[n].syn THEN Append(k[n - 1], s[n]) ELSE k[n - 1]]
<1>1. Kept(packets, LAMBDA p : ZeroWindow(p) /\ ~p.syn) = (CHOOSE k : Is(k))[Len(s)]
  BY DEF Kept
<1>2. \A n \in 0..Len(s) : n = 0 \/ (s[n] \in Closed <=> ZeroWindow(s[n]) /\ ~s[n].syn)
  BY DEF Closed
<1>3. ASSUME NEW k PROVE Is(k) <=> Selects(k, s, Closed)
  BY <1>2 DEF Selects
<1> HIDE DEF Is
<1>4. (CHOOSE k : Is(k))[Len(s)] = Picked(s, Closed)
  BY <1>3, SelectsPicked
<1> QED  BY <1>1, <1>4

\* Where an endpoint stalled, the first to stall is an endpoint.
LEMMA FirstStallSends ==
    ASSUME NEW packets, Timely(packets), Stalls(packets, "out") \o Stalls(packets, "in") # << >>
    PROVE  Kept(packets, LAMBDA p : ZeroWindow(p) /\ ~p.syn)[1].direction \in Direction
<1> DEFINE closed == Picked(packets, Closed)
<1>1. packets \in Seq(Packet)
  BY DEF Timely
<1>2. Timely(closed) /\ \A p : p \in Range(closed) <=> p \in Range(packets) /\ p \in Closed
  BY PickedTimely
<1>3. ASSUME NEW d \in Direction
      PROVE  Stalls(packets, d) \in Seq(Packet) /\ \A p \in Range(Stalls(packets, d)) : p \in Range(closed)
  <2> DEFINE s == From(packets, d)
             stalls == Stalls(packets, d)
  <2>1. s = Picked(packets, Sent(d))
    BY <1>1, FromIs
  <2>2. Timely(s) /\ \A p \in Range(s) : p \in Range(packets)
    BY <2>1, PickedTimely
  <2>3. s \in Seq(Packet)
    BY <2>2 DEF Timely
  <2>4. stalls = Picked(s, Closed)
    BY <2>3, StallsAre
  <2> HIDE DEF s, stalls, closed
  <2>5. Timely(stalls) /\ \A p \in Range(stalls) : p \in Range(s) /\ p \in Closed
    BY <2>2, <2>4, PickedTimely
  <2>6. stalls \in Seq(Packet)
    BY <2>5 DEF Timely
  <2>7. \A p \in Range(stalls) : p \in Range(closed)
    BY <1>2, <2>2, <2>5
  <2> QED  BY <2>6, <2>7 DEF stalls
<1> HIDE DEF closed
<1>4. ASSUME NEW d \in Direction, Stalls(packets, d) # << >> PROVE closed # << >>
  <2> DEFINE stalls == Stalls(packets, d)
  <2>1. stalls \in Seq(Packet) /\ stalls # << >> /\ \A p \in Range(stalls) : p \in Range(closed)
    BY <1>3, <1>4
  <2> HIDE DEF stalls
  <2>2. 1 \in DOMAIN stalls
    BY <2>1
  <2>3. stalls[1] \in Range(closed)
    BY <2>1, <2>2 DEF Range
  <2>4. \E i \in DOMAIN closed : TRUE
    BY <2>3 DEF Range
  <2> QED  BY <2>4
<1>5. closed # << >>
  <2>1. Stalls(packets, "out") # << >> \/ Stalls(packets, "in") # << >>
    <3>1. << >> \o << >> = << >>
      OBVIOUS
    <3> QED  BY <3>1
  <2>2. "out" \in Direction /\ "in" \in Direction
    BY DEF Direction
  <2> QED  BY <1>4, <2>1, <2>2
<1>6. closed \in Seq(Packet)
  BY <1>2 DEF Timely
<1>7. closed[1] \in Packet
  BY <1>5, <1>6
<1>8. closed[1].direction \in Direction
  BY <1>7 DEF Packet
<1> QED  BY <1>1, <1>8, FirstStallIs DEF closed

\* An episode as it is numbered reports one of the episodes of an endpoint.
LEMMA NumberedReports ==
    ASSUME NEW packets, Timely(packets), \A p \in Range(packets) : p.ts = None,
           Stalls(packets, "out") \o Stalls(packets, "in") # << >>
    PROVE  /\ Numbered(packets) \in Seq(ReportedEpisode)
           /\ \A i \in 1..Len(Numbered(packets)) : Reports(Numbered(packets)[i], packets)
<1> DEFINE first == Kept(packets, LAMBDA p : ZeroWindow(p) /\ ~p.syn)[1].direction
           a == Episodes(packets, first)
           b == Episodes(packets, Opposite(first))
           all == a \o b
           one(e) == [direction |-> e.direction, start |-> e.start, probes |-> e.probes,
                      recovery |-> e.recovery, duration |-> Duration(packets, e)]
           num == Numbered(packets)
<1>1. first \in Direction /\ Opposite(first) \in Direction
  <2>1. first \in Direction
    BY FirstStallSends
  <2> HIDE DEF first
  <2> QED  BY <2>1 DEF Direction, Opposite
<1>2. num = [i \in DOMAIN all |-> one(all[i])]
  BY DEF Numbered
<1> HIDE DEF first
<1>3. a \in Seq(Episode) /\ b \in Seq(Episode)
  BY <1>1, EpisodesTyped
<1> HIDE DEF num
<1>4. CaptureEnd(packets) = None
  <2>1. Clocked(packets) = {}
    BY DEF Clocked
  <2> QED  BY <2>1 DEF CaptureEnd
<1>5. ASSUME NEW d \in Direction, NEW o \in Range(Episodes(packets, d))
      PROVE  one(o) \in ReportedEpisode /\ Reports(one(o), packets)
  <2>1. o \in Episode /\ (o.recovery # None => o.recovery - o.start \in Nat)
    BY EpisodesTyped
  <2>2. Duration(packets, o) = IF o.recovery # None THEN o.recovery - o.start ELSE None
    BY <1>4 DEF Duration
  <2>3. Duration(packets, o) \in Nat \cup {None}
    BY <2>1, <2>2
  <2>4. one(o) \in ReportedEpisode
    BY <2>1, <2>3 DEF Episode, ReportedEpisode
  <2> DEFINE e == one(o)
  <2>5. e.start = o.start /\ e.probes = o.probes
        /\ e.duration = IF o.recovery # None THEN o.recovery - o.start ELSE None
    BY <2>2
  <2> HIDE DEF e
  <2>6. Reports(e, packets)
    BY <2>5 DEF Reports
  <2> QED  BY <2>4, <2>6 DEF e
<1> HIDE DEF one
<1>6. ASSUME NEW i \in 1..Len(all) PROVE one(all[i]) \in ReportedEpisode /\ Reports(one(all[i]), packets)
  <2>1. all[i] \in Range(a) \/ all[i] \in Range(b)
    <3> HIDE DEF a, b
    <3>1. /\ Len(a) \in Nat /\ Len(b) \in Nat /\ Len(all) = Len(a) + Len(b)
          /\ DOMAIN a = 1..Len(a) /\ DOMAIN b = 1..Len(b)
          /\ all[i] = IF i <= Len(a) THEN a[i] ELSE b[i - Len(a)]
      BY <1>3, ConcatProperties
    <3> DEFINE A == Len(a)
               C == Len(b)
    <3> HIDE DEF A, C, all
    <3>2. i \in 1..A \/ (~(i <= A) /\ i - A \in 1..C)
      <4>1. i \in 1..(A + C) /\ A \in Nat /\ C \in Nat
        BY <3>1 DEF A, C
      <4> QED  BY <4>1
    <3>3. i \in 1..A => i <= A
      BY <3>1 DEF A
    <3> QED  BY <3>1, <3>2, <3>3 DEF Range, A, C
  <2> QED  BY <1>1, <1>5, <2>1
<1>7. all \in Seq(Episode) /\ Len(all) \in Nat /\ DOMAIN all = 1..Len(all)
  BY <1>3
<1> HIDE DEF all
<1>8. num = [i \in 1..Len(all) |-> one(all[i])]
  BY <1>2, <1>7
<1>9. num \in [1..Len(all) -> ReportedEpisode]
  BY <1>6, <1>8
<1>10. num \in Seq(ReportedEpisode) /\ Len(num) = Len(all)
  BY <1>7, <1>9
<1>11. \A i \in 1..Len(num) : Reports(num[i], packets)
  BY <1>6, <1>8, <1>10
<1> QED  BY <1>10, <1>11 DEF num

\* Sorted by their start, they are the same episodes.
LEMMA ReportedSorted ==
    ASSUME NEW s \in Seq(ReportedEpisode)
    PROVE  LET r == Sorted(s, LAMBDA e, f : e.start < f.start) IN
           r \in Seq(ReportedEpisode) /\ \A y \in Range(r) : y \in Range(s)
<1> DEFINE N == Len(s)
           S == ReportedEpisode
           B == {p \in S \X S : p[1].start < p[2].start}
           Put(rest, n) == LET at == n - Cardinality({k \in 1..(n - 1) : s[n].start < rest[k].start})
                           IN  SubSeq(rest, 1, at - 1) \o <<s[n]>> \o SubSeq(rest, at, n - 1)
           Is(g) == g = [n \in 0..N |-> IF n = 0 THEN << >> ELSE Put(g[n - 1], n)]
           r == Sorted(s, LAMBDA e, f : e.start < f.start)
<1>1. N \in Nat /\ N \in 0..N /\ \A i \in 1..N : s[i] \in S /\ i \in 0..N /\ i # 0 /\ i - 1 \in 0..N
  OBVIOUS
<1>2. r = (CHOOSE g : Is(g))[N]
  BY DEF Sorted
<1>3. \A x, y \in S : <<x, y>> \in B <=> x.start < y.start
  OBVIOUS
<1>4. OrderOn(B, S)
  <2>1. \A x \in S : x.start \in Nat
    BY DEF ReportedEpisode
  <2> HIDE DEF B, S
  <2> QED  BY <1>3, <2>1, SMTT(40) DEF OrderOn
<1> HIDE DEF B, S, r
<1>5. PICK g : /\ SortSteps(g, s, B) /\ DOMAIN g = 0..N /\ g[0] = << >>
               /\ \A n \in 0..N : SortOf(g[n], s, n, S, B)
  <2>1. s \in Seq(S)
    BY DEF S
  <2> QED  BY <1>4, <2>1, SortExists
<1>6. ASSUME NEW n \in 1..N PROVE g[n] = Put(g[n - 1], n)
  <2>1. g[n] = PutIn(g[n - 1], s[n], n, B)
    BY <1>1, <1>5 DEF SortSteps
  <2> DEFINE rest == g[n - 1]
  <2>2. rest \in Seq(S) /\ Len(rest) = n - 1
    BY <1>1, <1>5 DEF SortOf
  <2> HIDE DEF rest
  <2>3. \A k \in 1..(n - 1) : rest[k] \in S
    BY <2>2
  <2>4. {k \in 1..(n - 1) : <<s[n], rest[k]>> \in B} = {k \in 1..(n - 1) : s[n].start < rest[k].start}
    BY <1>1, <1>3, <2>3
  <2> QED  BY <2>1, <2>4 DEF PutIn, rest
<1> HIDE DEF Put
<1>7. Is(g)
  <2> DEFINE next(n) == IF n = 0 THEN << >> ELSE Put(g[n - 1], n)
  <2>1. g = [n \in 0..N |-> g[n]]
    BY <1>5 DEF SortSteps
  <2>2. \A n \in 0..N : g[n] = next(n)
    <3>1. \A n \in 0..N : n = 0 \/ n \in 1..N
      BY <1>1
    <3> QED  BY <1>5, <1>6, <3>1
  <2> HIDE DEF next
  <2>3. g = [n \in 0..N |-> next(n)]
    BY <2>1, <2>2
  <2> QED  BY <2>3 DEF next
<1>8. ASSUME NEW h, Is(h) PROVE h[N] = g[N]
  <2> DEFINE T == {n \in 0..N : h[n] = g[n]}
  <2>0. h[0] = << >> /\ \A n \in 1..N : h[n] = Put(h[n - 1], n)
    <3>1. 0 \in 0..N
      BY <1>1
    <3> QED  BY <1>1, <1>8, <3>1
  <2>1. 0 \in T
    BY <1>1, <1>5, <2>0
  <2>2. ASSUME NEW n \in 1..N, n - 1 \in T PROVE n \in T
    BY <1>1, <1>6, <2>0, <2>2
  <2>3. \A n \in 0..N : n \in T
    <3> HIDE DEF T
    <3> QED  BY <1>1, <2>1, <2>2, UpTo
  <2> QED  BY <1>1, <2>3
<1> HIDE DEF Is
<1>9. r = g[N]
  BY <1>2, <1>7, <1>8
<1>10. r \in Seq(S) /\ Len(r) = N /\ \A y : (\E k \in 1..N : r[k] = y) <=> \E k \in 1..N : s[k] = y
  BY <1>1, <1>5, <1>9, ZenonT(60) DEF SortOf
<1>11. DOMAIN r = 1..N /\ DOMAIN s = 1..N
  BY <1>10
<1>12. \A y \in Range(r) : y \in Range(s)
  BY <1>10, <1>11 DEF Range
<1> QED  BY <1>10, <1>12 DEF r, S

\* What is reported are episodes of the endpoints.
Lasting == {e \in ReportedEpisode : e.duration = None \/ e.duration >= MinStall}

\* What the reply lists are episodes, and each reports one its direction has.
LEMMA WindowEpisodesReport ==
    ASSUME NEW packets, Timely(packets), \A p \in Range(packets) : p.ts = None
    PROVE  /\ WindowEpisodes(packets) \in Seq(ReportedEpisode)
           /\ \A e \in Range(WindowEpisodes(packets)) : Reports(e, packets)
<1>1. CASE Stalls(packets, "out") \o Stalls(packets, "in") = << >>
  <2>1. WindowEpisodes(packets) = << >>
    BY <1>1 DEF WindowEpisodes
  <2>2. Range(<< >>) = {} /\ << >> \in Seq(ReportedEpisode)
    BY DEF Range
  <2> QED  BY <2>1, <2>2
<1>2. CASE Stalls(packets, "out") \o Stalls(packets, "in") # << >>
  <2> DEFINE s == Numbered(packets)
             Is(k) == k = [n \in 0..Len(s) |-> IF n = 0 THEN << >>
                              ELSE IF s[n].duration = None \/ s[n].duration >= MinStall
                                   THEN Append(k[n - 1], s[n]) ELSE k[n - 1]]
             kept == Kept(s, LAMBDA e : e.duration = None \/ e.duration >= MinStall)
             eps == WindowEpisodes(packets)
  <2>1. s \in Seq(ReportedEpisode) /\ \A i \in 1..Len(s) : Reports(s[i], packets)
    BY <1>2, NumberedReports
  <2>2. kept = (CHOOSE k : Is(k))[Len(s)]
    BY DEF Kept
  <2>3. eps = Sorted(kept, LAMBDA e, f : e.start < f.start)
    BY <1>2 DEF WindowEpisodes
  <2> HIDE DEF s, kept, eps
  <2>4. \A n \in 0..Len(s) : n = 0 \/ (s[n] \in Lasting <=> s[n].duration = None \/ s[n].duration >= MinStall)
    BY <2>1 DEF Lasting
  <2>5. ASSUME NEW k PROVE Is(k) <=> Selects(k, s, Lasting)
    BY <2>4 DEF Selects
  <2> HIDE DEF Is
  <2>6. kept = Picked(s, Lasting)
    BY <2>1, <2>2, <2>5, SelectsPicked
  <2>7. kept \in Seq(ReportedEpisode) /\ \E pos : Picks(pos, kept, s, Len(s), Lasting)
    BY <2>1, <2>6, PickedPlaces
  <2>8. ASSUME NEW i \in 1..Len(kept) PROVE Reports(kept[i], packets)
    <3>1. PICK pos : Picks(pos, kept, s, Len(s), Lasting)
      BY <2>7
    <3>2. pos[i] \in 1..Len(s) /\ kept[i] = s[pos[i]]
      BY <3>1 DEF Picks
    <3> QED  BY <2>1, <3>2
  <2>9. DOMAIN kept = 1..Len(kept)
    BY <2>7
  <2>10. eps \in Seq(ReportedEpisode) /\ \A y \in Range(eps) : y \in Range(kept)
    BY <2>3, <2>7, ReportedSorted
  <2>11. \A y \in Range(kept) : Reports(y, packets)
    BY <2>8, <2>9 DEF Range
  <2> QED  BY <2>10, <2>11 DEF eps
<1> QED  BY <1>1, <1>2

\* No fewer are selected by what more members pass.
LEMMA PickedFewer ==
    ASSUME NEW S, NEW s \in Seq(S), NEW A, NEW B, \A x \in S : x \in A => x \in B
    PROVE  Len(Picked(s, A)) <= Len(Picked(s, B))
<1> DEFINE N == Len(s)
<1>1. N \in Nat /\ N \in 0..N /\ \A n \in 1..N : s[n] \in S /\ n \in 0..N /\ n - 1 \in 0..N
  OBVIOUS
<1>2. PICK k : k \in [0..N -> Seq(S)] /\ Selection(k, s, A)
  BY SelectionExists
<1>3. PICK m : m \in [0..N -> Seq(S)] /\ Selection(m, s, B)
  BY SelectionExists
<1> DEFINE T == {n \in 0..N : Len(k[n]) <= Len(m[n])}
<1>4. 0 \in T
  <2>1. k[0] = << >> /\ m[0] = << >> /\ Len(<< >>) = 0
    BY <1>2, <1>3 DEF Selection
  <2> QED  BY <1>1, <2>1
<1>5. ASSUME NEW n \in 1..N, n - 1 \in T PROVE n \in T
  <2> DEFINE a == k[n - 1]
             b == m[n - 1]
             x == s[n]
  <2>1. a \in Seq(S) /\ b \in Seq(S) /\ Len(a) <= Len(b) /\ x \in S
    BY <1>1, <1>2, <1>3, <1>5
  <2>2. k[n] = (IF x \in A THEN Append(a, x) ELSE a) /\ m[n] = (IF x \in B THEN Append(b, x) ELSE b)
    BY <1>2, <1>3 DEF Selection
  <2> HIDE DEF a, b, x
  <2>3. /\ Len(a) \in Nat /\ Len(b) \in Nat /\ Len(Append(a, x)) = Len(a) + 1 /\ Len(Append(b, x)) = Len(b) + 1
    BY <2>1
  <2>4. x \in A => x \in B
    BY <2>1
  <2>5. /\ Len(k[n]) = (IF x \in A THEN Len(a) + 1 ELSE Len(a))
        /\ Len(m[n]) = (IF x \in B THEN Len(b) + 1 ELSE Len(b))
    BY <2>2, <2>3
  <2>6. Len(k[n]) <= Len(m[n])
    BY <2>1, <2>3, <2>4, <2>5
  <2> QED  BY <1>1, <2>6
<1>6. \A n \in 0..N : n \in T
  <2> HIDE DEF T
  <2> QED  BY <1>1, <1>4, <1>5, UpTo
<1>7. Len(k[N]) <= Len(m[N])
  BY <1>1, <1>6
<1>8. Picked(s, A) = k[N] /\ Picked(s, B) = m[N]
  BY <1>1, <1>2, <1>3, PickedIs
<1> QED  BY <1>7, <1>8

\* The zero windows, and those of a pause.
Shut == {p \in Packet : ZeroWindow(p)}
Hit(start, end) == {p \in Packet : ZeroWindow(p) /\ p.time \in (start - StallLookback)..end}

\* The closed windows the symptoms count.
LEMMA ShutAre ==
    ASSUME NEW s, InOrder(s)
    PROVE  TransportSymptoms(s).stall.count = Len(Picked(s, Shut))
<1> DEFINE Is(k) == k = [n \in 0..Len(s) |-> IF n = 0 THEN << >>
                            ELSE IF ZeroWindow(s[n]) THEN Append(k[n - 1], s[n]) ELSE k[n - 1]]
           kept == Kept(s, ZeroWindow)
<1>0. s \in Seq(Packet) /\ ByTime(s) = s
  BY SortedIsSame DEF InOrder
<1>1. kept = (CHOOSE k : Is(k))[Len(s)]
  BY DEF Kept
<1>2. TransportSymptoms(s).stall.count = Len(kept)
  BY <1>0 DEF TransportSymptoms, Symptom
<1>3. \A n \in 0..Len(s) : n = 0 \/ (s[n] \in Shut <=> ZeroWindow(s[n]))
  BY <1>0 DEF Shut
<1>4. ASSUME NEW k PROVE Is(k) <=> Selects(k, s, Shut)
  BY <1>3 DEF Selects
<1> HIDE DEF Is, kept
<1>5. kept = Picked(s, Shut)
  BY <1>0, <1>1, <1>4, SelectsPicked
<1> QED  BY <1>2, <1>5

\* The closed windows within a pause.
LEMMA HitsAre ==
    ASSUME NEW s, InOrder(s), NEW start, NEW end
    PROVE  StallHits(s, start, end) = Picked(s, Hit(start, end))
<1> DEFINE Test(p) == ZeroWindow(p) /\ p.time \in (start - StallLookback)..end
           Is(k) == k = [n \in 0..Len(s) |-> IF n = 0 THEN << >>
                            ELSE IF Test(s[n]) THEN Append(k[n - 1], s[n]) ELSE k[n - 1]]
<1>0. s \in Seq(Packet) /\ ByTime(s) = s
  BY SortedIsSame DEF InOrder
<1>1. StallHits(s, start, end) = (CHOOSE k : Is(k))[Len(s)]
  BY <1>0 DEF StallHits, Kept
<1>3. \A n \in 0..Len(s) : n = 0 \/ (s[n] \in Hit(start, end) <=> Test(s[n]))
  BY <1>0 DEF Hit
<1> HIDE DEF Test
<1>4. ASSUME NEW k PROVE Is(k) <=> Selects(k, s, Hit(start, end))
  BY <1>3 DEF Selects
<1> HIDE DEF Is
<1> QED  BY <1>0, <1>1, <1>4, SelectsPicked

\* An episode that overlaps a pause is enough for one to be named.
Overlapping(start, end) ==
    {e \in ReportedEpisode : e.start <= end /\ (e.duration = None \/ start <= e.start + e.duration)}

\* Where a reported episode overlaps a pause, some episode is matched.
LEMMA OneMatches ==
    ASSUME NEW eps \in Seq(ReportedEpisode), NEW e \in Range(eps), NEW start, NEW end,
           e \in Overlapping(start, end)
    PROVE  MatchingEpisode(eps, start, end) # None
<1> DEFINE Test(f) == f.start <= end /\ (f.duration = None \/ start <= f.start + f.duration)
           s == eps
           A == Overlapping(start, end)
           Is(k) == k = [n \in 0..Len(s) |-> IF n = 0 THEN << >>
                            ELSE IF Test(s[n]) THEN Append(k[n - 1], s[n]) ELSE k[n - 1]]
           match == (CHOOSE k : Is(k))[Len(s)]
<1>1. MatchingEpisode(eps, start, end) = IF match = << >> THEN None ELSE match[1]
  BY DEF MatchingEpisode, Kept
<1>2. \A n \in 0..Len(s) : n = 0 \/ (s[n] \in A <=> Test(s[n]))
  BY DEF Overlapping
<1> HIDE DEF Test, A
<1>3. ASSUME NEW k PROVE Is(k) <=> Selects(k, s, A)
  BY <1>2 DEF Selects
<1> HIDE DEF Is
<1>4. match = Picked(s, A)
  BY <1>3, SelectsPicked
<1> HIDE DEF match
<1>5. match \in Seq(ReportedEpisode) /\ \E pos : Picks(pos, match, s, Len(s), A)
  BY <1>4, PickedPlaces
<1>6. PICK n \in 1..Len(s) : s[n] = e
  BY DEF Range
<1>7. \E i \in 1..Len(match) : TRUE
  BY <1>5, <1>6 DEF Picks, A
<1>8. match # << >> /\ match[1] \in ReportedEpisode
  BY <1>5, <1>7
<1> QED  BY <1>1, <1>8, NoneIsNoEpisode

\* A pause shows no more closed windows than the stream has, and names an
\* episode where one of its windows was closed.
PauseNames(pause, packets, episodes) ==
    /\ Len(pause.hits) <= TransportSymptoms(packets).stall.count
    /\ \A e \in Range(episodes) :
         (\E p \in Range(packets) : p.frame \in Range(e.probes) /\ p.time \in pause.start..pause.end)
            => pause.episode # None

\* Every pause of the capture names an episode if it must.
LEMMA PausesName ==
    ASSUME CaptureInv, NEW start \in Nat, NEW end \in Nat
    PROVE  PauseNames(Pause(timed, WindowEpisodes(group), start, end), timed, WindowEpisodes(group))
<1> DEFINE episodes == WindowEpisodes(group)
           pause == Pause(timed, episodes, start, end)
           hits == StallHits(timed, start, end)
<1>1. InOrder(timed) /\ InOrder(group) /\ (\A p \in Range(group) : p.ts = None)
  BY TimedInOrder
<1>2. Timely(timed) /\ Timely(group) /\ timed \in Seq(Packet) /\ group \in Seq(Packet)
  BY <1>1, InOrderIsTimely DEF InOrder
<1>3. hits = Picked(timed, Hit(start, end)) /\ TransportSymptoms(timed).stall.count = Len(Picked(timed, Shut))
  BY <1>1, HitsAre, ShutAre
<1>4. pause.hits = hits /\ pause.start = start /\ pause.end = end
      /\ pause.episode = IF hits = << >> THEN None ELSE MatchingEpisode(episodes, start, end)
  BY DEF Pause
<1>5. episodes \in Seq(ReportedEpisode) /\ \A e \in Range(episodes) : Reports(e, group)
  BY <1>1, <1>2, WindowEpisodesReport
<1> HIDE DEF episodes, pause, hits
<1>6. Len(hits) <= TransportSymptoms(timed).stall.count
  <2>1. \A x \in Packet : x \in Hit(start, end) => x \in Shut
    BY DEF Hit, Shut
  <2> QED  BY <1>2, <1>3, <2>1, PickedFewer
<1>7. ASSUME NEW e \in Range(episodes), NEW p \in Range(timed), p.frame \in Range(e.probes), p.time \in start..end
      PROVE  pause.episode # None
  <2>1. PICK i \in 1..Len(timed) : p = timed[i]
    BY <1>2, <1>7 DEF Range
  <2> DEFINE q == group[i]
  <2>2. p \in Packet /\ q \in Packet /\ q \in Range(group)
        /\ q.frame = p.frame /\ q.window = p.window /\ q.time = p.time
    <3>1. i \in 1..Len(group) /\ group[i].window = timed[i].window
      BY <2>1, GroupIsTimed
    <3>2. group[i].frame = i /\ timed[i].frame = i
      BY <1>1, <2>1, <3>1 DEF InOrder
    <3>3. group[i].time = timed[i].time
      BY <3>1, GroupIsTimed
    <3>4. p \in Packet /\ q \in Packet /\ q \in Range(group)
      BY <1>2, <2>1, <3>1 DEF Range
    <3> QED  BY <2>1, <3>1, <3>2, <3>3, <3>4
  <2> HIDE DEF q
  <2>3. PICK d \in Direction : \E o \in Range(Episodes(group, d)) :
            /\ e.start = o.start /\ e.probes = o.probes
            /\ e.duration = IF o.recovery # None THEN o.recovery - o.start ELSE None
    BY <1>5 DEF Reports
  <2>4. PICK o \in Range(Episodes(group, d)) :
            /\ e.start = o.start /\ e.probes = o.probes
            /\ e.duration = IF o.recovery # None THEN o.recovery - o.start ELSE None
    BY <2>3
  <2>5. /\ o \in Episode
        /\ q.window = 0 /\ o.start <= q.time
        /\ o.recovery # None => q.time < o.recovery
    <3>1. q.frame \in Range(o.probes)
      BY <1>7, <2>2, <2>4
    <3> QED  BY <1>1, <1>2, <2>2, <3>1, EpisodesTyped
  <2>6. p.time \in Nat /\ p.time >= start /\ p.time <= end /\ e.start \in Nat /\ StallLookback \in Nat
    <3>1. p.time \in Nat
      BY <2>2 DEF Packet
    <3>2. e.start \in Nat
      BY <2>4, <2>5 DEF Episode
    <3>3. StallLookback \in Nat
      BY PhaseConstants
    <3> QED  BY <1>7, <3>1, <3>2, <3>3
  <2>7. e.start <= end
    BY <2>2, <2>4, <2>5, <2>6
  <2>8. e.duration = None \/ start <= e.start + e.duration
    <3>1. CASE o.recovery = None
      BY <2>4, <3>1
    <3>2. CASE o.recovery # None
      <4>1. o.recovery \in Nat /\ p.time < o.recovery /\ o.start \in Nat
        BY <2>2, <2>5, <3>2 DEF Episode
      <4>2. e.duration = o.recovery - o.start /\ e.start = o.start
        BY <2>4, <3>2
      <4> DEFINE r == o.recovery
                 b == o.start
                 t == p.time
      <4>3. r \in Nat /\ b \in Nat /\ t \in Nat /\ t < r /\ start <= t
        BY <2>6, <4>1
      <4> HIDE DEF r, b, t
      <4>4. start <= b + (r - b)
        BY <4>3
      <4> QED  BY <4>2, <4>4 DEF r, b
    <3> QED  BY <3>1, <3>2
  <2>9. e \in ReportedEpisode
    BY <1>5 DEF Range
  <2>10. e \in Overlapping(start, end)
    BY <2>7, <2>8, <2>9 DEF Overlapping
  <2>11. MatchingEpisode(episodes, start, end) # None
    BY <1>5, <2>10, OneMatches
  <2>12. hits # << >>
    <3>1. start - StallLookback <= p.time
      BY <2>6
    <3>2. p \in Hit(start, end)
      <4>1. p.time \in (start - StallLookback)..end
        BY <2>6, <3>1
      <4> QED  BY <2>2, <2>5, <4>1 DEF Hit, ZeroWindow
    <3>3. p \in Range(hits)
      BY <1>2, <1>3, <1>7, <3>2, PickedTimely
    <3> QED  BY <3>3 DEF Range
  <2> QED  BY <1>4, <2>11, <2>12
<1> QED  BY <1>4, <1>6, <1>7 DEF PauseNames, pause, episodes

\* Whatever the packets and thresholds, a pause in which an endpoint advertised a
\* closed window of a reported episode names an episode, and every pause that is
\* called a stall is among the symptoms.
THEOREM StallsAreNamed == Spec => []PauseNamesEpisode
<1>1. ASSUME CaptureInv PROVE PauseNamesEpisode
  <2> DEFINE packets == timed
             episodes == WindowEpisodes(group)
             runs == Activity(packets)
             R == Len(runs)
             phases == StreamPhases(packets, episodes)
             closed == TransportSymptoms(packets).stall.count
  <2>1. InOrder(packets)
    BY <1>1, TimedInOrder
  <2>2. Len(Picked(timed, Shut)) \in Nat /\ closed = Len(Picked(timed, Shut))
    <3>1. timed \in Seq(Packet)
      BY <2>1 DEF InOrder
    <3>2. Picked(timed, Shut) \in Seq(Packet)
      BY <3>1, PickedPlaces
    <3> QED  BY <2>1, <3>2, ShutAre
  <2> HIDE DEF packets, episodes, closed
  <2>3. PICK b : Cuts(b, runs, packets, Len(packets))
    BY <2>1, ActivityCuts
  <2>4. runs \in Seq(Seq(Packet)) /\ R \in Nat /\ DOMAIN runs = 1..R
    BY <2>3 DEF Cuts
  <2>5. Laid(phases, packets, episodes, runs, R) /\ \E S : phases \in Seq(S)
    BY <2>4, PhasesLaid
  <2>6. ASSUME NEW k \in 1..R PROVE runs[k] \in Seq(Packet) /\ runs[k] # << >>
    <3>1. b[k - 1] < b[k] /\ Len(runs[k]) = b[k] - b[k - 1] /\ b[k - 1] \in Nat /\ b[k] \in Nat
      <4>1. k - 1 \in 0..R /\ k \in 0..R
        BY <2>4
      <4>2. b \in [0..R -> 0..Len(packets)]
        BY <2>3 DEF Cuts
      <4>3. b[k - 1] < b[k] /\ Len(runs[k]) = b[k] - b[k - 1]
        BY <2>3 DEF Cuts
      <4> QED  BY <4>1, <4>2, <4>3
    <3>2. Len(runs[k]) # 0
      BY <3>1
    <3> QED  BY <2>4, <3>2
  <2> HIDE DEF runs, phases
  <2>7. \A i \in 1..Len(phases) : \E k \in 1..R : i = 2 * k - 1 \/ (i = 2 * k /\ k # R)
    <3>1. CASE R = 0
      <4>1. Len(phases) = 0
        BY <2>5, <3>1 DEF Laid
      <4> QED  BY <4>1
    <3>2. CASE R # 0
      <4>1. R \in Nat \ {0} /\ Len(phases) = 2 * R - 1
        BY <2>4, <2>5, <3>2 DEF Laid
      <4> HIDE DEF R
      <4>2. ASSUME NEW i \in 1..(2 * R - 1) PROVE \E k \in 1..R : i = 2 * k - 1 \/ (i = 2 * k /\ k # R)
        BY <4>1, PlacesOfPhases
      <4> QED  BY <4>1, <4>2
    <3> QED  BY <3>1, <3>2
  <2>8. ASSUME NEW k \in 1..R
        PROVE  Len(phases[2 * k - 1].hits) <= closed /\ phases[2 * k - 1].frames # << >>
    <3>1. phases[2 * k - 1] = RunPhase(packets, runs, k)
      BY <2>5 DEF Laid
    <3>2. RunPhase(packets, runs, k).hits = << >> /\ RunPhase(packets, runs, k).frames = Frames(runs[k])
      BY DEF RunPhase
    <3>3. 1 \in DOMAIN runs[k]
      BY <2>6
    <3>4. 1 \in DOMAIN Frames(runs[k])
      BY <3>3 DEF Frames
    <3>5. Frames(runs[k]) # << >>
      BY <3>4
    <3>6. Len(<< >>) <= closed
      BY <2>2
    <3> QED  BY <3>1, <3>2, <3>5, <3>6
  <2>9. ASSUME NEW k \in 1..R, k # R PROVE PauseNames(phases[2 * k], packets, episodes)
    <3>1. phases[2 * k] = RunPause(packets, episodes, runs, k)
      BY <2>5, <2>9 DEF Laid
    <3>2. k + 1 \in 1..R
      <4>1. R \in Nat /\ k \in 1..R /\ k # R
        BY <2>4, <2>9
      <4> HIDE DEF R
      <4> QED  BY <4>1
    <3>3. Last(runs[k]) \in Packet /\ runs[k + 1][1] \in Packet
      <4>1. \A q \in Seq(Packet) : q # << >> => Last(q) \in Packet /\ q[1] \in Packet
        <5>1. \A q \in Seq(Packet) : q # << >> => Len(q) \in 1..Len(q) /\ 1 \in 1..Len(q)
          OBVIOUS
        <5> QED  BY <5>1 DEF Last
      <4> QED  BY <2>6, <3>2, <4>1
    <3> DEFINE start == Last(runs[k]).time
               end == runs[k + 1][1].time
    <3>4. start \in Nat /\ end \in Nat
      BY <3>3 DEF Packet
    <3>5. phases[2 * k] = Pause(packets, episodes, start, end)
      BY <3>1 DEF RunPause
    <3> HIDE DEF start, end
    <3> QED  BY <1>1, <3>4, <3>5, PausesName DEF packets, episodes
  <2>10. DOMAIN phases = 1..Len(phases)
    BY <2>5
  <2>11. ASSUME NEW phase \in Range(phases)
         PROVE  /\ Len(phase.hits) <= closed
                /\ \A e \in Range(episodes) :
                    phase.frames = << >>
                        /\ (\E p \in Range(packets) : p.frame \in Range(e.probes) /\ p.time \in phase.start..phase.end)
                    => phase.episode # None
    <3>1. PICK i \in 1..Len(phases) : phase = phases[i]
      BY <2>10 DEF Range
    <3>2. PICK k \in 1..R : i = 2 * k - 1 \/ (i = 2 * k /\ k # R)
      BY <2>7
    <3>3. CASE i = 2 * k - 1
      BY <2>8, <3>1, <3>3
    <3>4. CASE i = 2 * k /\ k # R
      BY <2>9, <3>1, <3>4 DEF PauseNames, closed
    <3> QED  BY <3>2, <3>3, <3>4
  <2> QED  BY <2>11 DEF PauseNamesEpisode, packets, episodes, closed, phases
<1> QED  BY <1>1, CaptureInvariant, PTL

-----------------------------------------------------------------------------
(* Bursts *)

Burst == [direction: Direction, start: Nat, end: Nat, bytes: Nat]

\* Whether a packet goes on with the last burst.
GoesOn(bursts, p, gap) ==
    /\ bursts # << >>
    /\ bursts[Len(bursts)].direction = p.direction /\ p.time - bursts[Len(bursts)].end <= gap

\* What one more packet makes of the bursts: it is in the last, the M-th, which
\* had some bytes before it.
Extended(new, bursts, p, M, before) ==
    /\ new \in Seq(Burst) /\ M \in Nat \ {0} /\ Len(new) = M
    /\ \A k \in 1..(M - 1) : new[k] = bursts[k]
    /\ new[M].direction = p.direction /\ new[M].end = p.time
    /\ before \in Nat /\ new[M].bytes = before + p.length

\* A record extends the last burst or begins one.
LEMMA BurstExtended ==
    ASSUME NEW bursts \in Seq(Burst), NEW p \in Packet, NEW gap
    PROVE  LET new == ExtendBurst(bursts, p, gap)
               L == Len(bursts)
           IN  /\ new \in Seq(Burst)
               /\ GoesOn(bursts, p, gap) => L # 0 /\ Extended(new, bursts, p, L, bursts[L].bytes)
               /\ ~GoesOn(bursts, p, gap) => Extended(new, bursts, p, L + 1, 0)
<1> DEFINE new == ExtendBurst(bursts, p, gap)
           L == Len(bursts)
           old == bursts[L]
           longer == [old EXCEPT !.end = p.time, !.bytes = @ + p.length]
           one == [direction |-> p.direction, start |-> p.time, end |-> p.time, bytes |-> p.length]
<1>1. L \in Nat /\ (bursts # << >> => L \in 1..L) /\ \A k \in 1..L : bursts[k] \in Burst
  OBVIOUS
<1>2. p.time \in Nat /\ p.length \in Nat /\ p.direction \in Direction
  BY DEF Packet
<1>3. new = IF GoesOn(bursts, p, gap) THEN Append(Front(bursts), longer) ELSE Append(bursts, one)
  BY DEF ExtendBurst, GoesOn, Last
<1>4. one \in Burst /\ one.direction = p.direction /\ one.end = p.time /\ one.bytes = p.length
  BY <1>2 DEF Burst
<1> HIDE DEF new, one
<1>5. CASE GoesOn(bursts, p, gap)
  <2>1. bursts # << >> /\ L \in 1..L /\ old \in Burst /\ old.direction = p.direction
    BY <1>1, <1>5 DEF GoesOn
  <2>2. old.bytes \in Nat /\ old.bytes + p.length \in Nat
    BY <1>2, <2>1 DEF Burst
  <2>3. longer \in Burst /\ longer.direction = old.direction /\ longer.end = p.time
        /\ longer.bytes = old.bytes + p.length
    BY <1>2, <2>1, <2>2 DEF Burst
  <2> HIDE DEF longer
  <2> DEFINE f == Front(bursts)
  <2>4. f \in Seq(Burst) /\ Len(f) = L - 1 /\ \A k \in 1..(L - 1) : f[k] = bursts[k]
    BY <2>1, FrontOf
  <2> HIDE DEF f
  <2>5. new = Append(f, longer)
    BY <1>3, <1>5 DEF f
  <2>6. new \in Seq(Burst) /\ Len(new) = L /\ new[L] = longer /\ \A k \in 1..(L - 1) : new[k] = bursts[k]
    <3>1. Len(f) + 1 = L
      BY <1>1, <2>1, <2>4
    <3>2. new \in Seq(Burst) /\ Len(new) = Len(f) + 1 /\ new[Len(f) + 1] = longer
          /\ \A k \in 1..Len(f) : new[k] = f[k]
      BY <2>3, <2>4, <2>5
    <3> QED  BY <2>4, <3>1, <3>2
  <2>7. L \in Nat \ {0}
    BY <2>1
  <2>8. Extended(new, bursts, p, L, bursts[L].bytes)
    BY <2>1, <2>2, <2>3, <2>6, <2>7 DEF Extended
  <2> QED  BY <1>5, <2>6, <2>7, <2>8 DEF new
<1>6. CASE ~GoesOn(bursts, p, gap)
  <2>1. new = Append(bursts, one)
    BY <1>3, <1>6
  <2>2. new \in Seq(Burst) /\ Len(new) = L + 1 /\ new[L + 1] = one /\ \A k \in 1..L : new[k] = bursts[k]
    BY <1>4, <2>1
  <2>3. L + 1 \in Nat \ {0} /\ L + 1 - 1 = L /\ 0 + p.length = p.length
    BY <1>1, <1>2
  <2>4. Extended(new, bursts, p, L + 1, 0)
    BY <1>4, <2>2, <2>3 DEF Extended
  <2> QED  BY <1>6, <2>2, <2>4 DEF new
<1> QED  BY <1>5, <1>6

\* The bursts of the first n packets.
Builds(h, data, gap) ==
    /\ h \in [0..Len(data) -> Seq(Burst)] /\ h[0] = << >>
    /\ \A n \in 1..Len(data) : h[n] = ExtendBurst(h[n - 1], data[n], gap)

\* What the fold has built after each record.
LEMMA BurstsGrow ==
    ASSUME NEW s, Timely(s), \A i \in 1..Len(s) : s[i] \in Paying, NEW gap
    PROVE  \E h : Builds(h, s, gap) /\ BurstsAt(s, gap) = h[Len(s)]
<1> DEFINE N == Len(s)
           All == Seq(Burst)
           step == [i \in 1..N |-> [r \in All |-> ExtendBurst(r, s[i], gap)]]
           Is(it) == it = [c \in SUBSET (DOMAIN s) |->
                        IF c = {} THEN << >> ELSE LET x == Max(c) IN ExtendBurst(it[c \ {x}], s[x], gap)]
<1>0. s \in Seq(Packet) /\ Payload(ByTime(s)) = s
  <2>1. s \in Seq(Packet) /\ ByTime(s) = s
    BY TimelySorted DEF Timely
  <2>2. Payload(s) = Picked(s, Paying)
    BY <2>1, PayloadIs
  <2> QED  BY <2>1, <2>2, PickedAll
<1>1. BurstsAt(s, gap) = (CHOOSE it : Is(it))[DOMAIN s]
  BY <1>0 DEF BurstsAt, FoldLeft, MapThenFoldSet
<1>2. N \in Nat /\ N \in 0..N /\ DOMAIN s = 1..N /\ \A i \in 1..N : s[i] \in Packet
  BY <1>0
<1>3. step \in [1..N -> [All -> All]]
  <2>1. \A i \in 1..N : \A r \in All : ExtendBurst(r, s[i], gap) \in All
    BY <1>2, BurstExtended
  <2> HIDE DEF All
  <2> QED  BY <2>1
<1>4. << >> \in All
  OBVIOUS
<1> HIDE DEF step, All
<1>5. PICK iter : FoldsOver(iter, N, All, << >>, step)
  BY <1>2, <1>3, <1>4, FoldExists
<1>6. Is(iter)
  <2> DEFINE next(c) == IF c = {} THEN << >> ELSE LET x == Max(c) IN ExtendBurst(iter[c \ {x}], s[x], gap)
  <2>1. ASSUME NEW c \in SUBSET (1..N) PROVE iter[c] = next(c)
    <3>1. CASE c = {}
      BY <1>5, <3>1 DEF FoldsOver
    <3>2. CASE c # {}
      <4> DEFINE x == Max(c)
      <4>1. x \in 1..N
        BY <1>2, <3>2, MaxIsIn
      <4>2. c \ {x} \in SUBSET (1..N)
        OBVIOUS
      <4>3. iter[c \ {x}] \in All /\ iter[c] = step[x][iter[c \ {x}]]
        BY <1>5, <3>2, <4>2 DEF FoldsOver
      <4> HIDE DEF x
      <4>4. iter[c] = ExtendBurst(iter[c \ {x}], s[x], gap)
        BY <4>1, <4>3 DEF step
      <4> QED  BY <3>2, <4>4 DEF x
    <3> QED  BY <3>1, <3>2
  <2>2. iter = [c \in SUBSET (1..N) |-> next(c)]
    <3> HIDE DEF next
    <3> QED  BY <1>5, <2>1 DEF FoldsOver
  <2> QED  BY <1>2, <2>2
<1>7. ASSUME NEW it, Is(it)
      PROVE  it[1..0] = << >> /\ \A n \in 1..N : it[1..n] = ExtendBurst(it[1..(n - 1)], s[n], gap)
  <2>1. it[1..0] = << >>
    <3>1. 1..0 = {} /\ {} \in SUBSET (1..N)
      OBVIOUS
    <3> QED  BY <1>2, <1>7, <3>1
  <2>2. ASSUME NEW n \in 1..N PROVE it[1..n] = ExtendBurst(it[1..(n - 1)], s[n], gap)
    <3>1. n \in Nat /\ n # 0 /\ 1..n \in SUBSET (1..N)
      BY <1>2
    <3>2. 1..n # {} /\ Max(1..n) = n /\ (1..n) \ {n} = 1..(n - 1)
      BY <3>1, TopIndex
    <3>3. it[1..n] = IF 1..n = {} THEN << >> ELSE ExtendBurst(it[(1..n) \ {Max(1..n)}], s[Max(1..n)], gap)
      BY <1>2, <1>7, <3>1
    <3> QED  BY <3>2, <3>3
  <2> QED  BY <2>1, <2>2
<1> HIDE DEF Is
<1>8. PICK it : Is(it) /\ BurstsAt(s, gap) = it[1..N]
  BY <1>1, <1>2, <1>6
<1> DEFINE T == {n \in 0..N : it[1..n] \in All}
<1>9. \A n \in 0..N : n \in T
  <2>1. 0 \in T
    <3>1. 0 \in 0..N
      BY <1>2
    <3> QED  BY <1>4, <1>7, <1>8, <3>1
  <2>2. ASSUME NEW n \in 1..N, n - 1 \in T PROVE n \in T
    <3>1. n \in 0..N /\ it[1..n] = ExtendBurst(it[1..(n - 1)], s[n], gap) /\ it[1..(n - 1)] \in All
      BY <1>2, <1>7, <1>8, <2>2
    <3>2. it[1..n] \in All
      BY <1>2, <3>1, BurstExtended DEF All
    <3> QED  BY <3>1, <3>2
  <2> HIDE DEF T, N
  <2> QED  BY <1>2, <2>1, <2>2, UpTo
<1> DEFINE h == [n \in 0..N |-> it[1..n]]
<1>10. h \in [0..N -> All] /\ h[0] = << >> /\ h[N] = it[1..N]
  <2>1. 0 \in 0..N
    BY <1>2
  <2> QED  BY <1>2, <1>7, <1>8, <1>9, <2>1
<1>11. ASSUME NEW n \in 1..N PROVE h[n] = ExtendBurst(h[n - 1], s[n], gap)
  <2>1. n \in 0..N /\ n - 1 \in 0..N
    BY <1>2
  <2> QED  BY <1>7, <1>8, <2>1
<1> HIDE DEF h
<1>12. Builds(h, s, gap)
  BY <1>10, <1>11 DEF Builds, All
<1> QED  BY <1>8, <1>10, <1>12

\* Finitely many numbers, and 0, have a largest.
LEMMA LargestOf ==
    ASSUME NEW N \in Nat, NEW w \in [1..N -> Nat], NEW X, X = {w[k] : k \in 1..N} \cup {0}
    PROVE  Max(X) \in X /\ \A y \in X : Max(X) >= y
<1> DEFINE P(n, x) == (x = 0 \/ \E k \in 1..n : x = w[k]) /\ \A k \in 1..n : x >= w[k]
           T == {n \in 0..N : \E x \in Nat : P(n, x)}
<1>1. 0 \in T
  <2>1. 0 \in Nat /\ P(0, 0) /\ 0 \in 0..N
    OBVIOUS
  <2> QED  BY <2>1
<1>2. ASSUME NEW n \in 1..N, n - 1 \in T PROVE n \in T
  <2>1. PICK x \in Nat : P(n - 1, x)
    BY <1>2
  <2>2. w[n] \in Nat /\ n \in 0..N /\ n \in 1..n /\ (\A k \in 1..n : k = n \/ k \in 1..(n - 1))
        /\ \A k \in 1..n : w[k] \in Nat
    OBVIOUS
  <2>3. \A k \in 1..(n - 1) : k \in 1..n
    OBVIOUS
  <2>4. CASE x >= w[n]
    <3>1. P(n, x)
      BY <2>1, <2>2, <2>3, <2>4
    <3> QED  BY <2>2, <3>1
  <2>5. CASE ~(x >= w[n])
    <3>1. \A k \in 1..n : w[n] >= w[k]
      BY <2>1, <2>2, <2>5
    <3>2. P(n, w[n])
      BY <2>2, <3>1
    <3> HIDE DEF P
    <3> QED  BY <2>2, <3>2
  <2> QED  BY <2>4, <2>5
<1>3. \A n \in 0..N : n \in T
  <2> HIDE DEF T
  <2> QED  BY <1>1, <1>2, UpTo
<1>9. N \in T
  <2>1. N \in 0..N
    OBVIOUS
  <2> HIDE DEF T
  <2> QED  BY <1>3, <2>1
<1>4. PICK x \in Nat : P(N, x)
  <2> HIDE DEF P
  <2> QED  BY <1>9
<1>5. x \in X /\ \A y \in X : x >= y
  BY <1>4
<1> HIDE DEF P
<1> DEFINE Q(y) == y \in X /\ \A z \in X : y >= z
<1>6. Q(x)
  BY <1>5
<1>7. Max(X) = CHOOSE y \in X : \A z \in X : y >= z
  BY DEF Max
<1>8. Q(CHOOSE y \in X : \A z \in X : y >= z)
  BY <1>6
<1> QED  BY <1>7, <1>8

\* What a sequence of bursts carries, burst by burst.
Bytes(bursts) == [k \in 1..Len(bursts) |-> bursts[k].bytes]
MostBytes(bursts) == Max({b.bytes : b \in Range(bursts)} \cup {0})

\* The most bytes of any burst, or 0.
LEMMA MostBytesIs ==
    ASSUME NEW s \in Seq(Burst)
    PROVE  /\ MostBytes(s) \in Nat
           /\ MostBytes(s) = 0 \/ \E k \in 1..Len(s) : MostBytes(s) = s[k].bytes
           /\ \A k \in 1..Len(s) : s[k].bytes <= MostBytes(s)
<1> DEFINE N == Len(s)
           w == Bytes(s)
           X == {b.bytes : b \in Range(s)} \cup {0}
<1>1. N \in Nat /\ DOMAIN s = 1..N /\ \A k \in 1..N : s[k] \in Burst
  OBVIOUS
<1>2. \A k \in 1..N : s[k].bytes \in Nat
  BY <1>1 DEF Burst
<1>3. w \in [1..N -> Nat] /\ \A k \in 1..N : w[k] = s[k].bytes
  BY <1>2 DEF Bytes
<1>4. {b.bytes : b \in Range(s)} = {w[k] : k \in 1..N}
  <2>1. \A b : b \in Range(s) <=> \E k \in 1..N : b = s[k]
    BY <1>1 DEF Range
  <2> HIDE DEF w
  <2>2. \A y : y \in {b.bytes : b \in Range(s)} <=> \E k \in 1..N : y = w[k]
    BY <1>3, <2>1
  <2> HIDE DEF N
  <2> QED  BY <2>2
<1> HIDE DEF w, N
<1>5. X = {w[k] : k \in 1..N} \cup {0}
  BY <1>4
<1> HIDE DEF X
<1>6. Max(X) \in X /\ \A y \in X : Max(X) >= y
  BY <1>1, <1>3, <1>5, LargestOf
<1> DEFINE m == Max(X)
<1> HIDE DEF m
<1>7. /\ m = 0 \/ \E k \in 1..N : m = w[k]
      /\ \A k \in 1..N : m >= w[k]
  BY <1>5, <1>6 DEF m
<1>8. m \in Nat
  BY <1>3, <1>7
<1>9. \A k \in 1..N : w[k] \in Nat /\ w[k] <= m
  BY <1>3, <1>7, <1>8
<1> QED  BY <1>3, <1>7, <1>8, <1>9 DEF MostBytes, m, X, N

\* A longer gap is allowed: the last burst carries no less, and each is in one
\* that carries no less.
Wider(x, y, n) ==
    /\ n # 0 => x # << >> /\ y # << >> /\ x[Len(x)].direction = y[Len(y)].direction
                /\ x[Len(x)].end = y[Len(y)].end /\ x[Len(x)].bytes <= y[Len(y)].bytes
    /\ n = 0 => x = << >> /\ y = << >>
    /\ \A i \in 1..Len(x) : \E j \in 1..Len(y) : x[i].bytes <= y[j].bytes

\* A member of the burst list, whichever way it grew.
LEMMA ExtendedHas ==
    ASSUME NEW bs \in Seq(Burst), NEW new, NEW p \in Packet, NEW M, NEW before, Extended(new, bs, p, M, before),
           M = Len(bs) \/ M = Len(bs) + 1, M = Len(bs) => before = bs[M].bytes
    PROVE  /\ new # << >> /\ Len(new) = M /\ M \in 1..M
           /\ \A i \in 1..M : i = M \/ (i \in 1..Len(bs) /\ new[i] = bs[i])
           /\ \A j \in 1..Len(bs) : \E i \in 1..M : bs[j].bytes <= new[i].bytes
<1>1. new \in Seq(Burst) /\ M \in Nat \ {0} /\ Len(new) = M /\ before \in Nat
      /\ (\A k \in 1..(M - 1) : new[k] = bs[k]) /\ new[M].bytes = before + p.length
  BY DEF Extended
<1>2. p.length \in Nat
  BY DEF Packet
<1>3. Len(bs) \in Nat /\ \A k \in 1..Len(bs) : bs[k] \in Burst
  OBVIOUS
<1>4. \A k \in 1..Len(bs) : bs[k].bytes \in Nat
  BY <1>3 DEF Burst
<1> DEFINE L == Len(bs)
<1> HIDE DEF L
<1>5. L \in Nat /\ (M = L \/ M = L + 1)
  BY <1>3 DEF L
<1>6. /\ \A i \in 1..M : i = M \/ (i \in 1..L /\ i \in 1..(M - 1))
      /\ \A j \in 1..L : (j = M /\ M = L) \/ (j \in 1..(M - 1) /\ j \in 1..M)
      /\ M \in 1..M
  BY <1>1, <1>5
<1>7. ASSUME NEW j \in 1..L PROVE \E i \in 1..M : bs[j].bytes <= new[i].bytes
  <2>1. CASE j = M /\ M = L
    <3>1. bs[j].bytes = before
      BY <2>1 DEF L
    <3>2. before <= new[M].bytes
      BY <1>1, <1>2
    <3> QED  BY <1>6, <2>1, <3>1, <3>2
  <2>2. CASE j \in 1..(M - 1) /\ j \in 1..M
    <3>1. new[j] = bs[j] /\ bs[j].bytes \in Nat
      BY <1>1, <1>4, <2>2 DEF L
    <3> QED  BY <2>2, <3>1
  <2> QED  BY <1>6, <2>1, <2>2
<1>8. new # << >>
  BY <1>1
<1> QED  BY <1>1, <1>6, <1>7, <1>8 DEF L

\* One more record keeps the bursts of a longer gap at least as large.
LEMMA WiderStays ==
    ASSUME NEW x \in Seq(Burst), NEW y \in Seq(Burst), NEW p \in Packet, NEW g \in Nat, NEW h \in Nat, g <= h,
           NEW n \in Nat \ {0}, Wider(x, y, n - 1)
    PROVE  Wider(ExtendBurst(x, p, g), ExtendBurst(y, p, h), n)
<1> DEFINE xs == ExtendBurst(x, p, g)
           ys == ExtendBurst(y, p, h)
           joins == GoesOn(x, p, g)
           wide == GoesOn(y, p, h)
           A == Len(x)
           B == Len(y)
           M == IF joins THEN A ELSE A + 1
           K == IF wide THEN B ELSE B + 1
           a == IF joins THEN x[A].bytes ELSE 0
           b == IF wide THEN y[B].bytes ELSE 0
<1>1. A \in Nat /\ B \in Nat /\ p.length \in Nat /\ p.time \in Nat
      /\ (\A k \in 1..A : x[k].bytes \in Nat /\ x[k].end \in Nat)
      /\ (\A k \in 1..B : y[k].bytes \in Nat /\ y[k].end \in Nat)
  <2>1. (\A k \in 1..A : x[k] \in Burst) /\ \A k \in 1..B : y[k] \in Burst
    OBVIOUS
  <2>2. p.length \in Nat /\ p.time \in Nat
    BY DEF Packet
  <2>3. A \in Nat /\ B \in Nat
    OBVIOUS
  <2> QED  BY <2>1, <2>2, <2>3 DEF Burst
<1>2. xs \in Seq(Burst) /\ Extended(xs, x, p, M, a)
  BY BurstExtended
<1>3. ys \in Seq(Burst) /\ Extended(ys, y, p, K, b)
  BY BurstExtended
<1>4. joins => wide /\ x[A].bytes <= y[B].bytes
  <2> SUFFICES ASSUME joins PROVE wide /\ x[A].bytes <= y[B].bytes
    OBVIOUS
  <2>1. x # << >> /\ x[A].direction = p.direction /\ p.time - x[A].end <= g
    BY DEF GoesOn
  <2>2. n - 1 # 0 /\ y # << >> /\ x[A].direction = y[B].direction /\ x[A].end = y[B].end
        /\ x[A].bytes <= y[B].bytes
    BY <2>1 DEF Wider
  <2>3. A \in 1..A
    BY <2>1
  <2>4. p.time - y[B].end <= h
    <3>1. p.time \in Nat /\ y[B].end \in Nat /\ p.time - y[B].end <= g
      BY <1>1, <2>1, <2>2, <2>3
    <3> QED  BY <3>1
  <2> QED  BY <2>1, <2>2, <2>4 DEF GoesOn
<1>5. a <= b
  <2>1. joins => A \in 1..A
    BY <1>1 DEF GoesOn
  <2>2. wide => B \in 1..B
    BY <1>1 DEF GoesOn
  <2> HIDE DEF A, B, joins, wide
  <2> QED  BY <1>1, <1>4, <2>1, <2>2
<1>6. (joins => A \in 1..A) /\ (wide => B \in 1..B)
  BY DEF GoesOn
<1>7. /\ M = A \/ M = A + 1
      /\ K = B \/ K = B + 1
      /\ M = A => a = x[M].bytes
      /\ K = B => b = y[K].bytes
  <2>1. A # A + 1 /\ B # B + 1
    BY <1>1
  <2> HIDE DEF A, B, joins, wide
  <2> QED  BY <2>1
<1> HIDE DEF xs, ys, joins, wide, M, K, a, b
<1>8. /\ xs # << >> /\ Len(xs) = M /\ M \in 1..M
      /\ \A i \in 1..M : i = M \/ (i \in 1..A /\ xs[i] = x[i])
  BY <1>2, <1>7, ExtendedHas
<1>9. /\ ys # << >> /\ Len(ys) = K /\ K \in 1..K
      /\ \A j \in 1..B : \E i \in 1..K : y[j].bytes <= ys[i].bytes
  BY <1>3, <1>7, ExtendedHas
<1>10. /\ xs[M].direction = ys[K].direction /\ xs[M].end = ys[K].end /\ xs[M].bytes <= ys[K].bytes
       /\ xs[M].bytes \in Nat
  <2>1. /\ xs[M].direction = p.direction /\ xs[M].end = p.time /\ xs[M].bytes = a + p.length /\ a \in Nat
        /\ ys[K].direction = p.direction /\ ys[K].end = p.time /\ ys[K].bytes = b + p.length /\ b \in Nat
    BY <1>2, <1>3 DEF Extended
  <2>2. a + p.length <= b + p.length /\ a + p.length \in Nat
    BY <1>1, <1>5, <2>1
  <2> QED  BY <2>1, <2>2
<1>11. ASSUME NEW i \in 1..M PROVE \E j \in 1..K : xs[i].bytes <= ys[j].bytes
  <2>1. CASE i = M
    BY <1>9, <1>10, <2>1
  <2>2. CASE i \in 1..A /\ xs[i] = x[i]
    <3>1. PICK j \in 1..B : x[i].bytes <= y[j].bytes
      BY <2>2 DEF Wider
    <3>2. PICK k \in 1..K : y[j].bytes <= ys[k].bytes
      BY <1>9
    <3>3. x[i].bytes \in Nat /\ y[j].bytes \in Nat /\ ys[k].bytes \in Nat
      <4>1. ys[k] \in Burst
        BY <1>3, <1>9
      <4>2. ys[k].bytes \in Nat
        BY <4>1 DEF Burst
      <4> QED  BY <1>1, <2>2, <4>2
    <3>4. x[i].bytes <= ys[k].bytes
      <4> DEFINE u == x[i].bytes
                 v == y[j].bytes
                 z == ys[k].bytes
      <4>1. u \in Nat /\ v \in Nat /\ z \in Nat /\ u <= v /\ v <= z
        BY <3>1, <3>2, <3>3
      <4> HIDE DEF u, v, z
      <4>2. u <= z
        BY <4>1
      <4> QED  BY <4>2 DEF u, z
    <3> QED  BY <2>2, <3>4
  <2> QED  BY <1>8, <2>1, <2>2
<1>12. Wider(xs, ys, n)
  BY <1>8, <1>9, <1>10, <1>11 DEF Wider
<1> QED  BY <1>12 DEF xs, ys

\* Sums of the same terms are the same.
LEMMA SumSame ==
    ASSUME NEW n \in Nat, NEW v, NEW w, \A i \in 1..n : v[i] = w[i]
    PROVE  Sum(v, n) = Sum(w, n)
<1>1. ASSUME NEW g PROVE Sums(g, v, n) <=> Sums(g, w, n)
  BY DEF Sums
<1> DEFINE P(x) == \E g : Sums(g, v, n) /\ x = g[n]
           Q(x) == \E g : Sums(g, w, n) /\ x = g[n]
<1>2. \A x : P(x) <=> Q(x)
  BY <1>1
<1> HIDE DEF P, Q
<1>3. (CHOOSE x : P(x)) = CHOOSE x : Q(x)
  BY <1>2
<1> QED  BY <1>3 DEF Sum, P, Q

\* One more packet adds its bytes.
LEMMA BytesGrow ==
    ASSUME NEW bs \in Seq(Burst), NEW new, NEW p \in Packet, NEW M, NEW before, Extended(new, bs, p, M, before),
           (M = Len(bs) /\ before = bs[M].bytes) \/ (M = Len(bs) + 1 /\ before = 0)
    PROVE  Sum(Bytes(new), Len(new)) = Sum(Bytes(bs), Len(bs)) + p.length
<1> DEFINE L == Len(bs)
           u == Bytes(new)
           v == Bytes(bs)
<1>1. new \in Seq(Burst) /\ M \in Nat \ {0} /\ Len(new) = M /\ before \in Nat
      /\ (\A k \in 1..(M - 1) : new[k] = bs[k]) /\ new[M].bytes = before + p.length
  BY DEF Extended
<1>2. p.length \in Nat /\ L \in Nat /\ (\A k \in 1..L : bs[k] \in Burst) /\ \A k \in 1..M : new[k] \in Burst
  <2>1. p.length \in Nat
    BY DEF Packet
  <2> QED  BY <1>1, <2>1
<1>3. u \in [1..M -> Nat] /\ v \in [1..L -> Nat]
  BY <1>1, <1>2 DEF Bytes, Burst
<1>4. (\A k \in 1..M : u[k] = new[k].bytes) /\ \A k \in 1..L : v[k] = bs[k].bytes
  BY <1>1 DEF Bytes
<1>5. (M = L /\ before = bs[M].bytes) \/ (M = L + 1 /\ before = 0)
  OBVIOUS
<1> HIDE DEF L, u, v
<1>6. M \in 1..M /\ M - 1 \in Nat /\ \A k \in 1..(M - 1) : k \in 1..M /\ k \in 1..L
  BY <1>1, <1>2, <1>5
<1>7. \A k \in 1..(M - 1) : u[k] = v[k]
  BY <1>1, <1>4, <1>6
<1>8. Sum(u, M - 1) = Sum(v, M - 1)
  BY <1>6, <1>7, SumSame
<1>9. Sum(u, M) = Sum(u, M - 1) + u[M] /\ u[M] = before + p.length /\ Sum(u, M - 1) \in Nat
  <2>1. M \in Nat /\ M \in 1..M /\ M - 1 \in 0..M
    BY <1>1
  <2> QED  BY <1>1, <1>3, <1>4, <2>1, SumStep
<1>10. CASE M = L /\ before = bs[M].bytes
  <2>1. v \in [1..M -> Nat] /\ v[M] = before
    BY <1>3, <1>4, <1>6, <1>10
  <2>2. Sum(v, M) = Sum(v, M - 1) + v[M]
    BY <1>1, <1>6, <2>1, SumStep
  <2> DEFINE x == Sum(v, M - 1)
  <2>3. Sum(v, L) = x + before /\ Sum(u, M) = x + (before + p.length) /\ x \in Nat /\ before \in Nat /\ p.length \in Nat
    BY <1>1, <1>2, <1>8, <1>9, <1>10, <2>1, <2>2
  <2> HIDE DEF x
  <2>4. x + (before + p.length) = (x + before) + p.length
    BY <2>3
  <2> QED  BY <1>1, <2>3, <2>4 DEF L, u, v
<1>11. CASE M = L + 1 /\ before = 0
  <2>1. M - 1 = L
    BY <1>2, <1>11
  <2>2. Sum(u, M) = Sum(v, L) + (0 + p.length)
    BY <1>8, <1>9, <1>11, <2>1
  <2>3. 0 + p.length = p.length
    BY <1>2
  <2> QED  BY <1>1, <2>2, <2>3 DEF L, u, v
<1> QED  BY <1>5, <1>10, <1>11

\* The bytes of the bursts and of the packets, added up.
Lengths(s) == [k \in 1..Len(s) |-> s[k].length]

\* The bytes of the bursts, added up.
LEMMA TotalBytes ==
    ASSUME NEW m \in Seq(Burst)
    PROVE  Total(m, LAMBDA b : b.bytes) = Sum(Bytes(m), Len(m))
<1> DEFINE n == Len(m)
           w == Bytes(m)
           Is(it) == it = [c \in SUBSET (DOMAIN m) |-> IF c = {} THEN 0
                            ELSE LET x == Max(c) IN it[c \ {x}] + m[x].bytes]
<1>1. n \in Nat /\ DOMAIN m = 1..n /\ \A k \in 1..n : m[k] \in Burst
  OBVIOUS
<1>2. w \in [1..n -> Nat] /\ \A k \in 1..n : w[k] = m[k].bytes
  BY <1>1 DEF Bytes, Burst
<1>3. Total(m, LAMBDA b : b.bytes) = (CHOOSE it : Is(it))[DOMAIN m]
  BY DEF Total, FoldLeft, MapThenFoldSet
<1> HIDE DEF n, w
<1>4. ASSUME NEW it PROVE Is(it) <=> SumFold(it, w, n)
  <2> DEFINE left(c) == IF c = {} THEN 0 ELSE LET x == Max(c) IN it[c \ {x}] + m[x].bytes
             right(c) == IF c = {} THEN 0 ELSE LET x == Max(c) IN it[c \ {x}] + w[x]
  <2>1. ASSUME NEW c \in SUBSET (1..n) PROVE left(c) = right(c)
    <3>1. CASE c # {}
      <4>1. Max(c) \in 1..n
        BY <1>1, <3>1, MaxIsIn
      <4>2. m[Max(c)].bytes = w[Max(c)]
        BY <1>2, <4>1
      <4> QED  BY <4>2
    <3> QED  BY <3>1
  <2>2. Is(it) <=> it = [c \in SUBSET (1..n) |-> left(c)]
    BY <1>1
  <2>3. SumFold(it, w, n) <=> it = [c \in SUBSET (1..n) |-> right(c)]
    BY DEF SumFold
  <2> HIDE DEF left, right, Is
  <2>4. [c \in SUBSET (1..n) |-> left(c)] = [c \in SUBSET (1..n) |-> right(c)]
    BY <2>1
  <2> QED  BY <2>2, <2>3, <2>4
<1> HIDE DEF Is
<1>5. (CHOOSE it : Is(it)) = (CHOOSE it : SumFold(it, w, n))
  BY <1>4
<1>6. (CHOOSE it : SumFold(it, w, n))[1..n] = Sum(w, n)
  BY <1>1, <1>2, FoldSums
<1> QED  BY <1>1, <1>3, <1>5, <1>6 DEF n, w

\* The lengths of the packets, added up.
LEMMA TotalLengths ==
    ASSUME NEW m \in Seq(Packet)
    PROVE  Lengths(m) \in [1..Len(m) -> Nat] /\ Total(m, LAMBDA p : p.length) = Sum(Lengths(m), Len(m))
<1> DEFINE n == Len(m)
           w == Lengths(m)
           Is(it) == it = [c \in SUBSET (DOMAIN m) |-> IF c = {} THEN 0
                            ELSE LET x == Max(c) IN it[c \ {x}] + m[x].length]
<1>1. n \in Nat /\ DOMAIN m = 1..n /\ \A k \in 1..n : m[k] \in Packet
  OBVIOUS
<1>2. w \in [1..n -> Nat] /\ \A k \in 1..n : w[k] = m[k].length
  BY <1>1 DEF Lengths, Packet
<1>3. Total(m, LAMBDA p : p.length) = (CHOOSE it : Is(it))[DOMAIN m]
  BY DEF Total, FoldLeft, MapThenFoldSet
<1> HIDE DEF n, w
<1>4. ASSUME NEW it PROVE Is(it) <=> SumFold(it, w, n)
  <2> DEFINE left(c) == IF c = {} THEN 0 ELSE LET x == Max(c) IN it[c \ {x}] + m[x].length
             right(c) == IF c = {} THEN 0 ELSE LET x == Max(c) IN it[c \ {x}] + w[x]
  <2>1. ASSUME NEW c \in SUBSET (1..n) PROVE left(c) = right(c)
    <3>1. CASE c # {}
      <4>1. Max(c) \in 1..n
        BY <1>1, <3>1, MaxIsIn
      <4>2. m[Max(c)].length = w[Max(c)]
        BY <1>2, <4>1
      <4> QED  BY <4>2
    <3> QED  BY <3>1
  <2>2. Is(it) <=> it = [c \in SUBSET (1..n) |-> left(c)]
    BY <1>1
  <2>3. SumFold(it, w, n) <=> it = [c \in SUBSET (1..n) |-> right(c)]
    BY DEF SumFold
  <2> HIDE DEF left, right, Is
  <2>4. [c \in SUBSET (1..n) |-> left(c)] = [c \in SUBSET (1..n) |-> right(c)]
    BY <2>1
  <2> QED  BY <2>2, <2>3, <2>4
<1> HIDE DEF Is
<1>5. (CHOOSE it : Is(it)) = (CHOOSE it : SumFold(it, w, n))
  BY <1>4
<1>6. (CHOOSE it : SumFold(it, w, n))[1..n] = Sum(w, n)
  BY <1>1, <1>2, FoldSums
<1> QED  BY <1>1, <1>2, <1>3, <1>5, <1>6 DEF n, w

\* Where a burst ends after n packets, how many there are and what they carry.
Breaks(s, n, gap) ==
    {i \in 2..n : s[i].direction # s[i - 1].direction \/ s[i].time - s[i - 1].time > gap}
Made(bursts, s, n, gap) ==
    /\ n # 0 => bursts # << >> /\ bursts[Len(bursts)].direction = s[n].direction
                /\ bursts[Len(bursts)].end = s[n].time
    /\ n = 0 => bursts = << >>
    /\ IsFiniteSet(Breaks(s, n, gap))
    /\ n # 0 => Len(bursts) = Cardinality(Breaks(s, n, gap)) + 1
    /\ Sum(Bytes(bursts), Len(bursts)) = Sum(Lengths(s), n)

\* After each record the bursts are made of all records so far.
LEMMA BurstsMade ==
    ASSUME NEW s \in Seq(Packet), NEW gap \in Nat, NEW h, Builds(h, s, gap)
    PROVE  \A n \in 0..Len(s) : Made(h[n], s, n, gap)
<1> DEFINE N == Len(s)
           w == Lengths(s)
           T == {n \in 0..N : Made(h[n], s, n, gap)}
<1>1. N \in Nat /\ (\A i \in 1..N : s[i] \in Packet) /\ w \in [1..N -> Nat] /\ \A i \in 1..N : w[i] = s[i].length
  <2>1. w \in [1..N -> Nat]
    BY TotalLengths
  <2> QED  BY <2>1 DEF Lengths
<1>2. \A i \in 1..N : s[i].time \in Nat
  BY <1>1 DEF Packet
<1>3. h \in [0..N -> Seq(Burst)] /\ h[0] = << >> /\ \A n \in 1..N : h[n] = ExtendBurst(h[n - 1], s[n], gap)
  BY DEF Builds
<1> HIDE DEF N, w
<1>4. 0 \in T
  <2>1. Breaks(s, 0, gap) = {}
    <3>1. \A i \in Int : i \notin 2..0
      OBVIOUS
    <3>2. 2..0 = {}
      BY <3>1
    <3> QED  BY <3>2 DEF Breaks
  <2>2. Sum(Bytes(<< >>), Len(<< >>)) = Sum(w, 0)
    <3>1. Len(<< >>) = 0 /\ Sum(w, 0) = 0
      BY <1>1, SumStep
    <3>2. \A i \in 1..0 : Bytes(<< >>)[i] = w[i]
      OBVIOUS
    <3>3. 0 \in Nat
      OBVIOUS
    <3>4. Sum(Bytes(<< >>), 0) = Sum(w, 0)
      BY <3>2, <3>3, SumSame
    <3> QED  BY <3>1, <3>4
  <2>3. Made(<< >>, s, 0, gap)
    BY <2>1, <2>2, FS_EmptySet DEF Made, w
  <2> QED  BY <1>1, <1>3, <2>3
<1>5. ASSUME NEW n \in 1..N, n - 1 \in T PROVE n \in T
  <2> DEFINE bs == h[n - 1]
             L == Len(bs)
             p == s[n]
             new == h[n]
             joins == GoesOn(bs, p, gap)
             M == IF joins THEN L ELSE L + 1
             before == IF joins THEN bs[L].bytes ELSE 0
             old == Breaks(s, n - 1, gap)
             now == Breaks(s, n, gap)
             breaks == s[n].direction # s[n - 1].direction \/ s[n].time - s[n - 1].time > gap
  <2>1. bs \in Seq(Burst) /\ p \in Packet /\ new = ExtendBurst(bs, p, gap) /\ L \in Nat
        /\ n - 1 \in 0..N /\ n \in 0..N /\ n \in Nat
    <3>1. n - 1 \in 0..N /\ n \in 0..N /\ n \in Nat
      BY <1>1
    <3>2. bs \in Seq(Burst)
      BY <1>3, <3>1
    <3>3. L \in Nat
      BY <3>2
    <3> QED  BY <1>1, <1>3, <3>1, <3>2, <3>3
  <2>2. Made(bs, s, n - 1, gap)
    BY <1>5
  <2>3. L # 0 <=> n # 1
    <3>1. (n = 1 => n - 1 = 0) /\ (n # 1 => n - 1 # 0)
      BY <2>1
    <3>2. n = 1 => L = 0
      BY <2>2, <3>1 DEF Made
    <3>3. n # 1 => bs # << >>
      BY <2>2, <3>1 DEF Made
    <3>4. bs # << >> => L # 0
      BY <2>1
    <3> QED  BY <3>2, <3>3, <3>4
  <2>4. Extended(new, bs, p, M, before) /\ new \in Seq(Burst) /\ (joins => L # 0)
    BY <2>1, BurstExtended
  <2>5. joins <=> n # 1 /\ ~breaks
    <3>1. CASE n = 1
      BY <2>3, <2>4, <3>1
    <3>2. CASE n # 1
      <4>1. n - 1 # 0 /\ n - 1 \in 1..N
        BY <1>1, <2>1, <3>2
      <4>2. bs # << >> /\ bs[L].direction = s[n - 1].direction /\ bs[L].end = s[n - 1].time
        BY <2>2, <4>1 DEF Made
      <4>3. p.time - s[n - 1].time <= gap <=> ~(s[n].time - s[n - 1].time > gap)
        <5>1. s[n].time \in Nat /\ s[n - 1].time \in Nat
          BY <1>2, <4>1
        <5> QED  BY <5>1
      <4> QED  BY <3>2, <4>2, <4>3 DEF GoesOn
    <3> QED  BY <3>1, <3>2
  <2>6. now = IF n # 1 /\ breaks THEN old \cup {n} ELSE old
    <3>1. \A i : i \in 2..n <=> i \in 2..(n - 1) \/ (i = n /\ n # 1)
      BY <2>1
    <3> DEFINE at(i) == s[i].direction # s[i - 1].direction \/ s[i].time - s[i - 1].time > gap
    <3>2. \A i : (i \in now <=> i \in 2..n /\ at(i)) /\ (i \in old <=> i \in 2..(n - 1) /\ at(i))
      BY DEF Breaks
    <3>3. breaks <=> at(n)
      OBVIOUS
    <3> HIDE DEF at, now, old, breaks
    <3>4. ASSUME NEW i PROVE i \in now <=> i \in old \/ (i = n /\ n # 1 /\ breaks)
      <4>1. i = n => (at(i) <=> breaks)
        BY <3>3
      <4>2. (i \in 2..n <=> i \in 2..(n - 1) \/ (i = n /\ n # 1))
        BY <3>1
      <4> QED  BY <3>2, <4>1, <4>2, Zenon
    <3>5. CASE n # 1 /\ breaks
      <4>1. now = old \cup {n}
        BY <3>4, <3>5
      <4> QED  BY <3>5, <4>1
    <3>6. CASE ~(n # 1 /\ breaks)
      <4>1. now = old
        BY <3>4, <3>6
      <4> QED  BY <3>6, <4>1
    <3> QED  BY <3>5, <3>6
  <2>7. n \notin old
    <3>1. n \notin 2..(n - 1)
      BY <2>1
    <3> QED  BY <3>1 DEF Breaks
  <2>8. IsFiniteSet(old)
    BY <2>2 DEF Made
  <2>9. IsFiniteSet(now) /\ Cardinality(now) = (IF n # 1 /\ breaks THEN Cardinality(old) + 1 ELSE Cardinality(old))
        /\ Cardinality(old) \in Nat
    <3> HIDE DEF now, old, breaks
    <3> QED  BY <2>6, <2>7, <2>8, FS_AddElement, FS_CardinalityType
  <2>10. n = 1 => Cardinality(old) = 0
    <3> SUFFICES ASSUME n = 1 PROVE Cardinality(old) = 0
      OBVIOUS
    <3>1. \A i \in Int : i \notin 2..(1 - 1)
      OBVIOUS
    <3>2. old = {}
      BY <3>1 DEF Breaks
    <3> HIDE DEF old
    <3> QED  BY <3>2, FS_EmptySet
  <2>11. n # 1 => L = Cardinality(old) + 1
    <3>1. n # 1 => n - 1 # 0
      BY <2>1
    <3> QED  BY <2>2, <3>1 DEF Made
  <2>12. Len(new) = M /\ new # << >> /\ new[M].direction = p.direction /\ new[M].end = p.time
    <3>1. new \in Seq(Burst) /\ M \in Nat \ {0} /\ Len(new) = M /\ new[M].direction = p.direction /\ new[M].end = p.time
      BY <2>4 DEF Extended
    <3> HIDE DEF M, new
    <3> QED  BY <3>1
  <2>13. M = Cardinality(now) + 1
    <3> DEFINE c == Cardinality(old)
               d == Cardinality(now)
    <3>1. c \in Nat /\ d = (IF n # 1 /\ breaks THEN c + 1 ELSE c) /\ (n = 1 => c = 0) /\ (n # 1 => L = c + 1)
          /\ (n = 1 => L = 0) /\ M = IF n # 1 /\ ~breaks THEN L ELSE L + 1
      BY <2>3, <2>5, <2>9, <2>10, <2>11
    <3> HIDE DEF c, d, breaks, L, M
    <3> QED  BY <3>1 DEF d
  <2>14. Sum(Bytes(new), Len(new)) = Sum(w, n)
    <3>1. (M = L /\ before = bs[M].bytes) \/ (M = L + 1 /\ before = 0)
      OBVIOUS
    <3>2. Sum(Bytes(new), Len(new)) = Sum(Bytes(bs), L) + p.length
      <4> HIDE DEF M, before, new, p
      <4> QED  BY <2>1, <2>4, <3>1, BytesGrow
    <3>3. Sum(w, n) = Sum(w, n - 1) + w[n]
      BY <1>1, SumStep
    <3>4. Sum(Bytes(bs), L) = Sum(w, n - 1)
      BY <2>2 DEF Made, w
    <3> QED  BY <1>1, <3>2, <3>3, <3>4
  <2>15. Made(new, s, n, gap)
    <3>1. n # 0
      BY <2>1
    <3> HIDE DEF M
    <3> QED  BY <2>9, <2>12, <2>13, <2>14, <3>1 DEF Made, w
  <2> QED  BY <2>1, <2>15
<1>6. \A n \in 0..N : n \in T
  <2> HIDE DEF T
  <2> QED  BY <1>1, <1>4, <1>5, UpTo
<1> QED  BY <1>6 DEF N

\* A longer gap never finds a smaller largest burst.
LEMMA WiderFindsMore ==
    ASSUME NEW s, Timely(s), \A i \in 1..Len(s) : s[i] \in Paying, NEW a \in Nat, NEW b \in Nat, a <= b
    PROVE  LargestBurst(s, a) <= LargestBurst(s, b)
<1> DEFINE N == Len(s)
<1>0. s \in Seq(Packet)
  BY DEF Timely
<1>1. N \in Nat /\ N \in 0..N /\ 0 \in 0..N
  BY <1>0
<1>2. PICK g : Builds(g, s, a) /\ BurstsAt(s, a) = g[N]
  BY BurstsGrow
<1>3. PICK h : Builds(h, s, b) /\ BurstsAt(s, b) = h[N]
  BY BurstsGrow
<1>4. g \in [0..N -> Seq(Burst)] /\ g[0] = << >> /\ \A n \in 1..N : g[n] = ExtendBurst(g[n - 1], s[n], a)
  BY <1>2 DEF Builds
<1>5. h \in [0..N -> Seq(Burst)] /\ h[0] = << >> /\ \A n \in 1..N : h[n] = ExtendBurst(h[n - 1], s[n], b)
  BY <1>3 DEF Builds
<1> DEFINE T == {n \in 0..N : Wider(g[n], h[n], n)}
<1>6. 0 \in T
  <2>1. Wider(<< >>, << >>, 0)
    BY DEF Wider
  <2> QED  BY <1>1, <1>4, <1>5, <2>1
<1>7. ASSUME NEW n \in 1..N, n - 1 \in T PROVE n \in T
  <2>1. n \in Nat \ {0} /\ n - 1 \in 0..N /\ n \in 0..N /\ s[n] \in Packet
    BY <1>0, <1>1
  <2>2. Wider(g[n - 1], h[n - 1], n - 1) /\ g[n - 1] \in Seq(Burst) /\ h[n - 1] \in Seq(Burst)
    BY <1>4, <1>5, <1>7, <2>1
  <2>3. Wider(ExtendBurst(g[n - 1], s[n], a), ExtendBurst(h[n - 1], s[n], b), n)
    BY <2>1, <2>2, WiderStays
  <2> QED  BY <1>4, <1>5, <2>1, <2>3
<1>8. \A n \in 0..N : n \in T
  <2> HIDE DEF T, N
  <2> QED  BY <1>1, <1>6, <1>7, UpTo
<1> DEFINE x == g[N]
           y == h[N]
<1>9. x \in Seq(Burst) /\ y \in Seq(Burst) /\ Wider(x, y, N)
  BY <1>1, <1>4, <1>5, <1>8
<1>10. LargestBurst(s, a) = MostBytes(x) /\ LargestBurst(s, b) = MostBytes(y)
  BY <1>2, <1>3 DEF LargestBurst, MostBytes
<1> HIDE DEF x, y, T, N
<1>11. MostBytes(x) \in Nat /\ (MostBytes(x) = 0 \/ \E k \in 1..Len(x) : MostBytes(x) = x[k].bytes)
  BY <1>9, MostBytesIs
<1>12. MostBytes(y) \in Nat /\ \A k \in 1..Len(y) : y[k].bytes <= MostBytes(y)
  BY <1>9, MostBytesIs
<1>13. CASE MostBytes(x) = 0
  BY <1>10, <1>12, <1>13
<1>14. ASSUME NEW i \in 1..Len(x), MostBytes(x) = x[i].bytes PROVE MostBytes(x) <= MostBytes(y)
  <2>1. PICK j \in 1..Len(y) : x[i].bytes <= y[j].bytes
    BY <1>9 DEF Wider
  <2>2. y[j] \in Burst
    BY <1>9
  <2>3. y[j].bytes \in Nat /\ y[j].bytes <= MostBytes(y)
    BY <1>12, <2>2 DEF Burst
  <2> DEFINE u == MostBytes(x)
             v == y[j].bytes
             z == MostBytes(y)
  <2>4. u \in Nat /\ v \in Nat /\ z \in Nat /\ u <= v /\ v <= z
    BY <1>11, <1>12, <1>14, <2>1, <2>3
  <2> HIDE DEF u, v, z
  <2>5. u <= z
    BY <2>4
  <2> QED  BY <2>5 DEF u, z
<1> QED  BY <1>10, <1>11, <1>13, <1>14

\* There is one burst more than there are breaks, and no byte is lost.
LEMMA BurstsCover ==
    ASSUME NEW s, Timely(s), \A i \in 1..Len(s) : s[i] \in Paying, NEW gap \in Nat
    PROVE  /\ Total(BurstsAt(s, gap), LAMBDA b : b.bytes) = Total(s, LAMBDA p : p.length)
           /\ s # << >> => Len(BurstsAt(s, gap)) = Cardinality(Breaks(s, Len(s), gap)) + 1
<1> DEFINE N == Len(s)
           bursts == BurstsAt(s, gap)
<1>1. s \in Seq(Packet)
  BY DEF Timely
<1>2. N \in Nat /\ N \in 0..N /\ (s # << >> => N # 0)
  BY <1>1
<1>3. PICK h : Builds(h, s, gap) /\ bursts = h[N]
  BY BurstsGrow
<1>4. Made(h[N], s, N, gap)
  BY <1>1, <1>2, <1>3, BurstsMade
<1>5. h[N] \in Seq(Burst)
  BY <1>2, <1>3 DEF Builds
<1> HIDE DEF bursts
<1>6. Total(bursts, LAMBDA b : b.bytes) = Sum(Bytes(bursts), Len(bursts))
  BY <1>3, <1>5, TotalBytes
<1>7. Total(s, LAMBDA p : p.length) = Sum(Lengths(s), N)
  BY <1>1, TotalLengths
<1>8. Sum(Bytes(bursts), Len(bursts)) = Sum(Lengths(s), N)
  BY <1>3, <1>4 DEF Made
<1>9. N # 0 => Len(bursts) = Cardinality(Breaks(s, N, gap)) + 1
  BY <1>3, <1>4 DEF Made
<1> QED  BY <1>2, <1>6, <1>7, <1>8, <1>9 DEF bursts

-----------------------------------------------------------------------------
(* The first flight *)

\* What comes first of a set of indices.
LEMMA FirstIndex ==
    ASSUME NEW N \in Nat, NEW X \in SUBSET (1..N), X # {}
    PROVE  Min(X) \in X /\ \A y \in X : Min(X) <= y
<1> DEFINE P(x) == x \in X /\ \A y \in X : x <= y
           Y == {N + 1 - x : x \in X}
<1>1. Y \in SUBSET (1..N) /\ Y # {}
  <2>1. \A x \in X : N + 1 - x \in 1..N
    OBVIOUS
  <2> QED  BY <2>1
<1>2. Max(Y) \in Y /\ \A y \in Y : Max(Y) >= y
  BY <1>1, MaxIsIn
<1>3. PICK x \in X : Max(Y) = N + 1 - x
  BY <1>2
<1>4. P(x)
  <2>1. ASSUME NEW y \in X PROVE x <= y
    <3>1. N + 1 - y \in Y
      OBVIOUS
    <3>2. N + 1 - x >= N + 1 - y
      BY <1>2, <1>3, <3>1
    <3>3. x \in 1..N /\ y \in 1..N
      OBVIOUS
    <3> QED  BY <3>2, <3>3
  <2> QED  BY <2>1
<1>5. P(CHOOSE z \in X : \A y \in X : z <= y)
  <2> HIDE DEF Y
  <2> QED  BY <1>4
<1> QED  BY <1>5 DEF Min

\* The payload of a direction from one packet to another.
Part(g, d, a, m) == Payload(From(SubSeq(g, a, m), d))
Carries(p, d) == p.direction = d /\ p.length > 0

\* The next record of the direction, and those of the other between them.
LEMMA PartStep ==
    ASSUME NEW g \in Seq(Packet), NEW d, NEW a \in 1..Len(g)
    PROVE  /\ Part(g, d, a, a - 1) = << >>
           /\ \A m \in (a - 1)..Len(g) : Part(g, d, a, m) \in Seq(Packet)
           /\ \A m \in a..Len(g) :
                Part(g, d, a, m) = IF Carries(g[m], d) THEN Append(Part(g, d, a, m - 1), g[m])
                                   ELSE Part(g, d, a, m - 1)
<1> DEFINE N == Len(g)
           S(m) == SubSeq(g, a, m)
<1>1. N \in Nat /\ a \in Nat /\ a # 0 /\ a <= N /\ \A i \in 1..N : g[i] \in Packet
  OBVIOUS
<1>2. ASSUME NEW m \in (a - 1)..N PROVE S(m) \in Seq(Packet)
  BY <1>1
<1>3. S(a - 1) = << >>
  BY <1>1
<1>4. ASSUME NEW m \in a..N PROVE S(m) = Append(S(m - 1), g[m])
  <2>1. m \in Nat /\ m - 1 \in (a - 1)..N /\ m \in 1..N /\ m - 1 \in Nat
    BY <1>1
  <2> DEFINE r == S(m - 1)
             t == Append(r, g[m])
  <2>2. r \in Seq(Packet) /\ Len(r) = m - a /\ \A k \in 1..(m - a) : r[k] = g[a + k - 1]
    <3>1. Len(r) = m - a
      BY <1>1, <2>1
    <3>2. r = [k \in 1..(m - a) |-> g[a + k - 1]]
      BY <1>1, <2>1
    <3> HIDE DEF r
    <3>3. r \in Seq(Packet)
      BY <1>2, <2>1 DEF r
    <3> QED  BY <3>1, <3>2, <3>3
  <2>3. S(m) = [k \in 1..(m - a + 1) |-> g[a + k - 1]]
    BY <1>1, <2>1
  <2> HIDE DEF r
  <2>4. t = [k \in 1..(m - a + 1) |-> IF k <= m - a THEN r[k] ELSE g[m]]
    <3>1. t \in Seq(Packet) /\ Len(t) = m - a + 1 /\ t[m - a + 1] = g[m] /\ \A k \in 1..(m - a) : t[k] = r[k]
      <4>1. t \in Seq(Packet) /\ Len(t) = Len(r) + 1 /\ t[Len(r) + 1] = g[m] /\ \A k \in 1..Len(r) : t[k] = r[k]
        <5>1. r \in Seq(Packet) /\ g[m] \in Packet
          BY <1>1, <2>1, <2>2
        <5> QED  BY <5>1
      <4> HIDE DEF t
      <4> QED  BY <2>2, <4>1
    <3> HIDE DEF t
    <3>2. DOMAIN t = 1..(m - a + 1) /\ t = [k \in 1..(m - a + 1) |-> t[k]]
      BY <3>1
    <3>3. \A k \in 1..(m - a + 1) : t[k] = IF k <= m - a THEN r[k] ELSE g[m]
      <4>1. \A k \in 1..(m - a + 1) : (k <= m - a /\ k \in 1..(m - a)) \/ (~(k <= m - a) /\ k = m - a + 1)
        BY <1>1, <2>1
      <4> QED  BY <3>1, <4>1
    <3> QED  BY <3>2, <3>3
  <2>5. \A k \in 1..(m - a + 1) : (IF k <= m - a THEN r[k] ELSE g[m]) = g[a + k - 1]
    <3>1. ASSUME NEW k \in 1..(m - a + 1) PROVE (IF k <= m - a THEN r[k] ELSE g[m]) = g[a + k - 1]
      <4>1. (k <= m - a /\ k \in 1..(m - a)) \/ (~(k <= m - a) /\ a + k - 1 = m)
        BY <1>1, <2>1
      <4> QED  BY <2>2, <4>1
    <3> QED  BY <3>1
  <2> HIDE DEF t
  <2>6. S(m) = t
    BY <2>3, <2>4, <2>5
  <2> QED  BY <2>6 DEF t, r
<1> HIDE DEF S
<1>5. ASSUME NEW s \in Seq(Packet) PROVE From(s, d) = Picked(s, Sent(d)) /\ From(s, d) \in Seq(Packet)
  BY FromIs, PickedAppend
<1>6. ASSUME NEW s \in Seq(Packet) PROVE Payload(s) = Picked(s, Paying) /\ Payload(s) \in Seq(Packet)
  BY PayloadIs, PickedAppend
<1>7. Part(g, d, a, a - 1) = << >>
  <2>1. << >> \in Seq(Packet) /\ Packet # {}
    BY <1>1
  <2>2. Picked(<< >>, Sent(d)) = << >> /\ Picked(<< >>, Paying) = << >>
    <3>1. PICK x \in Packet : TRUE
      BY <2>1
    <3> QED  BY <2>1, <3>1, PickedAppend
  <2>3. From(<< >>, d) = << >> /\ Payload(<< >>) = << >>
    BY <1>5, <1>6, <2>1, <2>2
  <2> QED  BY <1>3, <2>3 DEF Part, S
<1>8. ASSUME NEW m \in (a - 1)..N PROVE Part(g, d, a, m) \in Seq(Packet)
  BY <1>2, <1>5, <1>6 DEF Part, S
<1>9. ASSUME NEW m \in a..N
      PROVE  Part(g, d, a, m) = IF Carries(g[m], d) THEN Append(Part(g, d, a, m - 1), g[m])
                                ELSE Part(g, d, a, m - 1)
  <2> DEFINE r == S(m - 1)
             x == g[m]
  <2>1. m - 1 \in (a - 1)..N /\ m \in 1..N
    BY <1>1
  <2>2. r \in Seq(Packet) /\ x \in Packet /\ Append(r, x) \in Seq(Packet) /\ S(m) = Append(r, x)
    BY <1>1, <1>2, <1>4, <2>1
  <2> HIDE DEF r, x
  <2> DEFINE f == From(r, d)
  <2>3. f \in Seq(Packet) /\ From(Append(r, x), d) = IF x \in Sent(d) THEN Append(f, x) ELSE f
    <3>1. Picked(Append(r, x), Sent(d)) = IF x \in Sent(d) THEN Append(Picked(r, Sent(d)), x) ELSE Picked(r, Sent(d))
      BY <2>2, PickedAppend
    <3>2. From(Append(r, x), d) = Picked(Append(r, x), Sent(d)) /\ f = Picked(r, Sent(d)) /\ f \in Seq(Packet)
      BY <1>5, <2>2
    <3> HIDE DEF f
    <3> QED  BY <3>1, <3>2
  <2> HIDE DEF f
  <2>4. Append(f, x) \in Seq(Packet)
    BY <2>2, <2>3
  <2>5. Payload(Append(f, x)) = IF x \in Paying THEN Append(Payload(f), x) ELSE Payload(f)
    <3>1. Picked(Append(f, x), Paying) = IF x \in Paying THEN Append(Picked(f, Paying), x) ELSE Picked(f, Paying)
      <4>1. f \in Seq(Packet) /\ x \in Packet
        BY <2>2, <2>3
      <4> QED  BY <4>1, PickedAppend
    <3>2. Payload(Append(f, x)) = Picked(Append(f, x), Paying) /\ Payload(f) = Picked(f, Paying)
      BY <1>6, <2>3, <2>4
    <3> QED  BY <3>1, <3>2
  <2>6. Carries(x, d) <=> x \in Sent(d) /\ x \in Paying
    BY <2>2 DEF Carries, Sent, Paying
  <2>7. Payload(From(Append(r, x), d)) = IF Carries(x, d) THEN Append(Payload(f), x) ELSE Payload(f)
    BY <2>3, <2>5, <2>6
  <2>8. Part(g, d, a, m) = Payload(From(Append(r, x), d)) /\ Part(g, d, a, m - 1) = Payload(f)
    BY <2>2 DEF Part, S, r, f
  <2> QED  BY <2>7, <2>8 DEF x
<1> QED  BY <1>7, <1>8, <1>9

\* Sequences of packets, at least one.
Flights == {r \in Seq(Seq(Packet)) : r # << >>}

\* A record extends the last run, ends it or leaves it alone.
LEMMA FlightExtended ==
    ASSUME NEW fl \in Flights, NEW p \in Packet, NEW d
    PROVE  LET new == ExtendFlight(fl, p, d)
               L == Len(fl)
           IN  /\ new \in Flights
               /\ Carries(p, d) => /\ Len(new) = L /\ new[L] = Append(fl[L], p)
                                   /\ \A k \in 1..(L - 1) : new[k] = fl[k]
               /\ ~Carries(p, d) /\ Interrupts(p, d) =>
                    Len(new) = L + 1 /\ new[L + 1] = << >> /\ \A k \in 1..L : new[k] = fl[k]
               /\ ~Carries(p, d) /\ ~Interrupts(p, d) => new = fl
<1> DEFINE new == ExtendFlight(fl, p, d)
           L == Len(fl)
           S == Seq(Packet)
           f == Front(fl)
           longer == Append(fl[L], p)
<1>1. fl \in Seq(S) /\ fl # << >>
  BY DEF Flights
<1>2. L \in Nat \ {0} /\ L \in 1..L /\ fl[L] \in S
  BY <1>1
<1>3. longer \in S
  <2> HIDE DEF L
  <2> QED  BY <1>2
<1>4. f \in Seq(S) /\ Len(f) = L - 1 /\ \A k \in 1..(L - 1) : f[k] = fl[k]
  BY <1>1, <1>2, FrontOf
<1>5. new = IF Carries(p, d) THEN Append(f, longer)
            ELSE IF Interrupts(p, d) THEN Append(fl, << >>) ELSE fl
  BY DEF ExtendFlight, Carries, Last
<1>6. << >> \in S
  OBVIOUS
<1> HIDE DEF new, f, longer, S
<1>7. CASE Carries(p, d)
  <2>1. new = Append(f, longer)
    BY <1>5, <1>7
  <2>2. new \in Seq(S) /\ Len(new) = Len(f) + 1 /\ new[Len(f) + 1] = longer /\ \A k \in 1..Len(f) : new[k] = f[k]
    BY <1>3, <1>4, <2>1
  <2>3. Len(f) + 1 = L
    BY <1>2, <1>4
  <2>4. Len(new) = L /\ new[L] = longer /\ \A k \in 1..(L - 1) : new[k] = fl[k]
    BY <1>4, <2>2, <2>3
  <2>5. new # << >>
    BY <1>2, <2>4
  <2> QED  BY <1>7, <2>2, <2>4, <2>5 DEF new, longer, Flights, S
<1>8. CASE ~Carries(p, d) /\ Interrupts(p, d)
  <2>1. new = Append(fl, << >>)
    BY <1>5, <1>8
  <2>2. new \in Seq(S) /\ Len(new) = L + 1 /\ new[L + 1] = << >> /\ \A k \in 1..L : new[k] = fl[k]
    BY <1>1, <1>6, <2>1
  <2>3. new # << >>
    BY <1>2, <2>2
  <2> QED  BY <1>8, <2>2, <2>3 DEF new, Flights, S
<1>9. CASE ~Carries(p, d) /\ ~Interrupts(p, d)
  BY <1>5, <1>9 DEF new
<1> QED  BY <1>7, <1>8, <1>9

\* The flights of the first n packets.
Flies(h, s, d) ==
    /\ h \in [0..Len(s) -> Flights] /\ h[0] = << << >> >>
    /\ \A n \in 1..Len(s) : h[n] = ExtendFlight(h[n - 1], s[n], d)

\* Those of them long enough.
Long(least) == {r \in Seq(Packet) : Len(r) >= least}

\* What the fold has built after each record; a rate is taken from its long runs.
LEMMA FlightsFly ==
    ASSUME NEW s \in Seq(Packet), NEW d, NEW least
    PROVE  \E h : Flies(h, s, d) /\ BurstRuns(s, d, least) = Picked(h[Len(s)], Long(least))
<1> DEFINE N == Len(s)
           start == << << >> >>
           step == [i \in 1..N |-> [r \in Flights |-> ExtendFlight(r, s[i], d)]]
           Is(it) == it = [c \in SUBSET (DOMAIN s) |->
                        IF c = {} THEN << << >> >> ELSE LET x == Max(c) IN ExtendFlight(it[c \ {x}], s[x], d)]
           fold == FoldLeft(LAMBDA flights, p : ExtendFlight(flights, p, d), << << >> >>, s)
           kept == BurstRuns(s, d, least)
<1>1. fold = (CHOOSE it : Is(it))[DOMAIN s]
  BY DEF FoldLeft, MapThenFoldSet
<1>2. N \in Nat /\ N \in 0..N /\ DOMAIN s = 1..N /\ \A i \in 1..N : s[i] \in Packet
  OBVIOUS
<1>3. step \in [1..N -> [Flights -> Flights]]
  <2>1. \A i \in 1..N : \A r \in Flights : ExtendFlight(r, s[i], d) \in Flights
    BY <1>2, FlightExtended
  <2> QED  BY <2>1
<1>4. start \in Flights
  <2>1. << >> \in Seq(Packet)
    OBVIOUS
  <2>2. start \in Seq(Seq(Packet)) /\ Len(start) = 1
    BY <2>1
  <2>3. start # << >>
    BY <2>2
  <2> QED  BY <2>2, <2>3 DEF Flights
<1> HIDE DEF step
<1>5. PICK iter : FoldsOver(iter, N, Flights, start, step)
  BY <1>2, <1>3, <1>4, FoldExists
<1>6. Is(iter)
  <2> DEFINE next(c) == IF c = {} THEN << << >> >> ELSE LET x == Max(c) IN ExtendFlight(iter[c \ {x}], s[x], d)
  <2>1. ASSUME NEW c \in SUBSET (1..N) PROVE iter[c] = next(c)
    <3>1. CASE c = {}
      BY <1>5, <3>1 DEF FoldsOver
    <3>2. CASE c # {}
      <4> DEFINE x == Max(c)
      <4>1. x \in 1..N
        BY <1>2, <3>2, MaxIsIn
      <4>2. c \ {x} \in SUBSET (1..N)
        OBVIOUS
      <4>3. iter[c \ {x}] \in Flights /\ iter[c] = step[x][iter[c \ {x}]]
        BY <1>5, <3>2, <4>2 DEF FoldsOver
      <4> HIDE DEF x
      <4>4. iter[c] = ExtendFlight(iter[c \ {x}], s[x], d)
        BY <4>1, <4>3 DEF step
      <4> QED  BY <3>2, <4>4 DEF x
    <3> QED  BY <3>1, <3>2
  <2>2. iter = [c \in SUBSET (1..N) |-> next(c)]
    <3> HIDE DEF next
    <3> QED  BY <1>5, <2>1 DEF FoldsOver
  <2> QED  BY <1>2, <2>2
<1>7. ASSUME NEW it, Is(it)
      PROVE  it[1..0] = start /\ \A n \in 1..N : it[1..n] = ExtendFlight(it[1..(n - 1)], s[n], d)
  <2>1. it[1..0] = start
    <3>1. 1..0 = {} /\ {} \in SUBSET (1..N)
      OBVIOUS
    <3> QED  BY <1>2, <1>7, <3>1
  <2>2. ASSUME NEW n \in 1..N PROVE it[1..n] = ExtendFlight(it[1..(n - 1)], s[n], d)
    <3>1. n \in Nat /\ n # 0 /\ 1..n \in SUBSET (1..N)
      BY <1>2
    <3>2. 1..n # {} /\ Max(1..n) = n /\ (1..n) \ {n} = 1..(n - 1)
      BY <3>1, TopIndex
    <3>3. it[1..n] = IF 1..n = {} THEN << << >> >> ELSE ExtendFlight(it[(1..n) \ {Max(1..n)}], s[Max(1..n)], d)
      BY <1>2, <1>7, <3>1
    <3> QED  BY <3>2, <3>3
  <2> QED  BY <2>1, <2>2
<1> HIDE DEF Is, start
<1>8. PICK it : Is(it) /\ fold = it[1..N]
  BY <1>1, <1>2, <1>6
<1> HIDE DEF fold, kept
<1> DEFINE T == {n \in 0..N : it[1..n] \in Flights}
<1>9. \A n \in 0..N : n \in T
  <2>1. 0 \in T
    <3>1. 0 \in 0..N
      BY <1>2
    <3> QED  BY <1>4, <1>7, <1>8, <3>1
  <2>2. ASSUME NEW n \in 1..N, n - 1 \in T PROVE n \in T
    <3>1. n \in 0..N /\ it[1..n] = ExtendFlight(it[1..(n - 1)], s[n], d) /\ it[1..(n - 1)] \in Flights
      <4>1. it[1..n] = ExtendFlight(it[1..(n - 1)], s[n], d)
        BY <1>7, <1>8
      <4> QED  BY <1>2, <2>2, <4>1
    <3>2. it[1..n] \in Flights
      BY <1>2, <3>1, FlightExtended
    <3> QED  BY <3>1, <3>2
  <2> HIDE DEF T, N
  <2> QED  BY <1>2, <2>1, <2>2, UpTo
<1> DEFINE h == [n \in 0..N |-> it[1..n]]
<1>10. h \in [0..N -> Flights] /\ h[0] = start /\ h[N] = fold
  <2>1. 0 \in 0..N
    BY <1>2
  <2> QED  BY <1>2, <1>7, <1>8, <1>9, <2>1
<1>11. ASSUME NEW n \in 1..N PROVE h[n] = ExtendFlight(h[n - 1], s[n], d)
  <2>1. n \in 0..N /\ n - 1 \in 0..N
    BY <1>2
  <2> QED  BY <1>7, <1>8, <2>1
<1> HIDE DEF h
<1>12. Flies(h, s, d)
  BY <1>10, <1>11 DEF Flies, start
<1>13. kept = Picked(fold, Long(least))
  <2> DEFINE Keeps(k) == k = [n \in 0..Len(fold) |-> IF n = 0 THEN << >>
                                ELSE IF Len(fold[n]) >= least THEN Append(k[n - 1], fold[n]) ELSE k[n - 1]]
  <2>1. kept = (CHOOSE k : Keeps(k))[Len(fold)]
    BY DEF BurstRuns, Kept, fold, kept
  <2>2. fold \in Seq(Seq(Packet))
    <3>1. fold \in Flights
      BY <1>2, <1>10
    <3> QED  BY <3>1 DEF Flights
  <2>3. \A n \in 0..Len(fold) : n = 0 \/ (fold[n] \in Long(least) <=> Len(fold[n]) >= least)
    BY <2>2 DEF Long
  <2>4. ASSUME NEW k PROVE Keeps(k) <=> Selects(k, fold, Long(least))
    BY <2>3 DEF Selects
  <2> HIDE DEF Keeps
  <2> QED  BY <2>1, <2>2, <2>4, SelectsPicked
<1> QED  BY <1>10, <1>12, <1>13 DEF kept

\* The first of the selected members.
LEMMA FirstPicked ==
    ASSUME NEW S, NEW s \in Seq(S), NEW A, NEW k \in 1..Len(s), s[k] \in A, \A j \in 1..(k - 1) : s[j] \notin A
    PROVE  Picked(s, A)[1] = s[k]
<1> DEFINE r == Picked(s, A)
           N == Len(s)
<1>1. r \in Seq(S) /\ \E pos : Picks(pos, r, s, N, A)
  BY PickedPlaces
<1> HIDE DEF r
<1>2. PICK pos : Picks(pos, r, s, N, A)
  BY <1>1
<1>3. Len(r) \in Nat /\ N \in Nat
  BY <1>1
<1>4. PICK i \in 1..Len(r) : pos[i] = k
  BY <1>2 DEF Picks
<1>5. 1 \in 1..Len(r)
  BY <1>3, <1>4
<1>6. pos[1] \in 1..N /\ r[1] = s[pos[1]] /\ s[pos[1]] \in A
  BY <1>2, <1>5 DEF Picks
<1>7. i # 1 => pos[1] < k
  <2>1. i # 1 => 1 < i
    BY <1>3, <1>4
  <2> QED  BY <1>2, <1>4, <1>5, <2>1 DEF Picks
<1>8. i = 1
  <2>1. pos[1] < k => pos[1] \in 1..(k - 1)
    BY <1>3, <1>6
  <2> QED  BY <1>6, <1>7, <2>1
<1> QED  BY <1>4, <1>6, <1>8 DEF r

\* Where the first flight begins, and where it is interrupted.
Bounded(g, d, a, stop) ==
    /\ a \in 1..Len(g) /\ stop \in (a + 1)..(Len(g) + 1)
    /\ Carries(g[a], d) /\ \A i \in 1..(a - 1) : ~Carries(g[i], d)
    /\ \A i \in (a + 1)..(stop - 1) : ~Interrupts(g[i], d)
    /\ stop <= Len(g) => Interrupts(g[stop], d)

\* What the loop has after n packets: nothing, then the flight as far as it goes,
\* then the flight and more.
Flown(fl, g, d, a, stop, n) ==
    /\ n < a => \A k \in 1..Len(fl) : fl[k] = << >>
    /\ n >= a => \E k \in 1..Len(fl) :
        /\ \A j \in 1..(k - 1) : fl[j] = << >>
        /\ fl[k] # << >>
        /\ n < stop => k = Len(fl) /\ fl[k] = Part(g, d, a, n)
        /\ n >= stop => k < Len(fl) /\ fl[k] = Part(g, d, a, stop - 1)

\* One more record keeps the first flight in the first run that is not empty.
LEMMA FlightFlies ==
    ASSUME NEW g \in Seq(Packet), NEW d, NEW a, NEW stop, Bounded(g, d, a, stop), NEW n \in 1..Len(g),
           NEW fl \in Flights, Flown(fl, g, d, a, stop, n - 1)
    PROVE  Flown(ExtendFlight(fl, g[n], d), g, d, a, stop, n)
<1> DEFINE N == Len(g)
           p == g[n]
           new == ExtendFlight(fl, p, d)
           L == Len(fl)
<1>1. N \in Nat /\ n \in Nat /\ n # 0 /\ a \in Nat /\ a # 0 /\ stop \in Nat /\ a < stop /\ a \in 1..N /\ p \in Packet
  <2>1. N \in Nat /\ p \in Packet
    OBVIOUS
  <2>2. a \in 1..N /\ stop \in (a + 1)..(N + 1)
    BY DEF Bounded
  <2> QED  BY <2>1, <2>2
<1>2. L \in Nat /\ L # 0 /\ \A k \in 1..L : fl[k] \in Seq(Packet)
  BY DEF Flights
<1>3. /\ new \in Flights
      /\ Carries(p, d) => /\ Len(new) = L /\ new[L] = Append(fl[L], p) /\ \A k \in 1..(L - 1) : new[k] = fl[k]
      /\ ~Carries(p, d) /\ Interrupts(p, d) =>
                    Len(new) = L + 1 /\ new[L + 1] = << >> /\ \A k \in 1..L : new[k] = fl[k]
      /\ ~Carries(p, d) /\ ~Interrupts(p, d) => new = fl
  BY <1>1, FlightExtended, SMTT(40)
<1>4. Interrupts(p, d) => ~Carries(p, d)
  BY DEF Interrupts, Carries
<1>5. n \in a..N => Part(g, d, a, n) = IF Carries(p, d) THEN Append(Part(g, d, a, n - 1), p) ELSE Part(g, d, a, n - 1)
  BY <1>1, PartStep
<1> HIDE DEF new, p, L
<1>6. CASE n < a
  <2>1. ~Carries(p, d)
    <3>1. n \in 1..(a - 1)
      BY <1>1, <1>6
    <3> QED  BY <3>1 DEF Bounded, p
  <2>2. \A k \in 1..L : fl[k] = << >>
    <3>1. n - 1 < a
      BY <1>1, <1>6
    <3> QED  BY <3>1 DEF Flown, L
  <2>3. \A k \in 1..Len(new) : new[k] = << >>
    <3>1. CASE Interrupts(p, d)
      <4>1. \A k \in 1..(L + 1) : k = L + 1 \/ k \in 1..L
        BY <1>2
      <4> QED  BY <1>3, <2>1, <2>2, <3>1, <4>1
    <3>2. CASE ~Interrupts(p, d)
      BY <1>3, <2>1, <2>2, <3>2 DEF L
    <3> QED  BY <3>1, <3>2
  <2>4. ~(n >= a)
    BY <1>1, <1>6
  <2> QED  BY <2>3, <2>4 DEF Flown, new, p
<1>7. CASE n = a
  <2>1. Carries(p, d)
    BY <1>7 DEF Bounded, p
  <2>2. \A k \in 1..L : fl[k] = << >>
    <3>1. n - 1 < a
      BY <1>1, <1>7
    <3> QED  BY <3>1 DEF Flown, L
  <2>3. L \in 1..L /\ \A j \in 1..(L - 1) : j \in 1..L
    BY <1>2
  <2>4. Part(g, d, a, n) = Append(<< >>, p)
    <3>1. Part(g, d, a, n - 1) = << >>
      BY <1>1, <1>7, PartStep
    <3>2. n \in a..N
      BY <1>1, <1>7
    <3> QED  BY <1>5, <2>1, <3>1, <3>2
  <2>5. new[L] = Part(g, d, a, n) /\ new[L] # << >>
    <3>1. new[L] = Append(<< >>, p)
      BY <1>3, <2>1, <2>2, <2>3
    <3>2. Append(<< >>, p) # << >>
      BY <1>1
    <3> QED  BY <2>4, <3>1, <3>2
  <2>6. \A j \in 1..(L - 1) : new[j] = << >>
    BY <1>3, <2>1, <2>2, <2>3
  <2>7. ~(n < a) /\ ~(n >= stop)
    BY <1>1, <1>7
  <2>8. Len(new) = L
    BY <1>3, <2>1
  <2> QED  BY <2>3, <2>5, <2>6, <2>7, <2>8 DEF Flown, new, p
<1>8. CASE n > a
  <2>0. n - 1 >= a /\ n \in a..N /\ ~(n < a) /\ n - 1 \in a..N
    BY <1>1, <1>8
  <2>1. PICK k \in 1..L :
            /\ \A j \in 1..(k - 1) : fl[j] = << >>
            /\ fl[k] # << >>
            /\ n - 1 < stop => k = L /\ fl[k] = Part(g, d, a, n - 1)
            /\ n - 1 >= stop => k < L /\ fl[k] = Part(g, d, a, stop - 1)
    BY <2>0 DEF Flown, L
  <2>2. k \in Nat /\ k # 0 /\ k <= L /\ \A j \in 1..(k - 1) : j \in 1..(L - 1) /\ j \in 1..L
    BY <1>2
  <2>3. CASE n < stop
    <3>1. n - 1 < stop /\ n \in (a + 1)..(stop - 1) /\ ~(n >= stop)
      BY <1>1, <1>8, <2>3
    <3>2. ~Interrupts(p, d)
      BY <3>1 DEF Bounded, p
    <3>3. k = L /\ fl[L] = Part(g, d, a, n - 1)
      BY <2>1, <3>1
    <3>4. CASE Carries(p, d)
      <4>1. new[L] = Part(g, d, a, n) /\ Len(new) = L
        BY <1>3, <1>5, <2>0, <3>3, <3>4
      <4>2. new[L] # << >>
        <5>1. fl[L] \in Seq(Packet)
          BY <1>2
        <5>2. Append(fl[L], p) # << >>
          BY <1>1, <5>1
        <5> QED  BY <1>3, <3>4, <5>2
      <4>3. \A j \in 1..(k - 1) : new[j] = << >>
        BY <1>3, <2>1, <2>2, <3>4
      <4> QED  BY <2>0, <3>1, <3>3, <4>1, <4>2, <4>3 DEF Flown, new, p
    <3>5. CASE ~Carries(p, d)
      <4>1. new = fl /\ Part(g, d, a, n) = fl[L]
        BY <1>3, <1>5, <2>0, <3>2, <3>3, <3>5
      <4>2. Flown(fl, g, d, a, stop, n)
        BY <2>0, <2>1, <3>1, <3>3, <4>1 DEF Flown, L
      <4> QED  BY <4>1, <4>2 DEF new, p
    <3> QED  BY <3>4, <3>5
  <2>4. CASE n = stop
    <3>1. n - 1 < stop /\ stop <= N /\ ~(n < stop) /\ n >= stop
      BY <1>1, <2>4
    <3>2. Interrupts(p, d) /\ ~Carries(p, d)
      BY <1>4, <2>4, <3>1 DEF Bounded, p
    <3>3. k = L /\ fl[L] = Part(g, d, a, stop - 1)
      BY <2>1, <2>4, <3>1
    <3>4. Len(new) = L + 1 /\ \A j \in 1..L : new[j] = fl[j]
      BY <1>3, <3>2
    <3>5. k < L + 1 /\ k \in 1..(L + 1)
      BY <1>2, <3>3
    <3>6. (\A j \in 1..(k - 1) : new[j] = << >>) /\ new[k] # << >> /\ new[k] = Part(g, d, a, stop - 1)
      BY <2>1, <2>2, <3>3, <3>4
    <3> QED  BY <2>0, <3>1, <3>4, <3>5, <3>6 DEF Flown, new, p
  <2>5. CASE n > stop
    <3>1. n - 1 >= stop /\ ~(n < stop) /\ n >= stop
      BY <1>1, <2>5
    <3>2. k < L /\ fl[k] = Part(g, d, a, stop - 1)
      BY <2>1, <3>1
    <3>3. k \in 1..(L - 1)
      BY <1>2, <2>2, <3>2
    <3>4. Len(new) \in {L, L + 1} /\ \A j \in 1..(L - 1) : new[j] = fl[j]
      <4>1. \A j \in 1..(L - 1) : j \in 1..L
        BY <1>2
      <4>2. Len(fl) = L
        BY DEF L
      <4> QED  BY <1>3, <4>1, <4>2
    <3>5. k < Len(new) /\ k \in 1..Len(new)
      BY <1>2, <2>2, <3>2, <3>4
    <3>6. (\A j \in 1..(k - 1) : new[j] = << >>) /\ new[k] # << >> /\ new[k] = Part(g, d, a, stop - 1)
      BY <2>1, <2>2, <3>2, <3>3, <3>4
    <3> QED  BY <2>0, <3>1, <3>5, <3>6 DEF Flown, new, p
  <2>6. n < stop \/ n = stop \/ n > stop
    BY <1>1
  <2> QED  BY <2>3, <2>4, <2>5, <2>6
<1> QED  BY <1>1, <1>6, <1>7, <1>8

\* The first flight is the first of the runs a rate is taken from.
LEMMA FlightIsFirst ==
    ASSUME NEW g \in Seq(Packet), Flight(g) # << >>
    PROVE  BurstRuns(g, DataDirection(g), 1)[1] = Flight(g)
<1> DEFINE N == Len(g)
           d == DataDirection(g)
           starts == {i \in DOMAIN g : g[i].direction = d /\ g[i].length > 0}
           a == Min(starts)
           ends == {i \in DOMAIN g : i > a /\ Interrupts(g[i], d)}
           e == IF ends = {} THEN N ELSE Min(ends) - 1
           stop == IF ends = {} THEN N + 1 ELSE Min(ends)
<1>1. Flight(g) = IF starts = {} THEN << >> ELSE Part(g, d, a, e)
  BY DEF Flight, Part
<1> HIDE DEF d
<1>2. N \in Nat /\ DOMAIN g = 1..N /\ \A i \in 1..N : g[i] \in Packet
  OBVIOUS
<1>3. starts \in SUBSET (1..N) /\ starts # {} /\ \A i \in 1..N : i \in starts <=> Carries(g[i], d)
  BY <1>1, <1>2 DEF Carries
<1>4. \A i : i \in ends <=> i \in 1..N /\ i > a /\ Interrupts(g[i], d)
  BY <1>2
<1> HIDE DEF starts, ends
<1>5. a \in starts /\ \A y \in starts : a <= y
  BY <1>2, <1>3, FirstIndex
<1>6. ends # {} => Min(ends) \in ends /\ \A y \in ends : Min(ends) <= y
  <2>1. ends \in SUBSET (1..N)
    BY <1>4
  <2> QED  BY <1>2, <2>1, FirstIndex
<1> HIDE DEF a, N
<1>7. a \in 1..N /\ a \in Nat
  BY <1>2, <1>3, <1>5
<1>8. stop \in (a + 1)..(N + 1) /\ e = stop - 1 /\ (stop <= N => stop \in ends)
      /\ \A i \in (a + 1)..(stop - 1) : i \notin ends /\ i \in 1..N /\ i > a
  <2>1. CASE ends = {}
    BY <1>2, <1>7, <2>1
  <2>2. CASE ends # {}
    <3> DEFINE m == Min(ends)
    <3>1. m \in ends /\ m \in 1..N /\ m > a /\ \A y \in ends : m <= y
      BY <1>4, <1>6, <2>2
    <3> HIDE DEF m
    <3>2. stop = m /\ e = m - 1
      BY <2>2 DEF m
    <3> HIDE DEF stop, e
    <3>3. m \in (a + 1)..(N + 1) /\ \A i \in (a + 1)..(m - 1) : ~(m <= i) /\ i \in 1..N /\ i > a
      BY <1>2, <1>7, <3>1
    <3> QED  BY <3>1, <3>2, <3>3
  <2> QED  BY <2>1, <2>2
<1> HIDE DEF stop, e
<1>9. Bounded(g, d, a, stop)
  <2>1. Carries(g[a], d)
    BY <1>3, <1>5, <1>7
  <2>2. ASSUME NEW i \in 1..(a - 1) PROVE ~Carries(g[i], d)
    <3>1. i \in 1..N /\ ~(a <= i)
      BY <1>2, <1>7
    <3> QED  BY <1>3, <1>5, <3>1
  <2>3. \A i \in (a + 1)..(stop - 1) : ~Interrupts(g[i], d)
    BY <1>4, <1>8
  <2>4. stop <= N => Interrupts(g[stop], d)
    BY <1>4, <1>8
  <2> QED  BY <1>7, <1>8, <2>1, <2>2, <2>3, <2>4 DEF Bounded, N
<1>10. PICK h : Flies(h, g, d) /\ BurstRuns(g, d, 1) = Picked(h[Len(g)], Long(1))
  BY FlightsFly
<1>11. h \in [0..N -> Flights] /\ h[0] = << << >> >> /\ \A n \in 1..N : h[n] = ExtendFlight(h[n - 1], g[n], d)
  BY <1>10 DEF Flies, N
<1> DEFINE T == {n \in 0..N : Flown(h[n], g, d, a, stop, n)}
<1>12. 0 \in T
  <2>1. 0 < a /\ ~(0 >= a) /\ 0 \in 0..N
    BY <1>2, <1>7
  <2>2. Len(<< << >> >>) = 1 /\ << << >> >>[1] = << >> /\ \A k \in 1..1 : k = 1
    OBVIOUS
  <2>3. \A k \in 1..Len(<< << >> >>) : << << >> >>[k] = << >>
    BY <2>2
  <2> QED  BY <1>11, <2>1, <2>3 DEF Flown
<1>13. ASSUME NEW n \in 1..N, n - 1 \in T PROVE n \in T
  <2>1. n \in 0..N /\ n - 1 \in 0..N /\ n \in 1..Len(g)
    BY <1>2 DEF N
  <2>2. h[n - 1] \in Flights /\ Flown(h[n - 1], g, d, a, stop, n - 1) /\ h[n] = ExtendFlight(h[n - 1], g[n], d)
    BY <1>11, <1>13, <2>1
  <2>3. Flown(ExtendFlight(h[n - 1], g[n], d), g, d, a, stop, n)
    BY <1>9, <2>1, <2>2, FlightFlies
  <2> QED  BY <2>1, <2>2, <2>3
<1>14. Flown(h[N], g, d, a, stop, N) /\ h[N] \in Flights
  <2>1. \A n \in 0..N : n \in T
    <3> HIDE DEF T
    <3> QED  BY <1>2, <1>12, <1>13, UpTo
  <2>2. N \in 0..N
    BY <1>2
  <2> QED  BY <1>11, <2>1, <2>2
<1> DEFINE fl == h[N]
<1>15. fl \in Seq(Seq(Packet)) /\ BurstRuns(g, d, 1) = Picked(fl, Long(1))
  BY <1>10, <1>14 DEF Flights, N
<1>16. N >= a /\ stop - 1 <= N /\ (N < stop => N = stop - 1)
  BY <1>2, <1>7, <1>8
<1> HIDE DEF fl
<1>17. PICK k \in 1..Len(fl) : /\ \A j \in 1..(k - 1) : fl[j] = << >>
                               /\ fl[k] # << >>
                               /\ N < stop => fl[k] = Part(g, d, a, N)
                               /\ N >= stop => fl[k] = Part(g, d, a, stop - 1)
  BY <1>14, <1>16 DEF Flown, fl
<1>18. fl[k] = Part(g, d, a, e)
  <2>1. N < stop \/ N >= stop
    BY <1>2, <1>8
  <2> QED  BY <1>8, <1>16, <1>17, <2>1
<1>19. fl[k] \in Long(1)
  <2>1. fl[k] \in Seq(Packet)
    BY <1>15
  <2>2. \A q \in Seq(Packet) : q # << >> => Len(q) >= 1
    OBVIOUS
  <2> QED  BY <1>17, <2>1, <2>2 DEF Long
<1>20. \A j \in 1..(k - 1) : fl[j] \notin Long(1)
  <2>1. Len(<< >>) = 0 /\ ~(0 >= 1)
    OBVIOUS
  <2> QED  BY <1>17, <2>1 DEF Long
<1>21. Picked(fl, Long(1))[1] = fl[k]
  BY <1>15, <1>19, <1>20, FirstPicked
<1> QED  BY <1>1, <1>3, <1>15, <1>18, <1>21 DEF d

\* Whatever the packets and thresholds, a burst ends exactly where the direction
\* changes or the gap is too long, no byte is lost, a longer gap never finds less,
\* and the first flight is the first of the runs a rate is taken from.
THEOREM BurstsAreWhole == Spec => []BurstsAreMaximal
<1>1. ASSUME CaptureInv PROVE BurstsAreMaximal
  <2> DEFINE data == Payload(timed)
             N == Len(data)
             breaks(gap) == {i \in 2..Len(data) : \/ data[i].direction # data[i - 1].direction
                                                  \/ data[i].time - data[i - 1].time > gap}
  <2>1. InOrder(timed) /\ InOrder(group)
    BY <1>1, TimedInOrder
  <2>2. timed \in Seq(Packet) /\ group \in Seq(Packet) /\ Timely(timed)
    BY <2>1, InOrderIsTimely DEF InOrder
  <2>3. Timely(data) /\ \A p : p \in Range(data) <=> p \in Range(timed) /\ p \in Paying
    <3>1. data = Picked(timed, Paying)
      BY <2>2, PayloadIs
    <3> QED  BY <2>2, <3>1, PickedTimely
  <2> HIDE DEF data
  <2>4. \A i \in 1..Len(data) : data[i] \in Paying
    <3>1. DOMAIN data = 1..Len(data)
      BY <2>3 DEF Timely
    <3> QED  BY <2>3, <3>1 DEF Range
  <2>5. /\ BurstGap \in Nat /\ BurstGap \div 2 \in Nat /\ 5 * BurstGap \in Nat
        /\ BurstGap \div 2 <= BurstGap /\ BurstGap <= 5 * BurstGap
    <3>1. BurstGap \in Nat
      BY AccountingConstants
    <3> QED  BY <3>1
  <2>6. ASSUME data # << >>
        PROVE  /\ Len(BurstsAt(data, BurstGap)) = Cardinality(breaks(BurstGap)) + 1
               /\ Total(BurstsAt(data, BurstGap), LAMBDA b : b.bytes) = Total(data, LAMBDA p : p.length)
               /\ LargestBurst(data, BurstGap \div 2) <= LargestBurst(data, BurstGap)
               /\ LargestBurst(data, BurstGap) <= LargestBurst(data, 5 * BurstGap)
    <3>1. breaks(BurstGap) = Breaks(data, Len(data), BurstGap)
      BY DEF Breaks
    <3>2. /\ Total(BurstsAt(data, BurstGap), LAMBDA b : b.bytes) = Total(data, LAMBDA p : p.length)
          /\ Len(BurstsAt(data, BurstGap)) = Cardinality(Breaks(data, Len(data), BurstGap)) + 1
      BY <2>3, <2>4, <2>5, <2>6, BurstsCover
    <3>3. LargestBurst(data, BurstGap \div 2) <= LargestBurst(data, BurstGap)
      BY <2>3, <2>4, <2>5, WiderFindsMore
    <3>4. LargestBurst(data, BurstGap) <= LargestBurst(data, 5 * BurstGap)
      BY <2>3, <2>4, <2>5, WiderFindsMore
    <3> QED  BY <3>1, <3>2, <3>3, <3>4
  <2>7. Flight(group) # << >> => BurstRuns(group, DataDirection(group), 1)[1] = Flight(group)
    BY <2>2, FlightIsFirst
  <2> QED  BY <2>6, <2>7 DEF BurstsAreMaximal, data
<1> QED  BY <1>1, CaptureInvariant, PTL

=============================================================================
