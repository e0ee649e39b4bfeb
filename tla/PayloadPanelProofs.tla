-------------------------- MODULE PayloadPanelProofs --------------------------
(***************************************************************************)
(* The paged transcript of PayloadPanel, for every follow report, every    *)
(* size of preview and page and every order of answers.                    *)
(*                                                                         *)
(* parse_follow_raw is a loop over the report's lines, so what it computes *)
(* is shown by induction on their number: over a set of numbers, for the   *)
(* provers cannot instantiate a theorem about a predicate.                 *)
(***************************************************************************)
EXTENDS PayloadPanel, SequencingProofs, SequenceTheorems, TLAPS

-----------------------------------------------------------------------------
(* The equations of the model's recursive functions.                        *)

Line == [node: {0, 1}, size: Nat \ {0}]

LEMMA LineEndsIs ==
    ASSUME NEW lines \in Seq(Line)
    PROVE  LET N == Len(lines) IN
           /\ N \in Nat
           /\ LineEnds(lines) = [n \in 0..N |-> IF n = 0 THEN 0
                                    ELSE LineEnds(lines)[n - 1] + lines[n].size]
<1> DEFINE N == Len(lines)
           step == [i \in 1..N |-> [v \in Nat |-> v + lines[i].size]]
<1>1. N \in Nat /\ \A i \in 1..N : lines[i] \in Line
  OBVIOUS
<1>2. step \in [1..N -> [Nat -> Nat]]
  BY <1>1 DEF Line
<1>3. \E g : Follows(g, N, Nat, 0, step)
  <2>1. 0 \in Nat /\ N \in Nat
    BY <1>1
  <2> HIDE DEF N, step
  <2> QED  BY <1>2, <2>1, Recursion
<1>4. PICK g : Follows(g, N, Nat, 0, step)
  BY <1>3
<1>5. \A i \in 1..N : i - 1 \in 0..N /\ g[i - 1] \in Nat
  BY <1>1, <1>4 DEF Follows
<1>6. \A i \in 1..N : g[i] = g[i - 1] + lines[i].size
  BY <1>4, <1>5 DEF Follows
<1>7. g = [n \in 0..N |-> IF n = 0 THEN 0 ELSE g[n - 1] + lines[n].size]
  BY <1>1, <1>4, <1>6 DEF Follows
<1> QED  BY <1>1, <1>7 DEF LineEnds

LEMMA LineEndsGrow ==
    ASSUME NEW lines \in Seq(Line)
    PROVE  /\ LineEnds(lines)[0] = 0
           /\ \A n \in 0..Len(lines) : LineEnds(lines)[n] \in Nat
           /\ \A n \in 1..Len(lines) :
                LineEnds(lines)[n] = LineEnds(lines)[n - 1] + lines[n].size
<1> DEFINE N == Len(lines)
           ends == LineEnds(lines)
           T == {n \in 0..N : ends[n] \in Nat}
<1>1. N \in Nat /\ \A n \in 1..N : lines[n].size \in Nat
  <2>1. N \in Nat /\ \A n \in 1..N : lines[n] \in Line
    OBVIOUS
  <2> HIDE DEF N
  <2> QED  BY <2>1 DEF Line
<1>2. /\ \A n \in 0..N : ends[n] = IF n = 0 THEN 0 ELSE ends[n - 1] + lines[n].size
      /\ ends = [n \in 0..N |-> IF n = 0 THEN 0 ELSE ends[n - 1] + lines[n].size]
  BY LineEndsIs
<1> HIDE DEF ends, N
<1>3. ends[0] = 0
  BY <1>1, <1>2
<1>5. ASSUME NEW n \in 1..N PROVE ends[n] = ends[n - 1] + lines[n].size
  <2>1. n \in 0..N /\ n # 0
    BY <1>1
  <2> QED  BY <1>2, <2>1
<1>6. ASSUME NEW n \in 1..N, n - 1 \in T PROVE n \in T
  <2>1. n \in 0..N
    BY <1>1
  <2>2. ends[n] \in Nat
    BY SMTT(40), <1>1, <1>5, <1>6
  <2> QED  BY <2>1, <2>2
<1>7. 0 \in T
  BY <1>1, <1>3
<1>4. \A n \in 0..N : n \in T
  <2> HIDE DEF T, N
  <2> QED  BY <1>1, <1>6, <1>7, UpTo
<1> QED  BY <1>3, <1>4, <1>5 DEF ends, N

-----------------------------------------------------------------------------
(* Places and chunks.                                                       *)

LEMMA PlacesIs ==
    ASSUME NEW from \in Nat, NEW n \in Nat
    PROVE  /\ Places(from, n) \in Seq(Nat) /\ Len(Places(from, n)) = n
           /\ \A i \in 1..n : Places(from, n)[i] = from + i
BY DEF Places

LEMMA PlacesJoin ==
    ASSUME NEW from \in Nat, NEW m \in Nat, NEW n \in Nat
    PROVE  Places(from, m) \o Places(from + m, n) = Places(from, m + n)
<1> DEFINE a == Places(from, m)
           b == Places(from + m, n)
           c == Places(from, m + n)
<1>1. /\ a \in Seq(Nat) /\ Len(a) = m /\ \A i \in 1..m : a[i] = from + i
      /\ b \in Seq(Nat) /\ Len(b) = n /\ \A i \in 1..n : b[i] = from + m + i
      /\ c \in Seq(Nat) /\ Len(c) = m + n /\ \A i \in 1..(m + n) : c[i] = from + i
  BY DEF Places
<1> HIDE DEF a, b, c
<1>2. /\ a \o b \in Seq(Nat) /\ Len(a \o b) = Len(a) + Len(b)
      /\ \A i \in 1..(Len(a) + Len(b)) :
            (a \o b)[i] = IF i <= Len(a) THEN a[i] ELSE b[i - Len(a)]
  BY <1>1, ConcatProperties
<1>3. ASSUME NEW i \in 1..(m + n) PROVE (a \o b)[i] = c[i]
  <2>1. CASE i <= m
    <3>1. i \in 1..m
      BY <2>1
    <3> QED  BY <1>1, <1>2, <3>1
  <2>2. CASE ~(i <= m)
    <3>1. i - m \in 1..n /\ from + m + (i - m) = from + i
      BY <2>2
    <3>2. (a \o b)[i] = b[i - m]
      BY <1>1, <1>2, <2>2
    <3> QED  BY <1>1, <3>1, <3>2
  <2> QED  BY <2>1, <2>2
<1>4. a \o b = c
  BY <1>1, <1>2, <1>3, SeqEqual
<1> QED  BY <1>4 DEF a, b, c

\* The chunks hold the places after from, each once and in order, up to to:
\* ends[k] is the last place of chunk k, and a line of its node holds them all.
Tiles(lines, chunks, ends) ==
    /\ ends \in [0..Len(chunks) -> Nat]
    /\ \A k \in 1..Len(chunks) :
        /\ ends[k - 1] <= ends[k]
        /\ chunks[k].bytes = Places(ends[k - 1], ends[k] - ends[k - 1])
        /\ \A place \in (ends[k - 1] + 1)..ends[k] : Sends(lines, chunks[k].node, place)

Covers(lines, chunks, from, to) ==
    /\ chunks \in Seq(Chunk)
    /\ \E ends : Tiles(lines, chunks, ends) /\ ends[0] = from /\ ends[Len(chunks)] = to

LEMMA NothingCovers ==
    ASSUME NEW lines, NEW from \in Nat
    PROVE  Covers(lines, << >>, from, from)
<1> DEFINE e == [k \in 0..0 |-> from]
<1>1. << >> \in Seq(Chunk) /\ Len(<< >>) = 0
  OBVIOUS
<1>2. Tiles(lines, << >>, e) /\ e[0] = from
  BY <1>1 DEF Tiles
<1> HIDE DEF e
<1> QED  BY <1>1, <1>2 DEF Covers

\* More chunks after those that are there.
LEMMA JoinedCovers ==
    ASSUME NEW lines, NEW a, NEW b, NEW from, NEW mid, NEW to,
           Covers(lines, a, from, mid), Covers(lines, b, mid, to)
    PROVE  Covers(lines, a \o b, from, to)
<1>1. PICK ea : Tiles(lines, a, ea) /\ ea[0] = from /\ ea[Len(a)] = mid
  BY DEF Covers
<1>2. PICK eb : Tiles(lines, b, eb) /\ eb[0] = mid /\ eb[Len(b)] = to
  BY DEF Covers
<1>3. /\ a \in Seq(Chunk) /\ b \in Seq(Chunk) /\ Len(a) \in Nat /\ Len(b) \in Nat
      /\ a \o b \in Seq(Chunk) /\ Len(a \o b) = Len(a) + Len(b)
      /\ \A i \in 1..(Len(a) + Len(b)) :
            (a \o b)[i] = IF i <= Len(a) THEN a[i] ELSE b[i - Len(a)]
  BY ConcatProperties DEF Covers
<1> DEFINE e == [k \in 0..(Len(a) + Len(b)) |-> IF k <= Len(a) THEN ea[k] ELSE eb[k - Len(a)]]
<1>4. ea \in [0..Len(a) -> Nat] /\ eb \in [0..Len(b) -> Nat]
  BY <1>1, <1>2 DEF Tiles
<1>5. e \in [0..(Len(a) + Len(b)) -> Nat]
  BY <1>3, <1>4
<1>6. \A k \in Len(a)..(Len(a) + Len(b)) : e[k] = eb[k - Len(a)]
  BY <1>1, <1>2, <1>3
<1>7. \A k \in 0..Len(a) : e[k] = ea[k]
  BY <1>3
<1> HIDE DEF e
<1>8. Tiles(lines, a \o b, e)
  <2>1. ASSUME NEW k \in 1..(Len(a) + Len(b))
        PROVE  /\ e[k - 1] <= e[k]
               /\ (a \o b)[k].bytes = Places(e[k - 1], e[k] - e[k - 1])
               /\ \A place \in (e[k - 1] + 1)..e[k] : Sends(lines, (a \o b)[k].node, place)
    <3>1. CASE k <= Len(a)
      <4>1. k \in 1..Len(a) /\ k \in 0..Len(a) /\ k - 1 \in 0..Len(a)
        BY <1>3, <3>1
      <4>2. e[k] = ea[k] /\ e[k - 1] = ea[k - 1] /\ (a \o b)[k] = a[k]
        BY <1>3, <1>7, <3>1, <4>1
      <4> QED  BY <1>1, <4>1, <4>2 DEF Tiles
    <3>2. CASE ~(k <= Len(a))
      <4> DEFINE j == k - Len(a)
      <4>1. /\ j \in 1..Len(b) /\ j - 1 = (k - 1) - Len(a)
            /\ k \in Len(a)..(Len(a) + Len(b)) /\ k - 1 \in Len(a)..(Len(a) + Len(b))
        BY <1>3, <3>2
      <4>2. e[k] = eb[j] /\ e[k - 1] = eb[j - 1] /\ (a \o b)[k] = b[j]
        BY <1>3, <1>6, <3>2, <4>1
      <4> HIDE DEF j
      <4> QED  BY <1>2, <4>1, <4>2 DEF Tiles
    <3> QED  BY <3>1, <3>2
  <2> QED  BY <1>3, <1>5, <2>1 DEF Tiles
<1>9. e[0] = from /\ e[Len(a \o b)] = to
  BY SMTT(40), <1>1, <1>2, <1>3, <1>6, <1>7
<1> QED  BY <1>3, <1>8, <1>9 DEF Covers

LEMMA OneCovers ==
    ASSUME NEW lines, NEW from \in Nat, NEW n \in Nat, NEW node \in {0, 1},
           \A place \in (from + 1)..(from + n) : Sends(lines, node, place)
    PROVE  Covers(lines, <<[node |-> node, bytes |-> Places(from, n)]>>, from, from + n)
<1> DEFINE c == [node |-> node, bytes |-> Places(from, n)]
           e == [k \in 0..1 |-> IF k = 0 THEN from ELSE from + n]
<1>1. c \in Chunk /\ c.node = node /\ c.bytes = Places(from, n)
  BY PlacesIs DEF Chunk
<1> HIDE DEF c
<1>2. /\ <<c>> \in Seq(Chunk) /\ Len(<<c>>) = 1 /\ <<c>>[1] = c
  BY <1>1
<1>3. e \in [0..1 -> Nat] /\ e[0] = from /\ e[1] = from + n
  OBVIOUS
<1> HIDE DEF e
<1>4. Tiles(lines, <<c>>, e)
  <2>1. e[1] - e[0] = n /\ e[0] <= e[1]
    BY <1>3
  <2>2. \A k \in 1..1 : k = 1 /\ k - 1 = 0
    OBVIOUS
  <2> QED  BY <1>1, <1>2, <1>3, <2>1, <2>2 DEF Tiles
<1>5. Covers(lines, <<c>>, from, from + n)
  BY <1>2, <1>3, <1>4 DEF Covers
<1> QED  BY <1>5 DEF c

LEMMA CoversNat ==
    ASSUME NEW lines, NEW chunks, NEW from, NEW to, Covers(lines, chunks, from, to)
    PROVE  from \in Nat /\ to \in Nat
<1>1. PICK e : Tiles(lines, chunks, e) /\ e[0] = from /\ e[Len(chunks)] = to
  BY DEF Covers
<1>2. Len(chunks) \in Nat
  BY DEF Covers
<1> QED  BY <1>1, <1>2 DEF Tiles

\* Bytes that follow are added, as a chunk or to the last one.
LEMMA AddedCovers ==
    ASSUME NEW lines, NEW chunks, NEW from, NEW to, NEW n \in Nat, NEW node \in {0, 1},
           Covers(lines, chunks, from, to),
           \A place \in (to + 1)..(to + n) : Sends(lines, node, place)
    PROVE  Covers(lines, AddChunk(chunks, node, Places(to, n)), from, to + n)
<1> DEFINE L == Len(chunks)
           new == [node |-> node, bytes |-> Places(to, n)]
<1>1. to \in Nat /\ chunks \in Seq(Chunk) /\ L \in Nat
  <2>1. to \in Nat
    BY CoversNat
  <2> QED  BY <2>1 DEF Covers
<1>2. CASE ~(chunks # << >> /\ Last(chunks).node = node)
  <2>1. new \in Chunk
    BY <1>1, PlacesIs DEF Chunk
  <2>2. AddChunk(chunks, node, Places(to, n)) = Append(chunks, new)
    BY <1>2 DEF AddChunk
  <2>3. Append(chunks, new) = chunks \o <<new>>
    <3> HIDE DEF new
    <3> QED  BY <1>1, <2>1, AppendIsConcat
  <2>4. Covers(lines, <<new>>, to, to + n)
    BY <1>1, OneCovers
  <2> HIDE DEF new
  <2> QED  BY <2>2, <2>3, <2>4, JoinedCovers
<1>3. CASE chunks # << >> /\ Last(chunks).node = node
  <2>1. PICK e : Tiles(lines, chunks, e) /\ e[0] = from /\ e[L] = to
    BY DEF Covers
  <2> DEFINE mid == e[L - 1]
             old == Front(chunks)
             longer == [node |-> node, bytes |-> Places(mid, to + n - mid)]
  <2>2. L \in Nat \ {0} /\ L \in 1..L
    BY <1>1, <1>3
  <2>3. /\ mid \in Nat /\ mid <= to
        /\ chunks[L].bytes = Places(mid, e[L] - mid)
    BY SMTT(40), <2>1, <2>2 DEF Tiles
  <2>4. chunks[L].bytes = Places(mid, to - mid)
    <3> HIDE DEF mid, L
    <3> QED  BY <2>1, <2>3
  <2>5. Last(chunks).bytes \o Places(to, n) = Places(mid, to + n - mid)
    <3>1. Last(chunks).bytes = Places(mid, to - mid)
      BY <2>4 DEF Last
    <3>2. to - mid \in Nat /\ mid + (to - mid) = to /\ (to - mid) + n = to + n - mid
      BY <1>1, <2>3
    <3>3. Places(mid, to - mid) \o Places(mid + (to - mid), n) = Places(mid, (to - mid) + n)
      <4> HIDE DEF mid
      <4> QED  BY <2>3, <3>2, PlacesJoin
    <3> QED  BY <3>1, <3>2, <3>3
  <2>6. AddChunk(chunks, node, Places(to, n)) = Append(old, longer)
    BY <1>3, <2>5 DEF AddChunk
  <2>7. /\ old \in Seq(Chunk) /\ Len(old) = L - 1
        /\ \A i \in 1..(L - 1) : old[i] = chunks[i]
    <3>1. old = SubSeq(chunks, 1, L - 1)
      BY DEF Front
    <3>2. 1 \in Int /\ L - 1 \in Int /\ \A i \in 1..(L - 1) : chunks[i] \in Chunk
      BY <1>1, <2>2
    <3> HIDE DEF L, old
    <3>3. /\ old \in Seq(Chunk) /\ Len(old) = IF 1 <= L - 1 THEN L - 1 - 1 + 1 ELSE 0
          /\ \A i \in 1..(L - 1 - 1 + 1) : old[i] = chunks[1 + i - 1]
      BY <3>1, <3>2, SubSeqProperties
    <3> QED  BY <2>2, <3>3
  <2>8. Covers(lines, old, from, mid)
    <3> DEFINE f == [k \in 0..(L - 1) |-> e[k]]
    <3>1. f \in [0..(L - 1) -> Nat] /\ \A k \in 0..(L - 1) : f[k] = e[k]
      BY <2>1, <2>2 DEF Tiles
    <3>2. \A k \in 1..(L - 1) : k \in 0..(L - 1) /\ k - 1 \in 0..(L - 1) /\ k \in 1..L
      BY <2>2
    <3> HIDE DEF f, mid, old
    <3>3. Tiles(lines, old, f)
      BY <2>1, <2>7, <3>1, <3>2 DEF Tiles
    <3>4. f[0] = from /\ f[Len(old)] = mid
      BY <2>1, <2>2, <2>7, <3>1 DEF mid
    <3> QED  BY <2>7, <3>3, <3>4 DEF Covers
  <2>9. \A place \in (mid + 1)..to : Sends(lines, node, place)
    BY <1>3, <2>1, <2>2 DEF Tiles, Last
  <2> HIDE DEF mid, old
  <2>10. to + n - mid \in Nat /\ mid + (to + n - mid) = to + n
    BY <1>1, <2>3
  <2>11. \A place \in (mid + 1)..(to + n) : Sends(lines, node, place)
    <3>1. \A place \in (mid + 1)..(to + n) :
              place \in (mid + 1)..to \/ place \in (to + 1)..(to + n)
      BY <1>1, <2>3
    <3> QED  BY <2>9, <3>1
  <2>12. Covers(lines, <<longer>>, mid, to + n)
    BY <2>3, <2>10, <2>11, OneCovers
  <2>13. longer \in Chunk
    BY <2>3, <2>10, PlacesIs DEF Chunk
  <2> HIDE DEF longer
  <2>14. Append(old, longer) = old \o <<longer>>
    BY <2>7, <2>13, AppendIsConcat
  <2> QED  BY <2>6, <2>8, <2>12, <2>14, JoinedCovers
<1> QED  BY <1>2, <1>3

\* What the property reads out of chunks that cover a stretch of places.
LEMMA BytesUpToIs ==
    ASSUME NEW chunks \in Seq(Chunk)
    PROVE  BytesUpTo(chunks) = [n \in 0..Len(chunks) |-> IF n = 0 THEN << >>
                                   ELSE BytesUpTo(chunks)[n - 1] \o chunks[n].bytes]
<1> DEFINE N == Len(chunks)
           step == [i \in 1..N |-> [v \in Seq(Nat) |-> v \o chunks[i].bytes]]
<1>1. N \in Nat /\ \A i \in 1..N : chunks[i] \in Chunk
  OBVIOUS
<1>2. \A i \in 1..N : chunks[i].bytes \in Seq(Nat)
  BY <1>1 DEF Chunk
<1>3. step \in [1..N -> [Seq(Nat) -> Seq(Nat)]]
  BY <1>2
<1>4. \E g : Follows(g, N, Seq(Nat), << >>, step)
  <2>1. << >> \in Seq(Nat) /\ N \in Nat
    BY <1>1
  <2> HIDE DEF N, step
  <2> QED  BY <1>3, <2>1, Recursion
<1>5. PICK g : Follows(g, N, Seq(Nat), << >>, step)
  BY <1>4
<1>6. \A i \in 1..N : i - 1 \in 0..N /\ g[i - 1] \in Seq(Nat)
  BY <1>1, <1>5 DEF Follows
<1>7. \A i \in 1..N : g[i] = g[i - 1] \o chunks[i].bytes
  BY <1>5, <1>6 DEF Follows
<1>8. g = [n \in 0..N |-> IF n = 0 THEN << >> ELSE g[n - 1] \o chunks[n].bytes]
  <2>1. g \in [0..N -> Seq(Nat)] /\ g[0] = << >>
    BY <1>5 DEF Follows
  <2>2. \A n \in 0..N : n = 0 \/ n \in 1..N
    BY <1>1
  <2> HIDE DEF N
  <2>3. \A n \in 0..N : g[n] = IF n = 0 THEN << >> ELSE g[n - 1] \o chunks[n].bytes
    BY <1>7, <2>1, <2>2
  <2> QED  BY <2>1, <2>3
<1> QED  BY <1>8 DEF BytesUpTo

LEMMA CoveredBytes ==
    ASSUME NEW lines, NEW chunks, NEW from, NEW to, Covers(lines, chunks, from, to)
    PROVE  from <= to /\ Bytes(chunks) = Places(from, to - from)
<1>1. PICK e : Tiles(lines, chunks, e) /\ e[0] = from /\ e[Len(chunks)] = to
  BY DEF Covers
<1> DEFINE N == Len(chunks)
           upTo == BytesUpTo(chunks)
           T == {n \in 0..N : from <= e[n] /\ upTo[n] = Places(from, e[n] - from)}
<1>2. chunks \in Seq(Chunk) /\ N \in Nat /\ from \in Nat /\ e \in [0..N -> Nat]
  BY <1>1, CoversNat DEF Covers, Tiles
<1>3. /\ \A n \in 0..N : upTo[n] = IF n = 0 THEN << >> ELSE upTo[n - 1] \o chunks[n].bytes
  BY <1>2, BytesUpToIs
<1> HIDE DEF upTo, N
<1>4. 0 \in T
  <2>1. Places(from, 0) = << >>
    BY DEF Places
  <2>2. e[0] - from = 0 /\ from <= e[0] /\ 0 \in 0..N
    BY <1>1, <1>2
  <2>3. upTo[0] = << >>
    BY <1>3, <2>2
  <2> QED  BY <2>1, <2>2, <2>3
<1>5. ASSUME NEW n \in 1..N, n - 1 \in T PROVE n \in T
  <2>1. n \in 0..N /\ n # 0 /\ n - 1 \in 0..N /\ e[n] \in Nat /\ e[n - 1] \in Nat
    BY <1>2
  <2>2. upTo[n] = upTo[n - 1] \o chunks[n].bytes
    BY <1>3, <2>1
  <2>3. from <= e[n - 1] /\ upTo[n - 1] = Places(from, e[n - 1] - from)
    BY <1>5
  <2>4. e[n - 1] <= e[n] /\ chunks[n].bytes = Places(e[n - 1], e[n] - e[n - 1])
    BY <1>1 DEF Tiles, N
  <2> DEFINE a == e[n - 1]
             b == e[n]
  <2>5. a \in Nat /\ b \in Nat /\ from <= a /\ a <= b
    BY <2>1, <2>3, <2>4
  <2> HIDE DEF a, b
  <2>6. /\ a - from \in Nat /\ b - a \in Nat /\ from + (a - from) = a
        /\ (a - from) + (b - a) = b - from /\ from <= b
    BY <1>2, <2>5
  <2>7. Places(from, a - from) \o Places(from + (a - from), b - a) = Places(from, (a - from) + (b - a))
    BY <1>2, <2>6, PlacesJoin
  <2>8. upTo[n] = Places(from, b - from)
    BY <2>2, <2>3, <2>4, <2>6, <2>7 DEF a, b
  <2> QED  BY <2>1, <2>6, <2>8 DEF b
<1>6. \A n \in 0..N : n \in T
  <2> HIDE DEF T
  <2> QED  BY <1>2, <1>4, <1>5, UpTo
<1>7. N \in 0..N
  BY <1>2
<1> QED  BY <1>1, <1>6, <1>7 DEF Bytes, upTo, N

LEMMA CoveredNodes ==
    ASSUME NEW lines, NEW chunks, NEW from, NEW to, Covers(lines, chunks, from, to)
    PROVE  \A c \in Range(chunks) : \A place \in Range(c.bytes) : Sends(lines, c.node, place)
<1>1. PICK e : Tiles(lines, chunks, e)
  BY DEF Covers
<1> SUFFICES ASSUME NEW c \in Range(chunks), NEW place \in Range(c.bytes)
             PROVE  Sends(lines, c.node, place)
  OBVIOUS
<1>2. PICK k \in 1..Len(chunks) : c = chunks[k]
  BY DEF Covers, Range
<1>3. Len(chunks) \in Nat /\ e[k - 1] \in Nat /\ e[k] \in Nat /\ e[k - 1] <= e[k]
  BY SMTT(40), <1>1 DEF Tiles, Covers
<1>4. c.bytes = Places(e[k - 1], e[k] - e[k - 1])
  BY <1>1, <1>2 DEF Tiles
<1>5. PICK i \in 1..(e[k] - e[k - 1]) : place = e[k - 1] + i
  BY <1>3, <1>4 DEF Places, Range
<1>6. place \in (e[k - 1] + 1)..e[k]
  BY <1>3, <1>5
<1> QED  BY <1>1, <1>2, <1>6 DEF Tiles

-----------------------------------------------------------------------------
(* parse_follow_raw, whatever the report, the limit and the offset.         *)

Parsed == [total: Nat, kept: Nat, chunks: Seq(Chunk)]

\* How much of a stretch of bytes is kept when the limit counts from offset.
OnPage(total, limit, offset) == Least(limit, Most(0, total - offset))

LEMMA OnPageGrows ==
    ASSUME NEW total \in Nat, NEW size \in Nat, NEW limit \in Nat, NEW offset \in Nat
    PROVE  LET kept == OnPage(total, limit, offset)
               skip == Most(0, offset - total)
               take == Least(size - skip, limit - kept)
           IN  /\ kept \in Nat /\ skip \in Nat
               /\ IF skip >= size \/ take <= 0
                  THEN OnPage(total + size, limit, offset) = kept
                  ELSE /\ OnPage(total + size, limit, offset) = kept + take
                       /\ take \in Nat /\ total + skip = offset + kept
                       /\ skip + take <= size
BY DEF OnPage, Least, Most

LEMMA AddChunkType ==
    ASSUME NEW chunks \in Seq(Chunk), NEW node \in {0, 1}, NEW bytes \in Seq(Nat)
    PROVE  AddChunk(chunks, node, bytes) \in Seq(Chunk)
<1>1. CASE ~(chunks # << >> /\ Last(chunks).node = node)
  <2>1. [node |-> node, bytes |-> bytes] \in Chunk
    BY DEF Chunk
  <2> QED  BY <1>1, <2>1 DEF AddChunk
<1>2. CASE chunks # << >> /\ Last(chunks).node = node
  <2>1. Len(chunks) \in 1..Len(chunks)
    BY <1>2
  <2>2. Last(chunks) \in Chunk
    BY <2>1 DEF Last
  <2>3. Last(chunks).bytes \o bytes \in Seq(Nat)
    BY <2>2 DEF Chunk
  <2> DEFINE longer == [node |-> node, bytes |-> Last(chunks).bytes \o bytes]
  <2>4. longer \in Chunk
    BY <2>3 DEF Chunk
  <2>5. Front(chunks) \in Seq(Chunk)
    BY <2>1 DEF Front
  <2>6. AddChunk(chunks, node, bytes) = Append(Front(chunks), longer)
    BY <1>2 DEF AddChunk
  <2> HIDE DEF longer
  <2> QED  BY <2>4, <2>5, <2>6
<1> QED  BY <1>1, <1>2

LEMMA ParseLineIs ==
    ASSUME NEW acc \in Parsed, NEW line \in Line, NEW limit \in Nat, NEW offset \in Nat
    PROVE  LET skip == Most(0, offset - acc.total)
               take == Least(line.size - skip, limit - acc.kept)
               new == ParseLine(acc, line, limit, offset)
           IN  /\ new \in Parsed
               /\ new.total = acc.total + line.size
               /\ IF skip >= line.size \/ take <= 0
                  THEN new.kept = acc.kept /\ new.chunks = acc.chunks
                  ELSE /\ new.kept = acc.kept + take
                       /\ new.chunks = AddChunk(acc.chunks, line.node, Places(acc.total + skip, take))
<1> DEFINE skip == Most(0, offset - acc.total)
           take == Least(line.size - skip, limit - acc.kept)
           new == ParseLine(acc, line, limit, offset)
           longer == AddChunk(acc.chunks, line.node, Places(acc.total + skip, take))
<1>1. /\ acc.total \in Nat /\ acc.kept \in Nat /\ acc.chunks \in Seq(Chunk)
      /\ line.size \in Nat /\ line.node \in {0, 1}
      /\ acc = [total |-> acc.total, kept |-> acc.kept, chunks |-> acc.chunks]
  BY DEF Parsed, Line
<1>2. skip \in Nat /\ take \in Int
  BY <1>1 DEF Most, Least
<1>3. CASE skip >= line.size \/ take <= 0
  <2>1. new = [acc EXCEPT !.total = acc.total + line.size]
    BY <1>3 DEF ParseLine
  <2>2. new = [total |-> acc.total + line.size, kept |-> acc.kept, chunks |-> acc.chunks]
    BY <2>1 DEF Parsed
  <2>3. acc.total + line.size \in Nat
    BY <1>1
  <2> HIDE DEF new, skip, take
  <2>4. new \in Parsed
    BY <1>1, <2>2, <2>3 DEF Parsed
  <2>5. new.total = acc.total + line.size /\ new.kept = acc.kept /\ new.chunks = acc.chunks
    BY <2>2
  <2> QED  BY <1>3, <2>4, <2>5 DEF new, skip, take
<1>4. CASE ~(skip >= line.size \/ take <= 0)
  <2>1. take \in Nat /\ acc.total + skip \in Nat /\ acc.kept + take \in Nat
        /\ acc.total + line.size \in Nat
    <3> HIDE DEF take, skip
    <3> QED  BY <1>1, <1>2, <1>4
  <2>2. longer \in Seq(Chunk)
    <3> HIDE DEF take, skip
    <3>1. Places(acc.total + skip, take) \in Seq(Nat)
      BY <2>1, PlacesIs
    <3> QED  BY <1>1, <3>1, AddChunkType
  <2>3. new = [[acc EXCEPT !.total = acc.total + line.size]
                   EXCEPT !.kept = acc.kept + take, !.chunks = longer]
    BY <1>4, <1>1 DEF ParseLine
  <2> HIDE DEF new, longer, take
  <2>4. new = [total |-> acc.total + line.size, kept |-> acc.kept + take, chunks |-> longer]
    BY <2>3 DEF Parsed
  <2>5. new \in Parsed
    BY <2>1, <2>2, <2>4 DEF Parsed
  <2>6. new.total = acc.total + line.size /\ new.kept = acc.kept + take /\ new.chunks = longer
    BY <2>4
  <2> QED  BY <1>4, <2>5, <2>6 DEF new, take, longer
<1> QED  BY <1>3, <1>4

Empty == [total |-> 0, kept |-> 0, chunks |-> << >>]

LEMMA ParseLinesIs ==
    ASSUME NEW lines \in Seq(Line), NEW limit \in Nat, NEW offset \in Nat
    PROVE  ParseLines(lines, limit, offset) =
               [n \in 0..Len(lines) |-> IF n = 0 THEN Empty
                    ELSE ParseLine(ParseLines(lines, limit, offset)[n - 1], lines[n], limit, offset)]
<1> DEFINE N == Len(lines)
           step == [i \in 1..N |-> [v \in Parsed |-> ParseLine(v, lines[i], limit, offset)]]
<1>1. N \in Nat /\ \A i \in 1..N : lines[i] \in Line
  OBVIOUS
<1>2. \A i \in 1..N : \A v \in Parsed : ParseLine(v, lines[i], limit, offset) \in Parsed
  <2> HIDE DEF N
  <2> QED  BY <1>1, ParseLineIs
<1>3. step \in [1..N -> [Parsed -> Parsed]]
  BY <1>2
<1>4. \E g : Follows(g, N, Parsed, Empty, step)
  <2>1. Empty \in Parsed /\ N \in Nat
    BY <1>1 DEF Empty, Parsed
  <2> HIDE DEF N, step
  <2> QED  BY <1>3, <2>1, Recursion
<1>5. PICK g : Follows(g, N, Parsed, Empty, step)
  BY <1>4
<1>6. \A i \in 1..N : i - 1 \in 0..N /\ g[i - 1] \in Parsed
  BY <1>1, <1>5 DEF Follows
<1>7. \A i \in 1..N : g[i] = ParseLine(g[i - 1], lines[i], limit, offset)
  BY <1>5, <1>6 DEF Follows
<1>8. g = [n \in 0..N |-> IF n = 0 THEN Empty ELSE ParseLine(g[n - 1], lines[n], limit, offset)]
  <2>1. g \in [0..N -> Parsed] /\ g[0] = Empty
    BY <1>5 DEF Follows
  <2>2. \A n \in 0..N : n = 0 \/ n \in 1..N
    BY <1>1
  <2> HIDE DEF N
  <2>3. \A n \in 0..N : g[n] = IF n = 0 THEN Empty ELSE ParseLine(g[n - 1], lines[n], limit, offset)
    BY <1>7, <2>1, <2>2
  <2> QED  BY <2>1, <2>3
<1> QED  BY <1>8 DEF ParseLines, Empty

\* A page holds the bytes after offset, as many as there are up to the limit,
\* each once, in order and under the node that sent it.
LEMMA PageCovers ==
    ASSUME NEW lines \in Seq(Line), NEW limit \in Nat, NEW offset \in Nat
    PROVE  LET page == Parse(lines, limit, offset) IN
           /\ page \in Parsed
           /\ Covers(lines, page.chunks, offset, offset + page.kept)
<1> DEFINE N == Len(lines)
           after == ParseLines(lines, limit, offset)
           ends == LineEnds(lines)
           T == {n \in 0..N : /\ after[n] \in Parsed
                              /\ after[n].total = ends[n]
                              /\ after[n].kept = OnPage(ends[n], limit, offset)
                              /\ Covers(lines, after[n].chunks, offset, offset + after[n].kept)}
<1>1. /\ N \in Nat /\ ends[0] = 0 /\ \A n \in 0..N : ends[n] \in Nat
      /\ \A n \in 1..N : lines[n] \in Line
      /\ \A n \in 1..N : ends[n] = ends[n - 1] + lines[n].size
  BY LineEndsGrow
<1>2. \A n \in 0..N : after[n] =
          IF n = 0 THEN Empty ELSE ParseLine(after[n - 1], lines[n], limit, offset)
  <2>1. after = [n \in 0..N |->
            IF n = 0 THEN Empty ELSE ParseLine(after[n - 1], lines[n], limit, offset)]
    BY ParseLinesIs
  <2> HIDE DEF after, N
  <2> QED  BY <2>1
<1> HIDE DEF after, ends, N
<1>3. 0 \in T
  <2>1. 0 \in 0..N /\ after[0] = Empty
    BY <1>1, <1>2
  <2>2. Empty \in Parsed /\ Empty.total = 0 /\ Empty.kept = 0 /\ Empty.chunks = << >>
    BY DEF Empty, Parsed
  <2>3. OnPage(0, limit, offset) = 0 /\ offset + 0 = offset
    BY DEF OnPage, Least, Most
  <2>4. Covers(lines, << >>, offset, offset)
    BY NothingCovers
  <2> QED  BY <1>1, <2>1, <2>2, <2>3, <2>4
<1>4. ASSUME NEW n \in 1..N, n - 1 \in T PROVE n \in T
  <2> DEFINE acc == after[n - 1]
             line == lines[n]
             skip == Most(0, offset - acc.total)
             take == Least(line.size - skip, limit - acc.kept)
             new == ParseLine(acc, line, limit, offset)
  <2>1. /\ n \in 0..N /\ n # 0 /\ n - 1 \in 0..N /\ line \in Line
        /\ ends[n] = acc.total + line.size /\ after[n] = new
    BY <1>1, <1>2, <1>4
  <2>2. /\ acc \in Parsed /\ acc.total = ends[n - 1]
        /\ acc.kept = OnPage(acc.total, limit, offset)
        /\ Covers(lines, acc.chunks, offset, offset + acc.kept)
    BY <1>4
  <2>3. line.size \in Nat /\ line.node \in {0, 1} /\ acc.total \in Nat
    BY <2>1, <2>2 DEF Line, Parsed
  <2>4. /\ acc.kept \in Nat /\ skip \in Nat
        /\ IF skip >= line.size \/ take <= 0
           THEN OnPage(acc.total + line.size, limit, offset) = acc.kept
           ELSE /\ OnPage(acc.total + line.size, limit, offset) = acc.kept + take
                /\ take \in Nat /\ acc.total + skip = offset + acc.kept
                /\ skip + take <= line.size
    <3> DEFINE kept == OnPage(acc.total, limit, offset)
               more1 == Least(line.size - skip, limit - kept)
    <3>1. /\ kept \in Nat /\ skip \in Nat
          /\ IF skip >= line.size \/ more1 <= 0
             THEN OnPage(acc.total + line.size, limit, offset) = kept
             ELSE /\ OnPage(acc.total + line.size, limit, offset) = kept + more1
                  /\ more1 \in Nat /\ acc.total + skip = offset + kept
                  /\ skip + more1 <= line.size
      <4> HIDE DEF acc, line
      <4> QED  BY <2>3, OnPageGrows
    <3>2. acc.kept = kept /\ take = more1
      BY <2>2
    <3> HIDE DEF acc, line, skip, take, kept, more1
    <3> QED  BY <3>1, <3>2
  <2>5. /\ new \in Parsed
        /\ new.total = acc.total + line.size
        /\ IF skip >= line.size \/ take <= 0
           THEN new.kept = acc.kept /\ new.chunks = acc.chunks
           ELSE /\ new.kept = acc.kept + take
                /\ new.chunks = AddChunk(acc.chunks, line.node, Places(acc.total + skip, take))
    <3> HIDE DEF acc, line
    <3> QED  BY <2>1, <2>2, ParseLineIs
  <2> HIDE DEF acc, line, skip, take, new
  <2>6. new.kept = OnPage(acc.total + line.size, limit, offset)
    BY <2>4, <2>5
  <2>7. Covers(lines, new.chunks, offset, offset + new.kept)
    <3>1. CASE skip >= line.size \/ take <= 0
      BY <2>2, <2>5, <3>1
    <3>2. CASE ~(skip >= line.size \/ take <= 0)
      <4>1. /\ take \in Nat /\ acc.total + skip = offset + acc.kept /\ skip + take <= line.size
            /\ new.kept = acc.kept + take
            /\ new.chunks = AddChunk(acc.chunks, line.node, Places(offset + acc.kept, take))
        BY <2>4, <2>5, <3>2
      <4>2. \A place \in (offset + acc.kept + 1)..(offset + acc.kept + take) :
                place \in (ends[n - 1] + 1)..ends[n]
        <5>1. /\ ends[n] = acc.total + line.size /\ ends[n - 1] = acc.total
              /\ offset + acc.kept = acc.total + skip
              /\ acc.total \in Nat /\ line.size \in Nat /\ skip \in Nat
          BY <2>1, <2>2, <2>3, <2>4, <4>1
        <5>2. \A place \in (acc.total + skip + 1)..(acc.total + skip + take) :
                  place \in (acc.total + 1)..(acc.total + line.size)
          BY SMTT(40), <4>1, <5>1
        <5> QED  BY <5>1, <5>2
      <4>3. n \in 1..Len(lines) /\ lines[n].node = line.node
        BY DEF N, line
      <4>4. \A place \in (offset + acc.kept + 1)..(offset + acc.kept + take) :
                Sends(lines, line.node, place)
        BY <4>2, <4>3 DEF Sends, ends
      <4>5. Covers(lines, new.chunks, offset, offset + acc.kept + take)
        BY <2>2, <2>3, <4>1, <4>4, AddedCovers
      <4>6. offset + acc.kept + take = offset + new.kept
        BY <2>4, <4>1
      <4> QED  BY <4>5, <4>6
    <3> QED  BY <3>1, <3>2
  <2> QED  BY <2>1, <2>5, <2>6, <2>7
<1>5. \A n \in 0..N : n \in T
  <2> HIDE DEF T
  <2> QED  BY <1>1, <1>3, <1>4, UpTo
<1>6. N \in T
  <2>1. N \in 0..N
    BY <1>1
  <2> HIDE DEF T
  <2> QED  BY <1>5, <2>1
<1> QED  BY <1>6 DEF Parse, after, N

-----------------------------------------------------------------------------
(* The panel.  What it shows, and what a page that is asked for will be     *)
(* joined to, holds the beginning of its conversation; what is shown, and   *)
(* what the newest request asks for, is of the selected capture and of the  *)
(* flow on the page.                                                        *)

Whole(d) == d.scope = "conversation" => Covers(report[d.of], d.chunks, 0, d.length)

\* d is of capture c and of flow f, if there is one
IsOf(d, c, f) ==
    /\ (IF d.scope = "segment" THEN d.file ELSE CaptureOf[d.of]) = c
    /\ f # None => d.of = f

\* the flow on the page is of the selected capture, and only its packets are drawn
PageState == flow # None => CaptureOf[flow] = file /\ drawn \in {flow, None}

Remembered ==
    \A t \in asked :
        /\ t.request <= request
        /\ t.request = request => IsOf(t, file, flow)
        /\ t.scope = "page" => t.previous # None
        /\ t.previous # None => /\ t.scope # "segment"
                                /\ t.previous.of = t.of
                                /\ Whole(t.previous)

PanelInv ==
    /\ TypeOK
    /\ PanelIsOfFlow
    /\ PageState
    /\ data # None => Whole(data)
    /\ Remembered

Question == [request: 1..MaxRequest, scope: {"segment", "preview", "page"},
             file: Capture \cup {None}, of: Flow, previous: Conversation \cup {None}]

LEMMA InitPanel == Init => PanelInv
<1> SUFFICES ASSUME Init PROVE PanelInv
  OBVIOUS
<1>1. TypeOK
  <2>1. 0 \in 0..MaxRequest
    BY PanelConstants
  <2> QED  BY <2>1 DEF Init, TypeOK
<1>2. PanelIsOfFlow /\ PageState /\ (data # None => Whole(data)) /\ Remembered
  BY DEF Init, PanelIsOfFlow, PageState, Remembered
<1> QED  BY <1>1, <1>2 DEF PanelInv

LEMMA TranscriptIs ==
    ASSUME TypeOK, NEW f \in Flow, NEW limit \in Nat, NEW offset \in Nat
    PROVE  LET d == Transcript(f, limit, offset) IN
           /\ d \in Conversation /\ d.scope = "conversation" /\ d.of = f
           /\ Covers(report[f], d.chunks, offset, offset + d.length)
<1> DEFINE d == Transcript(f, limit, offset)
           page == Parse(report[f], limit, offset)
<1>1. report[f] \in Seq(Line)
  BY PanelConstants DEF TypeOK, Line
<1>2. page \in Parsed /\ Covers(report[f], page.chunks, offset, offset + page.kept)
  BY <1>1, PageCovers
<1>3. d = [scope |-> "conversation", of |-> f, chunks |-> page.chunks,
           length |-> page.kept, total |-> page.total]
  BY DEF Transcript
<1> HIDE DEF d, page
<1>4. d \in Conversation
  BY <1>2, <1>3 DEF Conversation, Parsed
<1>5. d.scope = "conversation" /\ d.of = f /\ d.chunks = page.chunks /\ d.length = page.kept
  BY <1>3
<1> QED  BY <1>2, <1>4, <1>5 DEF d

\* The first page is the beginning of the conversation.
LEMMA PreviewIs ==
    ASSUME TypeOK, NEW f \in Flow
    PROVE  LET d == Transcript(f, Preview, 0) IN
           d \in Conversation /\ d.of = f /\ Whole(d)
<1> DEFINE d == Transcript(f, Preview, 0)
<1>1. Preview \in Nat /\ 0 \in Nat
  BY PanelConstants
<1>2. /\ d \in Conversation /\ d.scope = "conversation" /\ d.of = f
      /\ Covers(report[f], d.chunks, 0, 0 + d.length)
  BY <1>1, TranscriptIs
<1> HIDE DEF d
<1>3. 0 + d.length = d.length
  BY <1>2 DEF Conversation
<1> QED  BY <1>2, <1>3 DEF Whole, d

\* A page joined to what comes before it.
LEMMA JoinedIs ==
    ASSUME TypeOK, NEW f \in Flow, NEW previous \in Conversation,
           previous.of = f, Whole(previous)
    PROVE  LET d == Joined(previous, Transcript(f, Page, previous.length)) IN
           d \in Conversation /\ d.of = f /\ Whole(d)
<1> DEFINE page == Transcript(f, Page, previous.length)
           d == Joined(previous, page)
<1>1. /\ Page \in Nat /\ previous.length \in Nat /\ previous.chunks \in Seq(Chunk)
      /\ previous.scope = "conversation"
  BY PanelConstants DEF Conversation
<1>2. /\ page \in Conversation /\ page.scope = "conversation" /\ page.of = f
      /\ Covers(report[f], page.chunks, previous.length, previous.length + page.length)
  BY <1>1, TranscriptIs
<1> HIDE DEF page
<1>3. page.chunks \in Seq(Chunk) /\ page.length \in Nat /\ page.total \in Nat
  BY <1>2 DEF Conversation
<1>4. d = [page EXCEPT !.chunks = previous.chunks \o page.chunks,
                       !.length = previous.length + page.length]
  BY DEF Joined
<1> HIDE DEF d
<1>5. d = [scope |-> page.scope, of |-> page.of, chunks |-> previous.chunks \o page.chunks,
           length |-> previous.length + page.length, total |-> page.total]
  BY <1>2, <1>4 DEF Conversation
<1>6. previous.chunks \o page.chunks \in Seq(Chunk) /\ previous.length + page.length \in Nat
  BY <1>1, <1>3
<1>7. d \in Conversation
  BY <1>2, <1>3, <1>5, <1>6 DEF Conversation
<1>8. Covers(report[f], previous.chunks, 0, previous.length)
  BY <1>1 DEF Whole
<1>9. Covers(report[f], previous.chunks \o page.chunks, 0, previous.length + page.length)
  BY <1>2, <1>8, JoinedCovers
<1>10. /\ d.of = f /\ d.chunks = previous.chunks \o page.chunks
       /\ d.length = previous.length + page.length
  BY <1>2, <1>5
<1> QED  BY <1>7, <1>9, <1>10 DEF Whole, d, page

LEMMA ReplyIs ==
    ASSUME PanelInv, NEW t \in asked, t.file # None
    PROVE  LET d == ReplyTo(t) IN
           /\ d \in Conversation \cup Segment /\ Whole(d)
           /\ t.request = request => IsOf(d, file, flow)
<1>1. TypeOK /\ t \in Question
  BY DEF PanelInv, TypeOK, Question
<1>2. /\ t.of \in Flow /\ t.scope \in {"segment", "preview", "page"}
      /\ t.file \in Capture /\ t.previous \in Conversation \cup {None}
  BY <1>1 DEF Question
<1>3. t.request = request => IsOf(t, file, flow)
  BY DEF PanelInv, Remembered
<1>4. CASE t.scope = "segment"
  <2>1. ReplyTo(t) = [scope |-> "segment", file |-> t.file, of |-> t.of]
    BY <1>4 DEF ReplyTo
  <2> QED  BY <1>2, <1>3, <1>4, <2>1 DEF Segment, Whole, IsOf
<1>5. ASSUME NEW d \in Conversation, t.scope # "segment", d.of = t.of, Whole(d)
      PROVE  /\ d \in Conversation \cup Segment /\ Whole(d)
             /\ t.request = request => IsOf(d, file, flow)
  <2>1. d.scope # "segment"
    BY DEF Conversation
  <2> QED  BY <1>3, <1>5, <2>1 DEF IsOf
<1>6. CASE t.scope = "preview"
  <2> DEFINE d == Transcript(t.of, Preview, 0)
  <2>1. ReplyTo(t) = d
    BY <1>6 DEF ReplyTo
  <2>2. d \in Conversation /\ d.of = t.of /\ Whole(d)
    BY <1>1, <1>2, PreviewIs
  <2> HIDE DEF d
  <2> QED  BY <1>5, <1>6, <2>1, <2>2
<1>7. CASE t.scope = "page"
  <2> DEFINE d == Joined(t.previous, Transcript(t.of, Page, t.previous.length))
  <2>1. ReplyTo(t) = d
    BY <1>7 DEF ReplyTo
  <2>2. t.previous \in Conversation /\ t.previous.of = t.of /\ Whole(t.previous)
    BY <1>2, <1>7 DEF PanelInv, Remembered
  <2>3. d \in Conversation /\ d.of = t.of /\ Whole(d)
    BY <1>1, <1>2, <2>2, JoinedIs
  <2> HIDE DEF d
  <2> QED  BY <1>5, <1>7, <2>1, <2>3
<1> QED  BY <1>2, <1>4, <1>6, <1>7

\* A request that takes the next token, with what is kept for it.
LEMMA AskIs ==
    ASSUME PanelInv, Room, UNCHANGED <<report, file, flow, drawn>>,
           NEW scope \in {"segment", "preview", "page"}, NEW of \in Flow,
           NEW previous \in Conversation \cup {None},
           Ask([request |-> request + 1, scope |-> scope, file |-> file, of |-> of,
                previous |-> previous]),
           flow # None => of = flow,
           scope # "segment" => CaptureOf[of] = file,
           scope = "page" => previous # None,
           previous # None => /\ scope # "segment" /\ previous.of = of
                              /\ Whole(previous),
           data' \in {previous, None}
    PROVE  PanelInv'
<1> DEFINE q == [request |-> request + 1, scope |-> scope, file |-> file, of |-> of,
                 previous |-> previous]
<1>1. request \in Nat /\ MaxRequest \in Nat /\ request + 1 \in 1..MaxRequest
  BY PanelConstants DEF PanelInv, TypeOK, Room
<1>2. request' = request + 1 /\ asked' = asked \cup {q} /\ more' = FALSE
  BY DEF Ask
<1>3. q \in Question
  BY <1>1 DEF Question, PanelInv, TypeOK
<1>4. /\ q.request = request + 1 /\ q.scope = scope /\ q.file = file /\ q.of = of
      /\ q.previous = previous
  OBVIOUS
<1> HIDE DEF q
<1>5. TypeOK'
  <2>1. asked' \subseteq Question
    BY <1>2, <1>3 DEF PanelInv, TypeOK, Question
  <2>2. data' \in Conversation \cup Segment \cup {None}
    OBVIOUS
  <2>3. /\ report' \in [Flow -> Report] /\ file' \in Capture \cup {None}
        /\ flow' \in Flow \cup {None} /\ drawn' \in Flow \cup {None}
    BY DEF PanelInv, TypeOK
  <2>4. request' \in 0..MaxRequest
    BY <1>1, <1>2
  <2>5. more' \in BOOLEAN
    BY <1>2
  <2> QED  BY <2>1, <2>2, <2>3, <2>4, <2>5 DEF TypeOK, Question
<1>6. PanelIsOfFlow'
  <2>1. SUFFICES ASSUME data' # None PROVE IsOf(data', file', flow')
    BY DEF PanelIsOfFlow, CaptureShown, IsOf
  <2>2. data' = previous /\ previous \in Conversation
    BY <2>1
  <2>3. previous.scope = "conversation"
    BY <2>2 DEF Conversation
  <2> QED  BY <2>1, <2>2, <2>3 DEF IsOf
<1>7. PageState' /\ (data' # None => Whole(data)')
  BY DEF PanelInv, PageState, Whole
<1>8. Remembered'
  <2>1. ASSUME NEW t \in asked
        PROVE  /\ t.request <= request' /\ t.request # request'
               /\ t.scope = "page" => t.previous # None
               /\ t.previous # None => /\ t.scope # "segment" /\ t.previous.of = t.of
                                       /\ Whole(t.previous)'
    <3>1. t \in Question /\ t.request <= request
      BY DEF PanelInv, TypeOK, Question, Remembered
    <3>2. t.request \in Nat
      BY <3>1, <1>1 DEF Question
    <3>3. t.request <= request' /\ t.request # request'
      BY <1>1, <1>2, <3>1, <3>2
    <3> QED  BY <3>3 DEF PanelInv, Remembered, Whole
  <2>2. IsOf(q, file', flow')
    BY <1>4 DEF IsOf
  <2>3. previous # None => Whole(previous)'
    BY DEF Whole
  <2>4. ASSUME NEW t \in asked'
        PROVE  /\ t.request <= request' /\ (t.request = request' => IsOf(t, file', flow'))
               /\ t.scope = "page" => t.previous # None
               /\ t.previous # None => /\ t.scope # "segment" /\ t.previous.of = t.of
                                       /\ Whole(t.previous)'
    <3>1. CASE t \in asked
      BY <2>1, <3>1
    <3>2. CASE t = q
      <4>1. t.request <= request'
        BY <1>1, <1>2, <1>4, <3>2
      <4>2. IsOf(t, file', flow')
        BY <2>2, <3>2
      <4>3. t.previous = previous /\ t.scope = scope /\ t.of = of
        BY <1>4, <3>2
      <4> QED  BY <2>3, <4>1, <4>2, <4>3
    <3> QED  BY <1>2, <3>1, <3>2
  <2> QED  BY <2>4 DEF Remembered, IsOf
<1> QED  BY <1>5, <1>6, <1>7, <1>8 DEF PanelInv

\* A step that takes the next token and asks for nothing.
LEMMA NewTokenIs ==
    ASSUME PanelInv, Room, request' = request + 1, UNCHANGED <<report, asked>>,
           file' \in Capture \cup {None}, flow' \in Flow \cup {None},
           drawn' \in Flow \cup {None}, more' \in BOOLEAN, PageState',
           data' \in Conversation \cup {None},
           data' # None => IsOf(data', file', flow') /\ Whole(data)'
    PROVE  PanelInv'
<1>1. request \in Nat /\ request + 1 \in 0..MaxRequest
  BY PanelConstants DEF PanelInv, TypeOK, Room
<1>2. TypeOK'
  BY <1>1 DEF PanelInv, TypeOK
<1>3. PanelIsOfFlow'
  BY DEF PanelIsOfFlow, CaptureShown, IsOf
<1>4. Remembered'
  <2>1. ASSUME NEW t \in asked
        PROVE  t.request <= request' /\ t.request # request'
    <3>1. t \in Question /\ t.request <= request
      BY DEF PanelInv, TypeOK, Question, Remembered
    <3>2. t.request \in Nat
      BY <3>1 DEF Question
    <3> QED  BY <1>1, <3>1, <3>2
  <2> QED  BY <2>1 DEF PanelInv, Remembered, Whole
<1> QED  BY <1>2, <1>3, <1>4 DEF PanelInv

\* A step of the page that leaves the panel and its requests alone.
LEMMA PageIs ==
    ASSUME PanelInv, UNCHANGED <<report, file, request, data, more, asked>>,
           flow' \in {flow, None}, drawn' \in Flow \cup {None}, PageState'
    PROVE  PanelInv'
<1>1. TypeOK'
  BY DEF PanelInv, TypeOK
<1>2. PanelIsOfFlow' /\ (data' # None => Whole(data)')
  BY DEF PanelInv, PanelIsOfFlow, CaptureShown, Whole
<1>3. Remembered'
  BY DEF PanelInv, Remembered, IsOf, Whole
<1> QED  BY <1>1, <1>2, <1>3 DEF PanelInv

\* A step that takes an answer in.
LEMMA AnswerIs ==
    ASSUME PanelInv, NEW t \in asked, asked' = asked \ {t},
           UNCHANGED <<report, file, flow, drawn, request>>, more' \in BOOLEAN,
           \/ data' = data
           \/ /\ data' \in Conversation \cup Segment \cup {None}
              /\ data' # None => IsOf(data', file, flow) /\ Whole(data')
    PROVE  PanelInv'
<1>1. TypeOK'
  BY DEF PanelInv, TypeOK
<1>2. PanelIsOfFlow' /\ PageState' /\ (data' # None => Whole(data)')
  BY DEF PanelInv, PanelIsOfFlow, CaptureShown, IsOf, PageState, Whole
<1>3. Remembered'
  BY DEF PanelInv, Remembered, IsOf, Whole
<1> QED  BY <1>1, <1>2, <1>3 DEF PanelInv

LEMMA StepPanel ==
    ASSUME PanelInv, [Next]_vars
    PROVE  PanelInv'
<1>1. CASE UNCHANGED vars
  BY <1>1 DEF vars, PanelInv, TypeOK, PanelIsOfFlow, CaptureShown, PageState, Remembered,
              IsOf, Whole
<1>2. ASSUME NEW f \in Flow, NewFlow(f)
      PROVE  PanelInv'
  <2> DEFINE d == Transcript(f, Preview, 0)
  <2>1. d \in Conversation /\ d.of = f /\ Whole(d)
    BY PreviewIs DEF PanelInv
  <2>2. /\ Room /\ CaptureOf[f] = file /\ flow' = f /\ request' = request + 1
        /\ UNCHANGED <<report, file, asked>> /\ drawn' \in {f, None}
        /\ data' = d /\ more' \in BOOLEAN
    BY <1>2 DEF NewFlow, Show, Draw
  <2> HIDE DEF d
  <2>3. Whole(data)' /\ IsOf(data', file', flow')
    <3>1. d.scope = "conversation"
      BY <2>1 DEF Conversation
    <3> QED  BY <2>1, <2>2, <3>1 DEF Whole, IsOf
  <2>4. PageState' /\ file' \in Capture \cup {None}
    BY <2>2 DEF PageState, PanelInv, TypeOK
  <2> QED  BY <2>1, <2>2, <2>3, <2>4, NewTokenIs
<1>3. ASSUME NEW c \in Capture \cup {None}, Streams(c)
      PROVE  PanelInv'
  <2>1. /\ Room /\ request' = request + 1 /\ UNCHANGED <<report, asked>>
        /\ file' = c /\ flow' = None /\ data' = None /\ more' = FALSE
        /\ drawn' \in Flow \cup {None}
    BY <1>3 DEF Streams, ClearPayload, PanelInv, TypeOK
  <2>2. PageState'
    BY <2>1 DEF PageState
  <2> QED  BY <2>1, <2>2, NewTokenIs
<1>4. CASE ReplyWithoutFlow
  <2>1. /\ UNCHANGED <<report, file, request, data, more, asked>> /\ flow' = None
        /\ drawn' \in Flow \cup {None}
    BY <1>4 DEF ReplyWithoutFlow, PanelInv, TypeOK
  <2> QED  BY <2>1, PageIs DEF PageState
<1>5. CASE Rebuild
  <2>1. /\ UNCHANGED <<report, file, request, data, more, asked>> /\ flow' = flow
        /\ drawn' \in {flow, None} /\ drawn' \in Flow \cup {None}
    BY <1>5 DEF Rebuild, Draw, PanelInv, TypeOK
  <2>2. PageState'
    BY <2>1 DEF PageState, PanelInv
  <2> QED  BY <2>1, <2>2, PageIs
<1>6. CASE LoadPayload
  <2>1. /\ Room /\ drawn \in Flow /\ UNCHANGED <<report, file, flow, drawn>> /\ data' = None
        /\ Ask([request |-> request + 1, scope |-> "segment", file |-> file, of |-> drawn,
                previous |-> None])
    BY <1>6 DEF LoadPayload, PanelInv, TypeOK
  <2>2. flow # None => drawn = flow
    BY <2>1, PanelConstants DEF PanelInv, PageState
  <2> QED  BY <2>1, <2>2, AskIs
<1>7. ASSUME NEW full \in BOOLEAN, LoadConversation(full)
      PROVE  PanelInv'
  <2> DEFINE previous == IF full /\ data # None /\ data.scope = "conversation"
                         THEN data ELSE None
             next == IF previous = None THEN "preview" ELSE "page"
  <2>1. /\ Room /\ flow # None /\ UNCHANGED <<report, file, flow, drawn>>
        /\ Ask([request |-> request + 1, scope |-> next, file |-> file, of |-> flow,
                previous |-> previous])
        /\ data' = previous
    BY <1>7 DEF LoadConversation
  <2>2. /\ next \in {"segment", "preview", "page"} /\ next # "segment"
        /\ next = "page" => previous # None
    OBVIOUS
  <2>3. previous \in Conversation \cup {None}
    BY DEF PanelInv, TypeOK, Segment
  <2>4. previous # None => previous.of = flow /\ Whole(previous)
    BY <2>1 DEF PanelInv, PanelIsOfFlow
  <2>5. flow \in Flow /\ CaptureOf[flow] = file
    BY <2>1 DEF PanelInv, TypeOK, PageState
  <2> HIDE DEF previous, next
  <2> QED  BY <2>1, <2>2, <2>3, <2>4, <2>5, AskIs
<1>8. ASSUME NEW t \in asked, Answered(t)
      PROVE  PanelInv'
  <2> DEFINE d == ReplyTo(t)
  <2>1. /\ d \in Conversation \cup Segment /\ Whole(d)
        /\ t.request = request => IsOf(d, file, flow)
    BY <1>8, ReplyIs DEF Answered
  <2>2. asked' = asked \ {t} /\ UNCHANGED <<report, file, flow, drawn, request>>
    BY <1>8 DEF Answered
  <2>3. CASE t.request = request
    <3>1. data' = d /\ more' \in BOOLEAN
      BY <1>8, <2>3 DEF Answered, Show
    <3>2. Whole(data')
      BY <2>1, <3>1 DEF Whole
    <3> HIDE DEF d
    <3> QED  BY <2>1, <2>2, <2>3, <3>1, <3>2, AnswerIs
  <2>4. CASE t.request # request
    <3>1. data' = data /\ more' \in BOOLEAN
      BY <1>8, <2>4 DEF Answered, PanelInv, TypeOK
    <3> QED  BY <2>2, <3>1, AnswerIs
  <2> QED  BY <2>3, <2>4
<1>9. ASSUME NEW t \in asked, AnswerFails(t)
      PROVE  PanelInv'
  <2>1. /\ asked' = asked \ {t} /\ UNCHANGED <<report, file, flow, drawn, request>>
        /\ more' \in BOOLEAN
    BY <1>9 DEF AnswerFails, PanelInv, TypeOK
  <2>2. CASE t.request = request /\ t.scope # "segment"
    <3>1. data' = t.previous
      BY <1>9, <2>2 DEF AnswerFails
    <3>2. t.previous \in Conversation \cup {None}
      BY DEF PanelInv, TypeOK
    <3>3. ASSUME t.previous # None PROVE IsOf(t.previous, file, flow) /\ Whole(t.previous)
      <4>1. t.previous.of = t.of /\ IsOf(t, file, flow) /\ Whole(t.previous)
        BY <2>2, <3>3 DEF PanelInv, Remembered
      <4>2. t.previous.scope = "conversation"
        BY <3>2, <3>3 DEF Conversation
      <4> QED  BY <2>2, <4>1, <4>2 DEF IsOf
    <3>4. data' # None => IsOf(data', file, flow) /\ Whole(data')
      BY <3>1, <3>3 DEF Whole
    <3> QED  BY <2>1, <3>1, <3>2, <3>4, AnswerIs
  <2>3. CASE ~(t.request = request /\ t.scope # "segment")
    <3>1. data' = data
      BY <1>9, <2>3 DEF AnswerFails
    <3> QED  BY <2>1, <3>1, AnswerIs
  <2> QED  BY <2>2, <2>3
<1> QED
  BY <1>1, <1>2, <1>3, <1>4, <1>5, <1>6, <1>7, <1>8, <1>9 DEF Next

\* What the panel and its requests can hold, whatever is answered and however
\* late: a transcript that is kept for its next page (previous in
\* loadConversationPayload) is a conversation, never a segment's data.
THEOREM TypeCorrect == Spec => []TypeOK
<1>1. PanelInv => TypeOK
  BY DEF PanelInv
<1> QED  BY <1>1, InitPanel, StepPanel, PTL DEF Spec

\* What the panel shows is of the capture that is selected and, while a flow is
\* on the page, of that flow: payloadState.request drops every answer that is of
\* another, also of a frame that was clicked while no flow was on the page, in
\* what streams() and a 202 reply leave to click (index.html: loadPayload has no
\* test of flow; installCombined takes the next token).
THEOREM PanelShowsFlow == Spec => []PanelIsOfFlow
<1>1. PanelInv => PanelIsOfFlow
  BY DEF PanelInv
<1> QED  BY <1>1, InitPanel, StepPanel, PTL DEF Spec

\* However parse_follow_raw cuts a report into pages and however the panel asks
\* for them, fails and joins them, it shows a prefix of the conversation, every
\* byte once, in order and under the node that sent it: for every report, every
\* size of preview and page, and every number of requests.
THEOREM TranscriptIsWhole == Spec => []TranscriptIsPrefix
<1>1. PanelInv => TranscriptIsPrefix
  <2> SUFFICES ASSUME PanelInv, Shown PROVE TranscriptIsPrefix
    BY DEF TranscriptIsPrefix
  <2>1. Covers(report[data.of], data.chunks, 0, data.length)
    BY DEF PanelInv, Whole, Shown
  <2>2. data.length \in Nat
    BY <2>1, CoversNat
  <2>3. data.length - 0 = data.length
    BY <2>2
  <2>4. Bytes(data.chunks) = Places(0, data.length)
    BY <2>1, <2>3, CoveredBytes
  <2>5. \A c \in Range(data.chunks) : \A place \in Range(c.bytes) :
            Sends(report[data.of], c.node, place)
    BY <2>1, CoveredNodes
  <2> QED  BY <2>4, <2>5 DEF TranscriptIsPrefix
<1> QED  BY <1>1, InitPanel, StepPanel, PTL DEF Spec
=============================================================================
