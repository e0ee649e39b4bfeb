--------------------------- MODULE SequencingProofs ---------------------------
(***************************************************************************)
(* Induction over a set of natural numbers; that the functions exist which *)
(* a recursive definition or a fold over indices chooses; and what is      *)
(* selected from a sequence. The library states induction and recursion    *)
(* for predicates and operators, which the provers here cannot             *)
(* instantiate; over sets and functions they can.                          *)
(***************************************************************************)
EXTENDS Sequencing, FiniteSetsExt, SequenceTheorems, FiniteSetTheorems, WellFoundedInduction, TLAPS

\* Induction over a set of numbers.
LEMMA FromZero ==
    ASSUME NEW T, 0 \in T, \A n \in Nat : n \in T => n + 1 \in T
    PROVE  \A n \in Nat : n \in T
<1> DEFINE Less == {ss \in Nat \X Nat : ss[1] < ss[2]}
           Out == {n \in Nat : n \notin T}
<1>1. IsWellFoundedOn(Less, Nat)
  BY NatLessThanWellFounded DEF OpToRel
<1>2. SUFFICES ASSUME Out # {} PROVE FALSE
  OBVIOUS
<1>3. \E x \in Out : \A y \in Out : ~(<<y, x>> \in Less)
  <2> HIDE DEF Less
  <2> QED  BY <1>1, <1>2, WFMin
<1>4. PICK x \in Out : \A y \in Out : ~(<<y, x>> \in Less)
  BY <1>3
<1>5. x \in Nat /\ x # 0
  OBVIOUS
<1>6. x - 1 \in Nat /\ x - 1 + 1 = x
  BY <1>5
<1>7. x - 1 \in Out
  BY <1>6
<1>8. <<x - 1, x>> \in Less
  BY <1>5, <1>6
<1> QED  BY <1>4, <1>7, <1>8

LEMMA UpTo ==
    ASSUME NEW N \in Nat, NEW T, 0 \in T,
           \A n \in 1..N : n - 1 \in T => n \in T
    PROVE  \A n \in 0..N : n \in T
<1> DEFINE U == {n \in Nat : n <= N => n \in T}
<1>1. 0 \in U
  OBVIOUS
<1>2. ASSUME NEW n \in Nat, n \in U PROVE n + 1 \in U
  <2>1. CASE n + 1 <= N
    <3>1. n + 1 \in 1..N /\ n + 1 - 1 = n /\ n <= N
      BY <2>1
    <3> QED  BY <1>2, <3>1
  <2>2. CASE ~(n + 1 <= N)
    BY <2>2
  <2> QED  BY <2>1, <2>2
<1>3. \A n \in Nat : n \in U
  <2> HIDE DEF U
  <2> QED  BY <1>1, <1>2, FromZero
<1> QED  BY <1>3

\* A function that is given from each argument to the next one exists.
Follows(g, N, S, base, step) ==
    /\ g \in [0..N -> S]
    /\ g[0] = base
    /\ \A i \in 1..N : g[i] = step[i][g[i - 1]]

LEMMA Recursion ==
    ASSUME NEW N \in Nat, NEW S, NEW base \in S, NEW step \in [1..N -> [S -> S]]
    PROVE  \E g : Follows(g, N, S, base, step)
<1> DEFINE Steps(g, n) == g[0] = base /\ \A i \in 1..n : g[i] = step[i][g[i - 1]]
           T == {n \in 0..N : \E g \in [0..n -> S] : Steps(g, n)}
<1>1. 0 \in T
  <2>1. [i \in 0..0 |-> base] \in [0..0 -> S] /\ Steps([i \in 0..0 |-> base], 0)
    OBVIOUS
  <2> HIDE DEF Steps
  <2> QED  BY <2>1
<1>2. ASSUME NEW n \in 1..N, n - 1 \in T PROVE n \in T
  <2>1. PICK g \in [0..(n - 1) -> S] : Steps(g, n - 1)
    BY <1>2
  <2> DEFINE h == [i \in 0..n |-> IF i = n THEN step[n][g[n - 1]] ELSE g[i]]
  <2>2. step[n][g[n - 1]] \in S
    OBVIOUS
  <2>3. h \in [0..n -> S]
    BY <2>2
  <2>4. Steps(h, n)
    BY <2>1
  <2> HIDE DEF Steps, h
  <2> QED  BY <2>3, <2>4
<1>3. \A n \in 0..N : n \in T
  <2> HIDE DEF T
  <2> QED  BY <1>1, <1>2, UpTo
<1> QED  BY <1>3 DEF Follows

\* The folds of the library walk over the sets of indices, the largest first.
FoldsOver(iter, N, S, base, step) ==
    /\ iter \in [SUBSET (1..N) -> S]
    /\ \A s \in SUBSET (1..N) :
           iter[s] = IF s = {} THEN base ELSE step[Max(s)][iter[s \ {Max(s)}]]

LEMMA FoldExists ==
    ASSUME NEW N \in Nat, NEW S, NEW base \in S, NEW step \in [1..N -> [S -> S]]
    PROVE  \E iter : FoldsOver(iter, N, S, base, step)
<1> DEFINE T == {n \in 0..N : \E iter : FoldsOver(iter, n, S, base, step)}
<1>1. 0 \in T
  <2>1. SUBSET (1..0) = {{}}
    OBVIOUS
  <2>2. FoldsOver([s \in SUBSET (1..0) |-> base], 0, S, base, step)
    BY <2>1 DEF FoldsOver
  <2> QED  BY <2>2
<1>2. ASSUME NEW n \in 1..N, n - 1 \in T PROVE n \in T
  <2>1. PICK it : FoldsOver(it, n - 1, S, base, step)
    BY <1>2
  <2> DEFINE h == [s \in SUBSET (1..n) |-> IF n \in s THEN step[n][it[s \ {n}]] ELSE it[s]]
  <2>2. \A s \in SUBSET (1..n) : /\ s \ {n} \in SUBSET (1..(n - 1))
                                /\ n \notin s => s \in SUBSET (1..(n - 1))
    OBVIOUS
  <2>3. \A s \in SUBSET (1..(n - 1)) : s \in SUBSET (1..n) /\ n \notin s
    OBVIOUS
  <2>4. \A s \in SUBSET (1..(n - 1)) : it[s] \in S
    BY <2>1 DEF FoldsOver
  <2>5. h \in [SUBSET (1..n) -> S]
    BY <2>2, <2>4
  <2>6. ASSUME NEW s \in SUBSET (1..n)
        PROVE  h[s] = IF s = {} THEN base ELSE step[Max(s)][h[s \ {Max(s)}]]
    <3>1. CASE n \in s
      <4>1. Max(s) = n
        <5>1. \A y \in s : y \in 1..n /\ n >= y /\ (y >= n => y = n)
          OBVIOUS
        <5> QED  BY <5>1, <3>1 DEF Max
      <4>2. h[s \ {n}] = it[s \ {n}] /\ h[s] = step[n][it[s \ {n}]]
        BY <3>1, <2>2, <2>3
      <4> QED  BY <4>1, <4>2, <3>1
    <3>2. CASE n \notin s
      <4>1. s \in SUBSET (1..(n - 1)) /\ s \ {Max(s)} \in SUBSET (1..(n - 1))
        <5>1. s \in SUBSET (1..(n - 1))
          BY <3>2, <2>2
        <5> QED  BY <5>1
      <4>2. h[s] = it[s] /\ h[s \ {Max(s)}] = it[s \ {Max(s)}]
        BY <3>2, <4>1, <2>3
      <4> HIDE DEF h
      <4> QED  BY <4>1, <4>2, <2>1 DEF FoldsOver
    <3> QED  BY <3>1, <3>2
  <2>7. FoldsOver(h, n, S, base, step)
    <3> HIDE DEF h
    <3> QED  BY <2>5, <2>6 DEF FoldsOver
  <2> HIDE DEF h
  <2> QED  BY <2>7
<1>3. \A n \in 0..N : n \in T
  <2> HIDE DEF T
  <2> QED  BY <1>1, <1>2, UpTo
<1> QED  BY <1>3

LEMMA MaxIsIn ==
    ASSUME NEW N \in Nat
    PROVE  \A s \in SUBSET (1..N) : s # {} => Max(s) \in s /\ \A y \in s : Max(s) >= y
<1> DEFINE T == {n \in 0..N : \A s \in SUBSET (1..n) : s # {} => \E x \in s : \A y \in s : x >= y}
<1>1. 0 \in T
  <2>1. \A s \in SUBSET (1..0) : s = {}
    <3>1. 1..0 = {}
      OBVIOUS
    <3> QED  BY <3>1
  <2>2. 0 \in 0..N
    OBVIOUS
  <2> QED  BY <2>1, <2>2
<1>2. ASSUME NEW n \in 1..N, n - 1 \in T PROVE n \in T
  <2>1. ASSUME NEW s \in SUBSET (1..n), s # {}
        PROVE  \E x \in s : \A y \in s : x >= y
    <3>1. CASE n \in s
      <4>1. ASSUME NEW y \in s PROVE n >= y
        <5>1. y \in 1..n
          OBVIOUS
        <5> QED  BY <5>1
      <4> QED  BY <3>1, <4>1
    <3>2. CASE n \notin s
      <4>1. s \in SUBSET (1..(n - 1))
        BY <3>2
      <4> QED  BY <1>2, <2>1, <4>1
    <3> QED  BY <3>1, <3>2
  <2> QED  BY <2>1
<1>3. \A n \in 0..N : n \in T
  <2> HIDE DEF T
  <2> QED  BY <1>1, <1>2, UpTo
<1>4. N \in T
  BY <1>3
<1>5. ASSUME NEW s \in SUBSET (1..N), s # {} PROVE Max(s) \in s /\ \A y \in s : Max(s) >= y
  <2>1. \E x \in s : \A y \in s : x >= y
    BY <1>4, <1>5
  <2> QED  BY <2>1 DEF Max
<1> QED  BY <1>5

\* A set of numbers has a least.
LEMMA MinIsIn ==
    ASSUME NEW s \in SUBSET Nat, s # {}
    PROVE  Min(s) \in s
<1> DEFINE Less == {ss \in Nat \X Nat : ss[1] < ss[2]}
<1>1. IsWellFoundedOn(Less, Nat)
  BY NatLessThanWellFounded DEF OpToRel
<1>2. \E x \in s : \A y \in s : ~(<<y, x>> \in Less)
  <2> HIDE DEF Less
  <2> QED  BY <1>1, WFMin
<1>3. PICK x \in s : \A y \in s : ~(<<y, x>> \in Less)
  BY <1>2
<1>4. ASSUME NEW y \in s PROVE x <= y
  <2>1. x \in Nat /\ y \in Nat /\ ~(<<y, x>> \in Less)
    BY <1>3
  <2>2. <<y, x>> \in Nat \X Nat /\ <<y, x>>[1] = y /\ <<y, x>>[2] = x
    BY <2>1
  <2> QED  BY <2>1, <2>2
<1> QED  BY <1>4 DEF Min

\* What a fold over the indices up to n leaves is what the one before left, and
\* the n-th step.
LEMMA TopIndex ==
    ASSUME NEW n \in Nat, n # 0
    PROVE  1..n # {} /\ Max(1..n) = n /\ (1..n) \ {n} = 1..(n - 1)
<1>1. n \in 1..n /\ \A y \in 1..n : n >= y
  OBVIOUS
<1>2. Max(1..n) = n
  BY <1>1 DEF Max
<1> QED  BY <1>1, <1>2

-----------------------------------------------------------------------------
(* Selecting *)

\* The members of a sequence that are in a set, one after the other.
Selection(k, s, A) ==
    /\ k[0] = << >>
    /\ \A n \in 1..Len(s) : k[n] = IF s[n] \in A THEN Append(k[n - 1], s[n]) ELSE k[n - 1]
Picked(s, A) == CHOOSE r : \E k : Selection(k, s, A) /\ r = k[Len(s)]

LEMMA SelectionExists ==
    ASSUME NEW S, NEW s \in Seq(S), NEW A
    PROVE  \E k : k \in [0..Len(s) -> Seq(S)] /\ Selection(k, s, A)
<1> DEFINE N == Len(s)
           step == [i \in 1..N |-> [r \in Seq(S) |-> IF s[i] \in A THEN Append(r, s[i]) ELSE r]]
<1>1. N \in Nat /\ \A i \in 1..N : s[i] \in S
  OBVIOUS
<1>2. step \in [1..N -> [Seq(S) -> Seq(S)]]
  BY <1>1
<1>3. << >> \in Seq(S)
  OBVIOUS
<1> HIDE DEF step
<1>4. PICK k : Follows(k, N, Seq(S), << >>, step)
  BY <1>1, <1>2, <1>3, Recursion
<1>5. ASSUME NEW n \in 1..N
      PROVE  k[n] = IF s[n] \in A THEN Append(k[n - 1], s[n]) ELSE k[n - 1]
  <2>1. n - 1 \in 0..N
    BY <1>1
  <2>2. k[n - 1] \in Seq(S) /\ k[n] = step[n][k[n - 1]]
    BY <1>4, <2>1 DEF Follows
  <2> QED  BY <2>2 DEF step
<1> QED  BY <1>4, <1>5 DEF Follows, Selection

LEMMA SelectionAgrees ==
    ASSUME NEW s, Len(s) \in Nat, NEW A, NEW k, NEW m, Selection(k, s, A), Selection(m, s, A)
    PROVE  \A n \in 0..Len(s) : k[n] = m[n]
<1> DEFINE N == Len(s)
           T == {n \in 0..N : k[n] = m[n]}
<1>1. 0 \in T
  BY DEF Selection
<1>2. ASSUME NEW n \in 1..N, n - 1 \in T PROVE n \in T
  BY <1>2 DEF Selection
<1>3. \A n \in 0..N : n \in T
  <2> HIDE DEF T
  <2> QED  BY <1>1, <1>2, UpTo
<1> QED  BY <1>3

LEMMA PickedIs ==
    ASSUME NEW s, Len(s) \in Nat, NEW A, NEW k, Selection(k, s, A)
    PROVE  Picked(s, A) = k[Len(s)]
<1>1. Len(s) \in 0..Len(s)
  OBVIOUS
<1>2. \A r : (\E m : Selection(m, s, A) /\ r = m[Len(s)]) => r = k[Len(s)]
  BY <1>1, SelectionAgrees
<1> DEFINE P(r) == \E m : Selection(m, s, A) /\ r = m[Len(s)]
<1>3. P(k[Len(s)]) /\ \A r : P(r) => r = k[Len(s)]
  BY <1>2
<1> HIDE DEF P
<1>4. (CHOOSE r : P(r)) = k[Len(s)]
  BY <1>3
<1> QED  BY <1>4 DEF Picked, P

LEMMA PickedAppend ==
    ASSUME NEW S, NEW s \in Seq(S), NEW x \in S, NEW A
    PROVE  /\ Picked(<< >>, A) = << >>
           /\ Picked(s, A) \in Seq(S)
           /\ Picked(Append(s, x), A) = IF x \in A THEN Append(Picked(s, A), x) ELSE Picked(s, A)
<1> DEFINE t == Append(s, x)
           n == Len(s)
<1>1. n \in Nat /\ t \in Seq(S) /\ Len(t) = n + 1 /\ t[n + 1] = x /\ \A i \in 1..n : t[i] = s[i]
  OBVIOUS
<1>2. PICK k : k \in [0..n -> Seq(S)] /\ Selection(k, s, A)
  BY SelectionExists
<1>3. PICK m : m \in [0..(n + 1) -> Seq(S)] /\ Selection(m, t, A)
  BY SelectionExists, <1>1
<1>4. Selection(m, s, A)
  <2>1. \A i \in 1..n : i \in 1..(n + 1)
    BY <1>1
  <2> HIDE DEF t, n
  <2> QED  BY <1>1, <1>3, <2>1 DEF Selection, n
<1>5. Picked(s, A) = k[n] /\ k[n] \in Seq(S)
  BY <1>1, <1>2, PickedIs
<1>6. Picked(s, A) = m[n]
  BY <1>1, <1>4, PickedIs
<1>7. Picked(t, A) = m[n + 1]
  BY <1>1, <1>3, PickedIs
<1>8. m[n + 1] = IF x \in A THEN Append(m[n], x) ELSE m[n]
  <2>1. n + 1 \in 1..(n + 1) /\ n + 1 - 1 = n
    BY <1>1
  <2> HIDE DEF t, n
  <2> QED  BY <1>1, <1>3, <2>1 DEF Selection
<1>9. Picked(<< >>, A) = << >>
  <2>1. Len(<< >>) = 0 /\ << >> \in Seq(S)
    OBVIOUS
  <2>2. PICK h : h \in [0..Len(<< >>) -> Seq(S)] /\ Selection(h, << >>, A)
    BY <2>1, SelectionExists
  <2>3. Picked(<< >>, A) = h[0]
    BY <2>1, <2>2, PickedIs
  <2> QED  BY <2>2, <2>3 DEF Selection
<1> HIDE DEF t, n
<1> QED  BY <1>5, <1>6, <1>7, <1>8, <1>9 DEF t

\* Where the selected members stood: in their order, and none is left out.
Picks(pos, r, s, n, A) ==
    /\ pos \in [1..Len(r) -> 1..n]
    /\ \A i, j \in 1..Len(r) : i < j => pos[i] < pos[j]
    /\ \A i \in 1..Len(r) : r[i] = s[pos[i]] /\ s[pos[i]] \in A
    /\ \A m \in 1..n : s[m] \in A => \E i \in 1..Len(r) : pos[i] = m

LEMMA PickedPlaces ==
    ASSUME NEW S, NEW s \in Seq(S), NEW A
    PROVE  Picked(s, A) \in Seq(S) /\ \E pos : Picks(pos, Picked(s, A), s, Len(s), A)
<1> DEFINE N == Len(s)
<1>1. N \in Nat
  OBVIOUS
<1>2. PICK k : k \in [0..N -> Seq(S)] /\ Selection(k, s, A)
  BY SelectionExists
<1> DEFINE T == {n \in 0..N : \E pos : Picks(pos, k[n], s, n, A)}
<1>3. 0 \in T
  <2>1. k[0] = << >> /\ Len(<< >>) = 0 /\ 1..0 = {} /\ 0 \in 0..N
    BY <1>1, <1>2 DEF Selection
  <2>2. Picks([i \in {} |-> 0], << >>, s, 0, A)
    BY <2>1 DEF Picks
  <2> QED  BY <2>1, <2>2
<1>4. ASSUME NEW n \in 1..N, n - 1 \in T PROVE n \in T
  <2>1. PICK pos : Picks(pos, k[n - 1], s, n - 1, A)
    BY <1>4
  <2> DEFINE r == k[n - 1]
             L == Len(r)
  <2>2. n \in 0..N /\ n - 1 \in 0..N /\ n \in Nat /\ \A m \in 1..n : m = n \/ m \in 1..(n - 1)
    BY <1>1
  <2>3. r \in Seq(S) /\ L \in Nat /\ s[n] \in S
    BY <1>2, <2>2
  <2>4. CASE s[n] \in A
    <3> DEFINE t == Append(r, s[n])
               new == [i \in 1..(L + 1) |-> IF i = L + 1 THEN n ELSE pos[i]]
    <3>1. k[n] = t
      BY <1>2, <2>4 DEF Selection
    <3>2. Len(t) = L + 1 /\ t[L + 1] = s[n] /\ (\A i \in 1..L : t[i] = r[i])
          /\ \A i \in 1..(L + 1) : i = L + 1 \/ (i \in 1..L /\ i # L + 1)
      BY <2>3
    <3>3. \A i \in 1..L : pos[i] \in 1..n /\ pos[i] < n
      <4>1. \A i \in 1..L : pos[i] \in 1..(n - 1)
        BY <2>1 DEF Picks
      <4> QED  BY <4>1, <2>2
    <3>4. /\ \A i \in 1..(L + 1) : new[i] = IF i = L + 1 THEN n ELSE pos[i]
          /\ L + 1 \in 1..(L + 1) /\ \A i \in 1..L : i \in 1..(L + 1)
      BY <2>3
    <3>5. new \in [1..(L + 1) -> 1..n]
      BY <3>2, <3>3, <2>2
    <3> HIDE DEF new, t
    <3>6. \A i, j \in 1..(L + 1) : i < j => new[i] < new[j]
      <4> SUFFICES ASSUME NEW i \in 1..(L + 1), NEW j \in 1..(L + 1), i < j PROVE new[i] < new[j]
        OBVIOUS
      <4>1. i \in 1..L
        BY <2>3
      <4>2. CASE j = L + 1
        BY <4>1, <4>2, <3>2, <3>3, <3>4, SMTT(40)
      <4>3. CASE j \in 1..L
        <5>1. pos[i] < pos[j]
          BY <4>1, <4>3, <2>1 DEF Picks
        <5> QED  BY <4>1, <4>3, <5>1, <3>2, <3>4
      <4> QED  BY <4>2, <4>3, <3>2
    <3>7. ASSUME NEW i \in 1..(L + 1) PROVE t[i] = s[new[i]] /\ s[new[i]] \in A
      <4>1. CASE i = L + 1
        BY <4>1, <3>2, <3>4, <2>4
      <4>2. CASE i \in 1..L
        <5>1. r[i] = s[pos[i]] /\ s[pos[i]] \in A
          BY <4>2, <2>1 DEF Picks
        <5> QED  BY <4>2, <5>1, <3>2, <3>4
      <4> QED  BY <4>1, <4>2, <3>2
    <3>8. ASSUME NEW m \in 1..n, s[m] \in A PROVE \E i \in 1..(L + 1) : new[i] = m
      <4>1. CASE m = n
        BY <4>1, <3>4
      <4>2. CASE m \in 1..(n - 1)
        <5>1. PICK i \in 1..L : pos[i] = m
          BY <4>2, <3>8, <2>1 DEF Picks
        <5> QED  BY <5>1, <3>2, <3>4, SMTT(40)
      <4> QED  BY <4>1, <4>2, <2>2
    <3>9. Picks(new, t, s, n, A)
      BY <3>2, <3>5, <3>6, <3>7, <3>8 DEF Picks
    <3> QED  BY <3>1, <3>9, <2>2
  <2>5. CASE s[n] \notin A
    <3>1. k[n] = r
      BY <1>2, <2>5 DEF Selection
    <3>2. pos \in [1..L -> 1..n]
      BY <2>1, <2>2 DEF Picks
    <3>3. Picks(pos, r, s, n, A)
      <4> HIDE DEF r
      <4> QED  BY <2>1, <2>2, <2>5, <3>2 DEF Picks, r
    <3> QED  BY <3>1, <3>3, <2>2
  <2> QED  BY <2>4, <2>5
<1>5. \A n \in 0..N : n \in T
  <2> HIDE DEF T
  <2> QED  BY <1>1, <1>3, <1>4, UpTo
<1>6. N \in T /\ N \in 0..N
  BY <1>1, <1>5
<1>7. Picked(s, A) = k[N]
  BY <1>1, <1>2, PickedIs
<1> QED  BY <1>2, <1>6, <1>7

\* The function by which Kept selects the members in a set.
Selects(k, s, A) ==
    k = [n \in 0..Len(s) |-> IF n = 0 THEN << >> ELSE IF s[n] \in A THEN Append(k[n - 1], s[n]) ELSE k[n - 1]]

LEMMA SelectsPicked ==
    ASSUME NEW S, NEW s \in Seq(S), NEW A
    PROVE  (\E k : Selects(k, s, A)) /\ \A k : Selects(k, s, A) => k[Len(s)] = Picked(s, A)
<1> DEFINE N == Len(s)
<1>1. N \in Nat /\ \A n \in 1..N : n \in 0..N /\ n # 0
  OBVIOUS
<1>2. PICK k : k \in [0..N -> Seq(S)] /\ Selection(k, s, A)
  BY SelectionExists
<1>3. Selects(k, s, A)
  <2> DEFINE next(n) == IF n = 0 THEN << >> ELSE IF s[n] \in A THEN Append(k[n - 1], s[n]) ELSE k[n - 1]
  <2>1. ASSUME NEW n \in 0..N PROVE k[n] = next(n)
    <3>1. n = 0 \/ n \in 1..N
      BY <1>1
    <3> QED  BY <1>1, <1>2, <3>1 DEF Selection
  <2>2. k = [n \in 0..N |-> next(n)]
    <3> HIDE DEF next
    <3> QED  BY <1>2, <2>1
  <2> QED  BY <2>2 DEF Selects
<1>4. ASSUME NEW m, Selects(m, s, A) PROVE m[N] = Picked(s, A)
  <2>1. 0 \in 0..N
    BY <1>1
  <2>2. m[0] = << >>
    BY <2>1, <1>4 DEF Selects
  <2>3. ASSUME NEW n \in 1..N PROVE m[n] = IF s[n] \in A THEN Append(m[n - 1], s[n]) ELSE m[n - 1]
    BY <1>1, <1>4 DEF Selects
  <2>4. Selection(m, s, A)
    BY <2>2, <2>3 DEF Selection
  <2> QED  BY <2>4, <1>1, PickedIs
<1> QED  BY <1>3, <1>4

-----------------------------------------------------------------------------
(* Sorting *)

\* What comes first by a relation: nothing comes before itself, and what comes
\* before one comes before all that the one does not come after.
OrderOn(B, S) ==
    /\ \A x, y \in S : <<x, y>> \in B => <<y, x>> \notin B
    /\ \A x, y, z \in S : <<x, y>> \in B /\ <<z, y>> \notin B => <<x, z>> \in B
OrderedBy(B, s) == \A i, j \in 1..Len(s) : i <= j => <<s[j], s[i]>> \notin B

\* Put before the first that it comes before, a member keeps the order.
PutIn(rest, x, n, B) ==
    LET at == n - Cardinality({k \in 1..(n - 1) : <<x, rest[k]>> \in B})
    IN  SubSeq(rest, 1, at - 1) \o <<x>> \o SubSeq(rest, at, n - 1)

\* One more member, in its place.
Placed(put, rest, x, n, S, B) ==
    /\ put \in Seq(S) /\ Len(put) = n /\ OrderedBy(B, put)
    /\ \A y : (\E k \in 1..n : put[k] = y) <=> y = x \/ \E k \in 1..(n - 1) : rest[k] = y

LEMMA PutOrdered ==
    ASSUME NEW S, NEW B, OrderOn(B, S), NEW n \in Nat \ {0}, NEW rest \in Seq(S), Len(rest) = n - 1,
           OrderedBy(B, rest), NEW x \in S
    PROVE  Placed(PutIn(rest, x, n, B), rest, x, n, S, B)
<1> DEFINE later == {k \in 1..(n - 1) : <<x, rest[k]>> \in B}
           earlier == {k \in 1..(n - 1) : ~(<<x, rest[k]>> \in B)}
           at == n - Cardinality(later)
<1>1. n - 1 \in Nat /\ \A k \in 1..(n - 1) : rest[k] \in S
  OBVIOUS
<1>2. PICK e \in 0..(n - 1) : /\ \A k \in 1..e : <<x, rest[k]>> \notin B
                            /\ \A k \in (e + 1)..(n - 1) : <<x, rest[k]>> \in B
  <2>1. CASE earlier = {}
    <3>1. \A k \in (0 + 1)..(n - 1) : <<x, rest[k]>> \in B
      <4>1. \A k \in (0 + 1)..(n - 1) : k \in 1..(n - 1)
        OBVIOUS
      <4> QED  BY <2>1, <4>1
    <3>2. 0 \in 0..(n - 1) /\ \A k \in 1..0 : FALSE
      BY <1>1
    <3> QED  BY <3>1, <3>2
  <2>2. CASE earlier # {}
    <3> DEFINE e == Max(earlier)
    <3>1. e \in earlier /\ \A y \in earlier : e >= y
      BY <1>1, <2>2, MaxIsIn
    <3>2. e \in 1..(n - 1) /\ <<x, rest[e]>> \notin B
      BY <3>1, <1>1
    <3> HIDE DEF e
    <3>3. ASSUME NEW k \in 1..e PROVE <<x, rest[k]>> \notin B
      <4>1. k \in 1..(n - 1) /\ k <= e
        BY <1>1, <3>2
      <4>2. <<rest[e], rest[k]>> \notin B
        BY <3>2, <4>1 DEF OrderedBy
      <4>3. rest[k] \in S /\ rest[e] \in S
        BY <1>1, <3>2, <4>1
      <4> QED  BY <3>2, <4>2, <4>3 DEF OrderOn
    <3>4. ASSUME NEW k \in (e + 1)..(n - 1) PROVE <<x, rest[k]>> \in B
      <4>1. k \in 1..(n - 1) /\ ~(e >= k)
        BY <1>1, <3>2
      <4> QED  BY <3>1, <4>1
    <3>5. e \in 0..(n - 1)
      BY <1>1, <3>2
    <3> QED  BY <3>3, <3>4, <3>5
  <2> QED  BY <2>1, <2>2
<1>3. later = (e + 1)..(n - 1)
  <2>1. ASSUME NEW k \in 1..(n - 1) PROVE <<x, rest[k]>> \in B <=> k \in (e + 1)..(n - 1)
    <3>1. k \in 1..e \/ k \in (e + 1)..(n - 1)
      BY <1>1
    <3> QED  BY <1>1, <1>2, <3>1
  <2>2. (e + 1)..(n - 1) \subseteq 1..(n - 1)
    BY <1>1
  <2> QED  BY <2>1, <2>2
<1>4. at = e + 1
  <2>1. e + 1 \in Int /\ n - 1 \in Int
    BY <1>1
  <2>2. Cardinality((e + 1)..(n - 1)) = IF e + 1 > n - 1 THEN 0 ELSE (n - 1) - (e + 1) + 1
    BY <2>1, FS_Interval
  <2>3. Cardinality(later) = n - 1 - e
    <3> DEFINE c == Cardinality((e + 1)..(n - 1))
    <3>1. c = IF e + 1 > n - 1 THEN 0 ELSE (n - 1) - (e + 1) + 1
      BY <2>2
    <3>2. Cardinality(later) = c
      BY <1>3
    <3> HIDE DEF c, later
    <3> QED  BY <1>1, <3>1, <3>2
  <2> HIDE DEF later
  <2> QED  BY <1>1, <2>3
<1> DEFINE front == SubSeq(rest, 1, e)
           back == SubSeq(rest, e + 1, n - 1)
           one == <<x>>
           more == front \o one \o back
<1>5. front \in Seq(S) /\ Len(front) = e /\ \A k \in 1..e : front[k] = rest[k]
  BY <1>1
<1>6. back \in Seq(S) /\ Len(back) = n - 1 - e /\ \A k \in 1..(n - 1 - e) : back[k] = rest[e + k]
  <2>1. back = [k \in 1..(n - 1 - e) |-> rest[e + 1 + k - 1]]
    BY <1>1
  <2>2. n - 1 - e \in Nat /\ \A k \in 1..(n - 1 - e) : e + 1 + k - 1 = e + k /\ e + k \in 1..(n - 1)
    BY <1>1
  <2> HIDE DEF back
  <2>3. back \in [1..(n - 1 - e) -> S]
    BY <1>1, <2>1, <2>2
  <2> QED  BY <2>1, <2>2, <2>3
<1>7. one \in Seq(S) /\ Len(one) = 1 /\ one[1] = x
  OBVIOUS
<1> HIDE DEF front, back, one, later
<1> DEFINE left == front \o one
<1>8. /\ left \in Seq(S) /\ Len(left) = e + 1 /\ left[e + 1] = x
      /\ \A k \in 1..e : left[k] = rest[k]
  <2>1. e \in Nat
    BY <1>1
  <2>2. left \in Seq(S) /\ Len(left) = e + 1 /\ left[e + 1] = one[1] /\ \A k \in 1..e : left[k] = front[k]
    <3>1. /\ left \in Seq(S) /\ Len(left) = Len(front) + Len(one)
          /\ \A k \in 1..(Len(front) + Len(one)) : left[k] = IF k <= Len(front) THEN front[k] ELSE one[k - Len(front)]
      <4> HIDE DEF left
      <4>1. front \in Seq(S) /\ one \in Seq(S)
        BY <1>5, <1>7
      <4> QED  BY <4>1, ConcatProperties DEF left
    <3>2. Len(front) = e /\ Len(one) = 1 /\ e + 1 \in 1..(e + 1) /\ ~(e + 1 <= e) /\ e + 1 - e = 1
      BY <1>5, <1>7, <2>1
    <3>3. \A k \in 1..e : k \in 1..(e + 1) /\ k <= e
      BY <2>1
    <3> HIDE DEF left
    <3> QED  BY <3>1, <3>2, <3>3
  <2> QED  BY <1>5, <1>7, <2>2
<1> HIDE DEF left
<1>9. /\ left \o back \in Seq(S) /\ Len(left \o back) = n
      /\ \A k \in 1..(e + 1) : (left \o back)[k] = left[k]
      /\ \A k \in (e + 2)..n : (left \o back)[k] = back[k - (e + 1)]
  <2>1. e + 1 + (n - 1 - e) = n /\ e + 1 \in Nat
    BY <1>1
  <2>2. e \in Nat /\ n - 1 - e \in Nat
    BY <1>1
  <2> DEFINE m == n - 1 - e
             h == e + 1
  <2>3. left \in Seq(S) /\ Len(left) = h /\ back \in Seq(S) /\ Len(back) = m /\ h + m = n /\ m \in Nat /\ h \in Nat
    BY <1>6, <1>8, <2>1, <2>2
  <2>4. h + 1 = e + 2
    BY <2>2
  <2> HIDE DEF m, h
  <2>5. /\ left \o back \in Seq(S) /\ Len(left \o back) = n
        /\ \A k \in 1..h : (left \o back)[k] = left[k]
        /\ \A k \in (h + 1)..n : (left \o back)[k] = back[k - h]
    BY <2>3
  <2> QED  BY <2>4, <2>5 DEF h
<1> DEFINE all == left \o back
<1>10. /\ \A k \in 1..e : all[k] = rest[k]
       /\ all[e + 1] = x
       /\ \A k \in (e + 2)..n : all[k] = rest[k - 1]
  <2>1. /\ \A k \in 1..e : k \in 1..(e + 1)
        /\ e + 1 \in 1..(e + 1)
        /\ \A k \in (e + 2)..n : k - (e + 1) \in 1..(n - 1 - e) /\ e + (k - (e + 1)) = k - 1
    BY <1>1
  <2>2. ASSUME NEW k \in (e + 2)..n PROVE all[k] = rest[k - 1]
    <3>1. all[k] = back[k - (e + 1)]
      BY <1>9
    <3>2. back[k - (e + 1)] = rest[e + (k - (e + 1))]
      BY <1>6, <2>1
    <3> QED  BY <2>1, <3>1, <3>2
  <2>3. \A k \in 1..(e + 1) : all[k] = left[k]
    BY <1>9
  <2> HIDE DEF all
  <2> QED  BY <1>8, <2>1, <2>2, <2>3
<1>11. all \in Seq(S) /\ Len(all) = n
  BY <1>9
<1> HIDE DEF all
<1>12. ASSUME NEW i \in 1..n, NEW j \in 1..n, i <= j PROVE <<all[j], all[i]>> \notin B
  <2>0. rest \in Seq(S) /\ \A y, z \in S : <<y, z>> \in B => <<z, y>> \notin B
    BY DEF OrderOn
  <2>1. \A k \in 1..n : k \in 1..e \/ k = e + 1 \/ (k \in (e + 2)..n /\ k - 1 \in (e + 1)..(n - 1))
    BY <1>1
  <2>2. CASE i \in 1..e /\ j \in 1..e
    <3>1. <<rest[j], rest[i]>> \notin B
      BY <1>1, <1>12, <2>2 DEF OrderedBy
    <3> QED  BY <3>1, <2>2, <1>10
  <2>3. CASE i \in 1..e /\ j = e + 1
    BY <1>2, <1>10, <2>3
  <2>4. CASE i \in 1..e /\ j \in (e + 2)..n
    <3>1. i \in 1..(n - 1) /\ j - 1 \in 1..(n - 1) /\ i <= j - 1
      BY <1>1, <2>4
    <3>2. <<rest[j - 1], rest[i]>> \notin B
      BY <3>1 DEF OrderedBy
    <3>3. all[i] = rest[i] /\ all[j] = rest[j - 1]
      BY <1>10, <2>4
    <3> QED  BY <3>2, <3>3
  <2>5. CASE i = e + 1 /\ j = e + 1
    BY <1>10, <2>0, <2>5
  <2>6. CASE i = e + 1 /\ j \in (e + 2)..n
    <3>1. <<x, rest[j - 1]>> \in B /\ rest[j - 1] \in S
      BY <1>1, <1>2, <2>1, <2>6
    <3> QED  BY <3>1, <1>10, <2>0, <2>6
  <2>7. CASE i \in (e + 2)..n
    <3>1. j \in (e + 2)..n /\ i - 1 \in 1..(n - 1) /\ j - 1 \in 1..(n - 1) /\ i - 1 <= j - 1
      BY <1>1, <1>12, <2>7
    <3>2. <<rest[j - 1], rest[i - 1]>> \notin B
      BY <3>1 DEF OrderedBy
    <3> QED  BY <3>1, <3>2, <1>10, <2>7
  <2>8. i \in 1..e => (j \in 1..e \/ j = e + 1 \/ j \in (e + 2)..n)
    BY <2>1
  <2>9. i = e + 1 => (j = e + 1 \/ j \in (e + 2)..n)
    BY <1>1, <1>12
  <2> QED  BY <2>1, <2>2, <2>3, <2>4, <2>5, <2>6, <2>7, <2>8, <2>9
<1>13. OrderedBy(B, all)
  BY <1>11, <1>12 DEF OrderedBy
<1>14. SubSeq(rest, 1, at - 1) \o <<x>> \o SubSeq(rest, at, n - 1) = all
  <2>1. at - 1 = e
    BY <1>1, <1>4
  <2> HIDE DEF at
  <2> QED  BY <1>4, <2>1 DEF all, left, front, back, one
<1> HIDE DEF at
<1>15. PutIn(rest, x, n, B) = all
  BY <1>14 DEF PutIn, at, later
<1>16. ASSUME NEW y PROVE (\E k \in 1..n : all[k] = y) <=> y = x \/ \E k \in 1..(n - 1) : rest[k] = y
  <2>1. \A k \in 1..n : k \in 1..e \/ k = e + 1 \/ k \in (e + 2)..n
    BY <1>1
  <2>2. /\ \A k \in 1..e : k \in 1..(n - 1) /\ k \in 1..n
        /\ \A k \in (e + 2)..n : k \in 1..n /\ k - 1 \in 1..(n - 1)
        /\ e + 1 \in 1..n
    BY <1>1
  <2>3. \A k \in 1..(n - 1) : k \in 1..e \/ (k + 1 \in (e + 2)..n /\ k + 1 - 1 = k)
    BY <1>1
  <2>4. ASSUME NEW k \in 1..n, all[k] = y PROVE y = x \/ \E m \in 1..(n - 1) : rest[m] = y
    BY <1>10, <2>1, <2>2, <2>4
  <2>5. ASSUME NEW k \in 1..(n - 1), rest[k] = y PROVE \E m \in 1..n : all[m] = y
    <3>1. CASE k \in 1..e
      BY <1>10, <2>2, <2>5, <3>1
    <3>2. CASE k + 1 \in (e + 2)..n /\ k + 1 - 1 = k
      <4>1. all[k + 1] = rest[k + 1 - 1] /\ k + 1 \in 1..n
        BY <1>10, <2>2, <3>2
      <4> QED  BY <2>5, <3>2, <4>1
    <3> QED  BY <2>3, <3>1, <3>2
  <2>6. ASSUME y = x PROVE \E m \in 1..n : all[m] = y
    BY <1>10, <2>2, <2>6
  <2> QED  BY <2>4, <2>5, <2>6
<1> QED  BY <1>11, <1>13, <1>15, <1>16 DEF Placed

\* The sequence that putting each member in its place makes.
SortSteps(g, s, B) ==
    g = [n \in 0..Len(s) |-> IF n = 0 THEN << >> ELSE PutIn(g[n - 1], s[n], n, B)]

\* Of the first n members, in order.
SortOf(r, s, n, S, B) ==
    /\ r \in Seq(S) /\ Len(r) = n /\ OrderedBy(B, r)
    /\ \A y : (\E k \in 1..n : r[k] = y) <=> \E k \in 1..n : s[k] = y

LEMMA SortExists ==
    ASSUME NEW S, NEW B, OrderOn(B, S), NEW s \in Seq(S)
    PROVE  \E g : /\ SortSteps(g, s, B) /\ DOMAIN g = 0..Len(s) /\ g[0] = << >>
                  /\ \A n \in 0..Len(s) : SortOf(g[n], s, n, S, B)
<1> DEFINE N == Len(s)
           Put(rest, n) == PutIn(rest, s[n], n, B)
           Fine(r, n) == SortOf(r, s, n, S, B)
           step == [n \in 1..N |-> [r \in Seq(S) |-> IF Fine(r, n - 1) THEN Put(r, n) ELSE << >>]]
<1>1. N \in Nat /\ \A i \in 1..N : s[i] \in S /\ i \in 0..N /\ i # 0 /\ i - 1 \in 0..N
  OBVIOUS
<1>2. ASSUME NEW n \in 1..N, NEW r, Fine(r, n - 1) PROVE Fine(Put(r, n), n) /\ Put(r, n) \in Seq(S)
  <2>1. n \in Nat \ {0} /\ s[n] \in S
    BY <1>1
  <2> DEFINE put == Put(r, n)
             x == s[n]
  <2>2. r \in Seq(S) /\ Len(r) = n - 1 /\ OrderedBy(B, r) /\ x \in S
        /\ \A y : (\E k \in 1..(n - 1) : r[k] = y) <=> \E k \in 1..(n - 1) : s[k] = y
    BY <1>2, <2>1 DEF SortOf
  <2> HIDE DEF x
  <2>3. Placed(PutIn(r, x, n, B), r, x, n, S, B)
    BY <2>1, <2>2, PutOrdered
  <2>4. put = PutIn(r, x, n, B)
    BY DEF x
  <2> HIDE DEF put
  <2>5. ASSUME NEW y PROVE (\E k \in 1..n : put[k] = y) <=> \E k \in 1..n : s[k] = y
    <3>1. (\E k \in 1..n : put[k] = y) <=> y = s[n] \/ \E k \in 1..(n - 1) : s[k] = y
      BY <2>2, <2>3, <2>4 DEF x, Placed
    <3>2. n \in 1..n /\ \A k \in 1..n : k = n \/ k \in 1..(n - 1)
      BY <1>1
    <3>3. \A k \in 1..(n - 1) : k \in 1..n
      BY <1>1
    <3> QED  BY <3>1, <3>2, <3>3
  <2>6. put \in Seq(S) /\ Len(put) = n /\ OrderedBy(B, put)
    BY <2>3, <2>4 DEF Placed
  <2> QED  BY <2>5, <2>6 DEF SortOf, put
<1> HIDE DEF Put, Fine
<1>3. step \in [1..N -> [Seq(S) -> Seq(S)]]
  <2>1. \A n \in 1..N : \A r \in Seq(S) : (IF Fine(r, n - 1) THEN Put(r, n) ELSE << >>) \in Seq(S)
    BY <1>2
  <2> QED  BY <2>1
<1>4. << >> \in Seq(S)
  OBVIOUS
<1> HIDE DEF step
<1>5. PICK g : Follows(g, N, Seq(S), << >>, step)
  BY <1>1, <1>3, <1>4, Recursion
<1> DEFINE T == {n \in 0..N : Fine(g[n], n)}
<1>6. g[0] = << >> /\ g \in [0..N -> Seq(S)]
  BY <1>5 DEF Follows
<1>7. 0 \in T
  <2>1. Fine(<< >>, 0)
    <3>1. 1..0 = {} /\ Len(<< >>) = 0
      OBVIOUS
    <3> QED  BY <1>4, <3>1 DEF Fine, SortOf, OrderedBy
  <2> QED  BY <1>1, <1>6, <2>1
<1>8. ASSUME NEW n \in 1..N, Fine(g[n - 1], n - 1) PROVE g[n] = Put(g[n - 1], n) /\ Fine(g[n], n)
  <2>1. g[n] = step[n][g[n - 1]] /\ g[n - 1] \in Seq(S)
    BY <1>1, <1>5 DEF Follows
  <2>2. g[n] = Put(g[n - 1], n)
    BY <1>8, <2>1 DEF step
  <2> QED  BY <1>2, <1>8, <2>2
<1>9. \A n \in 0..N : n \in T
  <2>1. ASSUME NEW n \in 1..N, n - 1 \in T PROVE n \in T
    BY <1>1, <1>8, <2>1
  <2> HIDE DEF T
  <2> QED  BY <1>1, <1>7, <2>1, UpTo
<1> DEFINE next(n) == IF n = 0 THEN << >> ELSE Put(g[n - 1], n)
<1>10. ASSUME NEW n \in 0..N PROVE g[n] = next(n)
  <2>1. n = 0 \/ n \in 1..N
    BY <1>1
  <2> QED  BY <1>1, <1>6, <1>8, <1>9, <2>1
<1>11. g = [n \in 0..N |-> next(n)]
  <2> HIDE DEF next
  <2> QED  BY <1>6, <1>10
<1>12. SortSteps(g, s, B)
  BY <1>11 DEF SortSteps, Put
<1> QED  BY <1>6, <1>9, <1>12 DEF Fine

-----------------------------------------------------------------------------
(* Sums *)

\* The sums of the first terms of a sequence.
Sums(g, w, N) == g \in [0..N -> Nat] /\ g[0] = 0 /\ \A n \in 1..N : g[n] = g[n - 1] + w[n]

LEMMA SumsExist == ASSUME NEW N \in Nat, NEW w \in [1..N -> Nat] PROVE \E g : Sums(g, w, N)
<1> DEFINE step == [i \in 1..N |-> [r \in Nat |-> r + w[i]]]
<1>1. step \in [1..N -> [Nat -> Nat]]
  OBVIOUS
<1> HIDE DEF step
<1>2. PICK g : Follows(g, N, Nat, 0, step)
  BY <1>1, Recursion
<1>3. ASSUME NEW n \in 1..N PROVE g[n] = g[n - 1] + w[n]
  <2>1. g[n - 1] \in Nat /\ g[n] = step[n][g[n - 1]]
    BY <1>2 DEF Follows
  <2> QED  BY <2>1 DEF step
<1> QED  BY <1>2, <1>3 DEF Follows, Sums

LEMMA SumsAgree ==
    ASSUME NEW N \in Nat, NEW w, NEW g, NEW h, Sums(g, w, N), Sums(h, w, N)
    PROVE  g[N] = h[N]
<1> DEFINE T == {n \in 0..N : g[n] = h[n]}
<1>1. 0 \in T
  BY DEF Sums
<1>2. ASSUME NEW n \in 1..N, n - 1 \in T PROVE n \in T
  BY <1>2 DEF Sums
<1>3. \A n \in 0..N : n \in T
  <2> HIDE DEF T
  <2> QED  BY <1>1, <1>2, UpTo
<1> QED  BY <1>3

\* The sum of a sequence of numbers.
Sum(w, N) == CHOOSE x : \E g : Sums(g, w, N) /\ x = g[N]

LEMMA SumIs == ASSUME NEW N \in Nat, NEW w, NEW g, Sums(g, w, N) PROVE Sum(w, N) = g[N] /\ g[N] \in Nat
<1> DEFINE P(x) == \E h : Sums(h, w, N) /\ x = h[N]
<1>1. P(g[N]) /\ \A x : P(x) => x = g[N]
  BY SumsAgree
<1> HIDE DEF P
<1>2. (CHOOSE x : P(x)) = g[N]
  BY <1>1
<1>3. Sum(w, N) = g[N]
  BY <1>2 DEF Sum, P
<1>4. N \in 0..N
  OBVIOUS
<1> QED  BY <1>3, <1>4 DEF Sums

LEMMA SumStep ==
    ASSUME NEW N \in Nat, NEW w \in [1..N -> Nat]
    PROVE  /\ Sum(w, 0) = 0
           /\ \A n \in 0..N : Sum(w, n) \in Nat
           /\ \A n \in 1..N : Sum(w, n) = Sum(w, n - 1) + w[n]
<1>1. PICK g : Sums(g, w, N)
  BY SumsExist
<1>2. ASSUME NEW n \in 0..N PROVE Sum(w, n) = g[n] /\ g[n] \in Nat
  <2> DEFINE h == [i \in 0..n |-> g[i]]
  <2>1. Sums(h, w, n) /\ h[n] = g[n]
    <3>1. \A i \in 0..n : i \in 0..N
      OBVIOUS
    <3>2. \A i \in 1..n : i \in 1..N /\ i \in 0..n /\ i - 1 \in 0..n /\ h[i] = g[i] /\ h[i - 1] = g[i - 1]
      OBVIOUS
    <3>3. h \in [0..n -> Nat] /\ h[0] = 0 /\ h[n] = g[n]
      BY <1>1, <3>1 DEF Sums
    <3> HIDE DEF h
    <3> QED  BY <1>1, <3>2, <3>3 DEF Sums
  <2> HIDE DEF h
  <2>2. n \in Nat
    OBVIOUS
  <2> QED  BY <2>1, <2>2, SumIs
<1>3. 0 \in 0..N /\ \A n \in 1..N : n \in 0..N /\ n - 1 \in 0..N
  OBVIOUS
<1> QED  BY <1>1, <1>2, <1>3 DEF Sums

\* A fold over the indices adds them up.
SumFold(it, w, N) ==
    it = [c \in SUBSET (1..N) |-> IF c = {} THEN 0 ELSE LET x == Max(c) IN it[c \ {x}] + w[x]]

LEMMA FoldSums ==
    ASSUME NEW N \in Nat, NEW w \in [1..N -> Nat]
    PROVE  (CHOOSE it : SumFold(it, w, N))[1..N] = Sum(w, N)
<1> DEFINE step == [i \in 1..N |-> [r \in Nat |-> r + w[i]]]
<1>1. step \in [1..N -> [Nat -> Nat]]
  OBVIOUS
<1> HIDE DEF step
<1>2. PICK iter : FoldsOver(iter, N, Nat, 0, step)
  BY <1>1, FoldExists
<1>3. SumFold(iter, w, N)
  <2> DEFINE next(c) == IF c = {} THEN 0 ELSE LET x == Max(c) IN iter[c \ {x}] + w[x]
  <2>1. ASSUME NEW c \in SUBSET (1..N) PROVE iter[c] = next(c)
    <3>1. CASE c = {}
      BY <1>2, <3>1 DEF FoldsOver
    <3>2. CASE c # {}
      <4> DEFINE x == Max(c)
      <4>1. x \in 1..N /\ c \ {x} \in SUBSET (1..N)
        BY <3>2, MaxIsIn
      <4>2. iter[c \ {x}] \in Nat /\ iter[c] = step[x][iter[c \ {x}]]
        BY <1>2, <3>2, <4>1 DEF FoldsOver
      <4> HIDE DEF x
      <4>3. iter[c] = iter[c \ {x}] + w[x]
        BY <4>1, <4>2 DEF step
      <4> QED  BY <3>2, <4>3 DEF x
    <3> QED  BY <3>1, <3>2
  <2>2. iter = [c \in SUBSET (1..N) |-> next(c)]
    <3> HIDE DEF next
    <3> QED  BY <1>2, <2>1 DEF FoldsOver
  <2> QED  BY <2>2 DEF SumFold
<1>4. ASSUME NEW it, SumFold(it, w, N) PROVE it[1..N] = Sum(w, N)
  <2> DEFINE T == {n \in 0..N : it[1..n] = Sum(w, n)}
  <2>1. 0 \in T
    <3>1. it[1..0] = 0
      <4>1. 1..0 = {} /\ {} \in SUBSET (1..N)
        OBVIOUS
      <4> QED  BY <4>1, <1>4 DEF SumFold
    <3> QED  BY <3>1, SumStep
  <2>2. ASSUME NEW n \in 1..N, n - 1 \in T PROVE n \in T
    <3>1. 1..n # {} /\ Max(1..n) = n /\ (1..n) \ {n} = 1..(n - 1) /\ 1..n \in SUBSET (1..N)
      <4>1. n \in Nat /\ n # 0
        OBVIOUS
      <4>2. 1..n \in SUBSET (1..N)
        OBVIOUS
      <4> QED  BY <4>1, <4>2, TopIndex
    <3>2. it[1..n] = it[1..(n - 1)] + w[n]
      BY <3>1, <1>4 DEF SumFold
    <3>3. Sum(w, n) = Sum(w, n - 1) + w[n]
      BY SumStep
    <3>4. it[1..(n - 1)] = Sum(w, n - 1)
      BY <2>2
    <3> QED  BY <3>2, <3>3, <3>4
  <2>3. \A n \in 0..N : n \in T
    <3> HIDE DEF T
    <3> QED  BY <2>1, <2>2, UpTo
  <2> QED  BY <2>3
<1> QED  BY <1>3, <1>4

LEMMA SumLeast ==
    ASSUME NEW N \in Nat, NEW v \in [1..N -> Nat], NEW w \in [1..N -> Nat], \A n \in 1..N : v[n] <= w[n]
    PROVE  Sum(v, N) <= Sum(w, N) /\ \A n \in 1..N : w[n] <= Sum(w, N)
<1> DEFINE T == {n \in 0..N : Sum(v, n) <= Sum(w, n) /\ \A i \in 1..n : w[i] <= Sum(w, n)}
<1>1. 0 \in T
  BY SumStep, SMTT(40)
<1>2. ASSUME NEW n \in 1..N, n - 1 \in T PROVE n \in T
  <2>1. /\ Sum(v, n) = Sum(v, n - 1) + v[n] /\ Sum(w, n) = Sum(w, n - 1) + w[n]
        /\ v[n] \in Nat /\ w[n] \in Nat /\ v[n] <= w[n]
    BY SumStep
  <2>2. Sum(v, n - 1) \in Nat /\ Sum(w, n - 1) \in Nat
    <3>1. n - 1 \in 0..N
      OBVIOUS
    <3> QED  BY <3>1, SumStep
  <2>3. Sum(v, n) <= Sum(w, n)
    BY <1>2, <2>1, <2>2
  <2>4. ASSUME NEW i \in 1..n PROVE w[i] <= Sum(w, n)
    <3>1. CASE i = n
      BY <3>1, <2>1, <2>2
    <3>2. CASE i \in 1..(n - 1)
      <4>1. w[i] <= Sum(w, n - 1) /\ w[i] \in Nat
        BY <1>2, <3>2
      <4> QED  BY <4>1, <2>1, <2>2, SMTT(40)
    <3> QED  BY <3>1, <3>2
  <2> QED  BY <2>3, <2>4
<1>3. \A n \in 0..N : n \in T
  <2> HIDE DEF T
  <2> QED  BY <1>1, <1>2, UpTo
<1>4. N \in T
  BY <1>3
<1> QED  BY <1>4

LEMMA SumZero ==
    ASSUME NEW N \in Nat, NEW w \in [1..N -> Nat], \A n \in 1..N : w[n] = 0
    PROVE  Sum(w, N) = 0
<1> DEFINE T == {n \in 0..N : Sum(w, n) = 0}
<1>1. 0 \in T
  BY SumStep
<1>2. ASSUME NEW n \in 1..N, n - 1 \in T PROVE n \in T
  <2>1. Sum(w, n) = Sum(w, n - 1) + w[n]
    BY SumStep
  <2> QED  BY <1>2, <2>1
<1>3. \A n \in 0..N : n \in T
  <2> HIDE DEF T
  <2> QED  BY <1>1, <1>2, UpTo
<1> QED  BY <1>3

\* The terms of some places only.
Only(w, N, A) == [n \in 1..N |-> IF n \in A THEN w[n] ELSE 0]

LEMMA OnlyTyped == ASSUME NEW N \in Nat, NEW w \in [1..N -> Nat], NEW A PROVE Only(w, N, A) \in [1..N -> Nat]
  BY DEF Only

LEMMA SumWithout ==
    ASSUME NEW N \in Nat, NEW w \in [1..N -> Nat], NEW A, NEW x \in 1..N, x \in A
    PROVE  Sum(Only(w, N, A), N) = w[x] + Sum(Only(w, N, A \ {x}), N)
<1> DEFINE u == Only(w, N, A)
           v == Only(w, N, A \ {x})
           T == {n \in 0..N : Sum(u, n) = Sum(v, n) + (IF x <= n THEN w[x] ELSE 0)}
<1>1. u \in [1..N -> Nat] /\ v \in [1..N -> Nat]
  BY OnlyTyped
<1>2. \A n \in 1..N : u[n] = IF n = x THEN v[n] + w[n] ELSE v[n]
  BY DEF Only
<1> HIDE DEF u, v
<1>3. 0 \in T
  <2>1. Sum(u, 0) = 0 /\ Sum(v, 0) = 0
    BY <1>1, SumStep
  <2>2. ~(x <= 0)
    OBVIOUS
  <2> QED  BY <2>1, <2>2
<1>4. ASSUME NEW n \in 1..N, n - 1 \in T PROVE n \in T
  <2>1. Sum(u, n) = Sum(u, n - 1) + u[n] /\ Sum(v, n) = Sum(v, n - 1) + v[n]
    BY <1>1, SumStep
  <2>2. Sum(u, n - 1) \in Nat /\ Sum(v, n - 1) \in Nat /\ v[n] \in Nat /\ w[n] \in Nat /\ w[x] \in Nat
    <3>1. n - 1 \in 0..N
      OBVIOUS
    <3> QED  BY <1>1, <3>1, SumStep
  <2>3. CASE n = x
    <3>1. Sum(u, n - 1) = Sum(v, n - 1)
      <4>1. ~(x <= n - 1)
        BY <2>3
      <4> QED  BY <1>4, <2>2, <4>1
    <3>2. u[n] = v[n] + w[x]
      BY <1>2, <2>3
    <3>3. Sum(u, n) = Sum(v, n) + w[x]
      BY <2>1, <2>2, <3>1, <3>2
    <3> QED  BY <2>3, <3>3
  <2>4. CASE n # x
    <3>1. u[n] = v[n] /\ (x <= n <=> x <= n - 1)
      BY <1>2, <2>4
    <3>2. Sum(u, n) = Sum(v, n) + (IF x <= n THEN w[x] ELSE 0)
      BY <1>4, <2>1, <2>2, <3>1
    <3> QED  BY <3>2
  <2> QED  BY <2>3, <2>4
<1>5. \A n \in 0..N : n \in T
  <2> HIDE DEF T
  <2> QED  BY <1>3, <1>4, UpTo
<1>6. Sum(u, N) = Sum(v, N) + w[x]
  BY <1>5
<1>7. Sum(v, N) \in Nat /\ w[x] \in Nat
  <2>1. N \in 0..N
    OBVIOUS
  <2> QED  BY <1>1, <2>1, SumStep
<1> QED  BY <1>6, <1>7 DEF u, v

\* A fold over a set adds them up in any order.
SetFold(it, w, A) ==
    it = [c \in SUBSET A |-> IF c = {} THEN 0 ELSE LET x == CHOOSE x \in c : TRUE IN w[x] + it[c \ {x}]]

LEMMA SetSums ==
    ASSUME NEW N \in Nat, NEW w \in [1..N -> Nat], NEW A \in SUBSET (1..N)
    PROVE  (CHOOSE it : SetFold(it, w, A))[A] = Sum(Only(w, N, A), N)
<1> DEFINE S(c) == Sum(Only(w, N, c), N)
<1>1. S({}) = 0
  <2>1. Only(w, N, {}) \in [1..N -> Nat] /\ \A n \in 1..N : Only(w, N, {})[n] = 0
    BY OnlyTyped DEF Only
  <2> QED  BY <2>1, SumZero
<1>2. ASSUME NEW c \in SUBSET A, c # {}, NEW x, x = CHOOSE y \in c : TRUE
      PROVE  x \in c /\ S(c) = w[x] + S(c \ {x})
  <2>1. x \in c /\ x \in 1..N
    BY <1>2
  <2> QED  BY <2>1, SumWithout
<1> HIDE DEF S
<1>3. \E it : SetFold(it, w, A)
  <2> DEFINE it == [c \in SUBSET A |-> S(c)]
             next(c) == IF c = {} THEN 0 ELSE LET x == CHOOSE x \in c : TRUE IN w[x] + it[c \ {x}]
  <2>1. ASSUME NEW c \in SUBSET A PROVE it[c] = next(c)
    <3>1. CASE c = {}
      BY <1>1, <3>1
    <3>2. CASE c # {}
      <4> DEFINE x == CHOOSE x \in c : TRUE
      <4>1. S(c) = w[x] + S(c \ {x})
        BY <1>2, <3>2
      <4>2. it[c] = S(c) /\ it[c \ {x}] = S(c \ {x})
        OBVIOUS
      <4> HIDE DEF it
      <4> QED  BY <3>2, <4>1, <4>2
    <3> QED  BY <3>1, <3>2
  <2>2. it = [c \in SUBSET A |-> next(c)]
    <3>1. it = [c \in SUBSET A |-> it[c]]
      OBVIOUS
    <3> HIDE DEF it, next
    <3> QED  BY <2>1, <3>1
  <2> HIDE DEF it
  <2> QED  BY <2>2 DEF SetFold
<1>4. ASSUME NEW it, SetFold(it, w, A) PROVE it[A] = S(A)
  <2> DEFINE T == {n \in Nat : \A c \in SUBSET A : Cardinality(c) = n => it[c] = S(c)}
  <2>0. IsFiniteSet(A)
    <3>1. IsFiniteSet(1..N)
      BY FS_Interval
    <3> QED  BY <3>1, FS_Subset
  <2>1. \A c \in SUBSET A : IsFiniteSet(c) /\ Cardinality(c) \in Nat
    BY <2>0, FS_Subset, FS_CardinalityType
  <2>2. it[{}] = 0 /\ \A c \in SUBSET A : c # {} =>
            it[c] = w[CHOOSE x \in c : TRUE] + it[c \ {CHOOSE x \in c : TRUE}]
    BY <1>4 DEF SetFold
  <2>3. 0 \in T
    <3>1. \A c \in SUBSET A : Cardinality(c) = 0 => c = {}
      BY <2>1, FS_EmptySet
    <3> QED  BY <1>1, <2>2, <3>1
  <2>4. ASSUME NEW n \in Nat, n \in T PROVE n + 1 \in T
    <3>1. ASSUME NEW c \in SUBSET A, Cardinality(c) = n + 1 PROVE it[c] = S(c)
      <4> DEFINE x == CHOOSE x \in c : TRUE
      <4>1. c # {}
        BY <3>1, FS_EmptySet
      <4>2. x \in c /\ S(c) = w[x] + S(c \ {x})
        BY <1>2, <4>1
      <4>3. it[c] = w[x] + it[c \ {x}]
        BY <2>2, <4>1
      <4> HIDE DEF x
      <4>4. Cardinality(c \ {x}) = n /\ c \ {x} \in SUBSET A
        <5>1. Cardinality(c \ {x}) = Cardinality(c) - 1
          BY <2>1, <4>2, FS_RemoveElement
        <5>2. n + 1 - 1 = n
          OBVIOUS
        <5>3. c \ {x} \in SUBSET A
          OBVIOUS
        <5> QED  BY <3>1, <5>1, <5>2, <5>3
      <4>5. it[c \ {x}] = S(c \ {x})
        BY <2>4, <4>4
      <4> QED  BY <4>2, <4>3, <4>5
    <3> QED  BY <3>1
  <2>5. \A n \in Nat : n \in T
    <3> HIDE DEF T
    <3> QED  BY <2>3, <2>4, FromZero
  <2>6. A \in SUBSET A
    OBVIOUS
  <2> QED  BY <2>1, <2>5, <2>6
<1>5. (CHOOSE it : SetFold(it, w, A))[A] = S(A)
  BY <1>3, <1>4
<1> QED  BY <1>5 DEF S

\* The terms of two sets that share no place make up those of both.
LEMMA SumParts ==
    ASSUME NEW N \in Nat, NEW w \in [1..N -> Nat], NEW v \in [1..N -> Nat],
           NEW t \in [1..N -> Nat], \A n \in 1..N : t[n] = v[n] + w[n]
    PROVE  Sum(t, N) = Sum(v, N) + Sum(w, N)
<1> DEFINE T == {n \in 0..N : Sum(t, n) = Sum(v, n) + Sum(w, n)}
<1>1. 0 \in T
  <2>1. Sum(t, 0) = 0 /\ Sum(v, 0) = 0 /\ Sum(w, 0) = 0
    BY SumStep
  <2> QED  BY <2>1
<1>2. ASSUME NEW n \in 1..N, n - 1 \in T PROVE n \in T
  <2>1. /\ Sum(t, n) = Sum(t, n - 1) + t[n] /\ Sum(v, n) = Sum(v, n - 1) + v[n]
        /\ Sum(w, n) = Sum(w, n - 1) + w[n]
    BY SumStep
  <2>2. /\ Sum(t, n - 1) \in Nat /\ Sum(v, n - 1) \in Nat /\ Sum(w, n - 1) \in Nat
        /\ v[n] \in Nat /\ w[n] \in Nat /\ t[n] = v[n] + w[n]
    <3>1. n - 1 \in 0..N
      OBVIOUS
    <3> QED  BY <3>1, SumStep
  <2> QED  BY <1>2, <2>1, <2>2
<1>3. \A n \in 0..N : n \in T
  <2> HIDE DEF T
  <2> QED  BY <1>1, <1>2, UpTo
<1> QED  BY <1>3

-----------------------------------------------------------------------------
(* Remainders *)

LEMMA ModIs ==
    ASSUME NEW S \in Nat \ {0}, NEW x \in Int, NEW q \in Int, NEW r \in 0..(S - 1), x = S * q + r
    PROVE  x % S = r
<1> DEFINE p == x \div S
           m == x % S
<1>1. x \div S \in Int /\ x % S \in 0..(S - 1) /\ x = S * (x \div S) + (x % S)
  OBVIOUS
<1>2. p \in Int /\ m \in Int /\ 0 <= m /\ m < S /\ x = S * p + m
  BY <1>1
<1> HIDE DEF p, m
<1>3. S * p + m = S * q + r /\ r \in Int /\ 0 <= r /\ r < S /\ S \in Int
  BY <1>2
<1>4. CASE p = q
  BY <1>2, <1>3, <1>4 DEF m
<1>5. CASE p < q
  <2>1. S * q = S * p + S * (q - p)
    BY <1>2
  <2>2. S * (q - p) >= S
    BY <1>2, <1>5
  <2> QED  BY <1>2, <1>3, <2>1, <2>2
<1>6. CASE p > q
  <2>1. S * p = S * q + S * (p - q)
    BY <1>2
  <2>2. S * (p - q) >= S
    BY <1>2, <1>6
  <2> QED  BY <1>2, <1>3, <2>1, <2>2
<1> QED  BY <1>2, <1>4, <1>5, <1>6

LEMMA ModOf ==
    ASSUME NEW S \in Nat \ {0}, NEW x \in Int
    PROVE  x % S \in 0..(S - 1) /\ x \div S \in Int /\ x = S * (x \div S) + (x % S)
  OBVIOUS

\* What lies between two places is found from their numbers.
LEMMA ModBetween ==
    ASSUME NEW S \in Nat \ {0}, NEW a \in Int, NEW b \in Int, a - b \in 0..(S - 1)
    PROVE  ((a % S) - ((b % S) % S)) % S = a - b
<1> DEFINE p == a \div S
           q == b \div S
           m == a % S
           n == b % S
<1>1. p \in Int /\ q \in Int /\ m \in 0..(S - 1) /\ n \in 0..(S - 1) /\ a = S * p + m /\ b = S * q + n
  BY ModOf
<1> HIDE DEF p, q, m, n
<1>2. n % S = n
  <2>1. n \in Int /\ 0 \in Int /\ n = S * 0 + n
    BY <1>1
  <2> QED  BY <1>1, <2>1, ModIs
<1>3. m - n = S * (q - p) + (a - b) /\ m - n \in Int /\ q - p \in Int
  <2>1. m - n \in Int /\ q - p \in Int /\ S * p \in Int /\ S * q \in Int
    BY <1>1
  <2>2. S * (q - p) = S * q - S * p
    BY <1>1
  <2>3. S * (q - p) \in Int
    BY <2>1, <2>2
  <2> QED  BY <1>1, <2>1, <2>2, <2>3
<1>4. (m - n) % S = a - b
  BY <1>3, ModIs
<1> QED  BY <1>2, <1>4 DEF m, n

-----------------------------------------------------------------------------
(* Selecting from a sequence and from its image *)

LEMMA PickedMapped ==
    ASSUME NEW S, NEW s \in Seq(S), NEW t \in Seq(S), NEW f, NEW A,
           Len(t) = Len(s) /\ \A i \in 1..Len(s) : t[i] = f[s[i]] /\ (s[i] \in A <=> t[i] \in A)
    PROVE  /\ Len(Picked(t, A)) = Len(Picked(s, A))
           /\ \A i \in 1..Len(Picked(s, A)) : Picked(t, A)[i] = f[Picked(s, A)[i]]
<1> DEFINE N == Len(s)
<1>1. N \in Nat
  OBVIOUS
<1>2. PICK k : k \in [0..N -> Seq(S)] /\ Selection(k, s, A)
  BY SelectionExists
<1>3. PICK m : m \in [0..N -> Seq(S)] /\ Selection(m, t, A)
  BY SelectionExists
<1> DEFINE T == {n \in 0..N : Len(m[n]) = Len(k[n]) /\ \A i \in 1..Len(k[n]) : m[n][i] = f[k[n][i]]}
<1>4. 0 \in T
  <2>1. m[0] = << >> /\ k[0] = << >> /\ 0 \in 0..N
    BY <1>1, <1>2, <1>3 DEF Selection
  <2> QED  BY <2>1
<1>5. ASSUME NEW n \in 1..N, n - 1 \in T PROVE n \in T
  <2> DEFINE x == k[n - 1]
             y == m[n - 1]
  <2>1. n \in 0..N /\ n - 1 \in 0..N
    BY <1>1
  <2>2. x \in Seq(S) /\ y \in Seq(S) /\ s[n] \in S /\ t[n] \in S /\ t[n] = f[s[n]] /\ (s[n] \in A <=> t[n] \in A)
    <3>1. x \in Seq(S) /\ y \in Seq(S)
      BY <1>2, <1>3, <2>1
    <3>2. n \in 1..Len(s) /\ s[n] \in S /\ t[n] \in S
      OBVIOUS
    <3> QED  BY <3>1, <3>2
  <2>3. k[n] = (IF s[n] \in A THEN Append(x, s[n]) ELSE x) /\ m[n] = (IF t[n] \in A THEN Append(y, t[n]) ELSE y)
    BY <1>2, <1>3 DEF Selection
  <2>4. Len(y) = Len(x) /\ \A i \in 1..Len(x) : y[i] = f[x[i]]
    BY <1>5
  <2> HIDE DEF x, y
  <2>5. CASE s[n] \in A
    <3>1. /\ Len(Append(x, s[n])) = Len(x) + 1 /\ Append(x, s[n])[Len(x) + 1] = s[n]
          /\ \A i \in 1..Len(x) : Append(x, s[n])[i] = x[i]
      BY <2>2
    <3>2. /\ Len(Append(y, t[n])) = Len(y) + 1 /\ Append(y, t[n])[Len(y) + 1] = t[n]
          /\ \A i \in 1..Len(y) : Append(y, t[n])[i] = y[i]
      <4>1. y \in Seq(S) /\ t[n] \in S
        BY <2>2
      <4> DEFINE z == t[n]
      <4> HIDE DEF z
      <4>2. z \in S
        BY <4>1 DEF z
      <4>3. /\ Len(Append(y, z)) = Len(y) + 1 /\ Append(y, z)[Len(y) + 1] = z
            /\ \A i \in 1..Len(y) : Append(y, z)[i] = y[i]
        BY <4>1, <4>2
      <4> QED  BY <4>3 DEF z
    <3>3. Len(x) \in Nat /\ \A i \in 1..(Len(x) + 1) : i = Len(x) + 1 \/ i \in 1..Len(x)
      <4>1. Len(x) \in Nat
        BY <2>2
      <4> QED  BY <4>1
    <3>4. k[n] = Append(x, s[n]) /\ m[n] = Append(y, t[n])
      BY <2>2, <2>3, <2>5
    <3>5. Len(m[n]) = Len(k[n]) /\ Len(k[n]) = Len(x) + 1
      BY <2>4, <3>1, <3>2, <3>4
    <3>6. ASSUME NEW i \in 1..(Len(x) + 1) PROVE m[n][i] = f[k[n][i]]
      BY <2>2, <2>4, <3>1, <3>2, <3>3, <3>4
    <3> QED  BY <2>1, <3>5, <3>6
  <2>6. CASE s[n] \notin A
    BY <2>1, <2>2, <2>3, <2>4, <2>6
  <2> QED  BY <2>5, <2>6
<1>6. \A n \in 0..N : n \in T
  <2> HIDE DEF T
  <2> QED  BY <1>1, <1>4, <1>5, UpTo
<1>7. N \in T
  BY <1>1, <1>6
<1>8. Picked(s, A) = k[N] /\ Picked(t, A) = m[N]
  BY <1>1, <1>2, <1>3, PickedIs
<1> QED  BY <1>7, <1>8

\* A selection that everything passes changes nothing.
LEMMA PickedAll ==
    ASSUME NEW S, NEW s \in Seq(S), NEW A, \A i \in 1..Len(s) : s[i] \in A
    PROVE  Picked(s, A) = s
<1> DEFINE N == Len(s)
<1>1. N \in Nat
  OBVIOUS
<1>2. PICK k : k \in [0..N -> Seq(S)] /\ Selection(k, s, A)
  BY SelectionExists
<1> DEFINE T == {n \in 0..N : Len(k[n]) = n /\ \A i \in 1..n : k[n][i] = s[i]}
<1>3. 0 \in T
  <2>1. k[0] = << >> /\ 0 \in 0..N
    BY <1>1, <1>2 DEF Selection
  <2> QED  BY <2>1
<1>4. ASSUME NEW n \in 1..N, n - 1 \in T PROVE n \in T
  <2> DEFINE x == k[n - 1]
  <2>1. n \in 0..N /\ n - 1 \in 0..N
    BY <1>1
  <2>2. x \in Seq(S) /\ s[n] \in S /\ k[n] = Append(x, s[n])
    <3>1. x \in Seq(S) /\ s[n] \in S /\ s[n] \in A
      BY <1>2, <2>1
    <3>2. k[n] = IF s[n] \in A THEN Append(x, s[n]) ELSE x
      BY <1>2 DEF Selection
    <3> QED  BY <3>1, <3>2
  <2>3. Len(x) = n - 1 /\ \A i \in 1..(n - 1) : x[i] = s[i]
    BY <1>4
  <2> HIDE DEF x
  <2>4. Len(k[n]) = n - 1 + 1 /\ k[n][n - 1 + 1] = s[n] /\ \A i \in 1..(n - 1) : k[n][i] = x[i]
    BY <2>2, <2>3
  <2>5. n - 1 + 1 = n /\ \A i \in 1..n : i = n \/ i \in 1..(n - 1)
    BY <1>1
  <2> QED  BY <2>1, <2>3, <2>4, <2>5
<1>5. \A n \in 0..N : n \in T
  <2> HIDE DEF T
  <2> QED  BY <1>1, <1>3, <1>4, UpTo
<1>6. N \in T
  BY <1>1, <1>5
<1>7. Picked(s, A) = k[N] /\ k[N] \in Seq(S)
  BY <1>1, <1>2, PickedIs
<1> QED  BY <1>6, <1>7

=============================================================================
