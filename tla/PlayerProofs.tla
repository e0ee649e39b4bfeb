----------------------------- MODULE PlayerProofs -----------------------------
(* Theorems about Player, for all flows, gaps, speeds and numbers of acts.  *)
EXTENDS Player, TLAPS

USE PlayerConstants

\* The clamp of setTime: wherever it is sent, the clock stays on the time scale.
LEMMA ClampInRange ==
    ASSUME NEW s \in Interval, s.start <= s.end, NEW t \in Int
    PROVE  Clamp(s, t) \in s.start..s.end
  BY SMT DEF Clamp, Interval

\* Player's invariant: a skip needs a running interval and a pending timeout,
\* and both need that timeouts are well typed.
IInv == TypeOK /\ SkippingEnds

LEMMA OlderIsTyped ==
    ASSUME TypeOK, Due = {}
    PROVE  Older \subseteq [left: 0..SkipTicks, end: Int]
  <1>. SUFFICES ASSUME NEW t \in timeouts
                PROVE  [t EXCEPT !.left = @ - 1] \in [left: 0..SkipTicks, end: Int]
    BY DEF Older
  <1>1. t \in [left: 0..SkipTicks, end: Int] /\ t.left # 0
    BY DEF TypeOK, Due
  <1>. QED BY <1>1, SMT

LEMMA GapsAreIntervals ==
    ASSUME TypeOK, NEW d, NEW g \in InTheWay(d)
    PROVE  g \in Interval
  BY DEF TypeOK, InTheWay, nextCompressedAfter, CompressedAfter, FlowOrNone

LEMMA InitHolds == Init => IInv
  <1>. SUFFICES ASSUME Init PROVE IInv
    OBVIOUS
  <1>1. span \in Interval /\ clock \in span.start..span.end /\ acts \in 0..MaxUser
    BY SMT DEF Init, Interval
  <1>2. timeouts \subseteq [left: 0..SkipTicks, end: Int] /\ asked \subseteq Flow
    BY DEF Init
  <1>. QED BY <1>1, <1>2 DEF Init, IInv, TypeOK, SkippingEnds, FlowOrNone

\* Wall-clock steps keep the invariant.
LEMMA TimeHolds ==
    ASSUME IInv, Tick \/ Wait \/ \E t \in timeouts : Resume(t)
    PROVE  IInv'
  <1>. USE DEF IInv
  <1>0. span.start <= span.end /\ clock \in Int /\ span.start \in Int /\ span.end \in Int
    BY SMT DEF TypeOK, Interval
  <1>1. ASSUME Tick PROVE IInv'
    <2>1. timer /\ Due = {} /\ UNCHANGED <<page, selection, expandedGaps, acts>>
      BY <1>1 DEF Tick
    <2>2. Older \subseteq [left: 0..SkipTicks, end: Int]
      BY <2>1, OlderIsTyped
    <2>3. PICK d \in Delta : \/ \E g \in InTheWay(d) : BeginSkip(g)
                             \/ InTheWay(d) = {} /\ Advance(d)
      BY <1>1 DEF Tick
    <2>4. ASSUME NEW g \in InTheWay(d), BeginSkip(g) PROVE IInv'
      <3>1. g \in Interval BY GapsAreIntervals
      <3>2. clock' \in span.start..span.end
        BY <3>1, <2>4, <1>0, ClampInRange DEF BeginSkip, setTime, TypeOK, Interval
      <3>3. [left |-> SkipTicks, end |-> g.end] \in [left: 0..SkipTicks, end: Int]
        BY <3>1, SMT DEF Interval
      <3>. QED BY <2>1, <2>2, <2>4, <3>2, <3>3 DEF BeginSkip, TypeOK, SkippingEnds, page
    <2>5. ASSUME InTheWay(d) = {}, Advance(d) PROVE IInv'
      <3>1. clock' \in span.start..span.end
        <4>1. clock + d \in Int BY <1>0, SMT
        <4>. QED BY <4>1, <2>5, <1>0, ClampInRange DEF Advance, setTime, TypeOK
      <3>2. timer' \in BOOLEAN /\ skipping' \in BOOLEAN /\ timeouts' = Older
        BY <2>5 DEF Advance, stop, TypeOK
      <3>3. skipping' => timer' /\ timeouts' # {}
        <4>1. skipping => timeouts # {} BY DEF SkippingEnds
        <4>2. ASSUME NEW t \in timeouts PROVE timeouts' # {}
          <5>1. [t EXCEPT !.left = @ - 1] \in Older BY DEF Older
          <5>. QED BY <5>1, <3>2
        <4>3. timer BY <2>1
        <4>4. skipping' => skipping /\ timer'
          BY <2>5, <4>3 DEF Advance, stop
        <4>. QED BY <4>1, <4>2, <4>4
      <3>. QED BY <2>1, <2>2, <3>1, <3>2, <3>3 DEF TypeOK, SkippingEnds, page
    <2>. QED BY <2>3, <2>4, <2>5
  <1>2. ASSUME Wait PROVE IInv'
    <2>1. Older \subseteq [left: 0..SkipTicks, end: Int]
      BY <1>2, OlderIsTyped DEF Wait
    <2>. QED BY <1>2, <2>1 DEF Wait, TypeOK, SkippingEnds, page, player
  <1>3. ASSUME NEW t \in timeouts, Resume(t) PROVE IInv'
    <2>1. t.end \in Int BY DEF TypeOK
    <2>2. clock' \in span.start..span.end
      BY <1>3, <2>1, <1>0, ClampInRange DEF Resume, setTime, TypeOK
    <2>3. skipping' \in BOOLEAN /\ ~skipping'
      BY <1>3 DEF Resume, TypeOK, SkippingEnds
    <2>. QED BY <1>3, <2>2, <2>3 DEF Resume, TypeOK, SkippingEnds, page
  <1>. QED BY <1>1, <1>2, <1>3

\* Everything a user or a load does keeps the invariant.
LEMMA UserHolds ==
    ASSUME IInv, UserStep
    PROVE  IInv'
  <1>. USE DEF IInv
  <1>0. span.start <= span.end /\ clock \in Int /\ span \in Interval
    BY SMT DEF TypeOK, Interval
  <1>u. ASSUME User PROVE acts' \in 0..MaxUser
    BY <1>u, SMT DEF User, TypeOK
  <1>1. ASSUME Play PROVE IInv'
    <2>1. clock' \in span.start..span.end
      BY <1>1, <1>0, ClampInRange DEF Play, setTime, TypeOK, Interval
    <2>2. ~skipping' /\ skipping' \in BOOLEAN BY <1>1 DEF Play, TypeOK, SkippingEnds
    <2>. QED BY <1>1, <1>u, <2>1, <2>2 DEF Play, TypeOK, SkippingEnds, page
  <1>2. ASSUME Pause PROVE IInv'
    BY <1>2, <1>u DEF Pause, stop, TypeOK, SkippingEnds, page
  <1>3. ASSUME FullConversation PROVE IInv'
    BY <1>3, <1>u DEF FullConversation, TypeOK, SkippingEnds, page, player
  <1>4. ASSUME Unload PROVE IInv'
    BY <1>4, <1>u DEF Unload, stop, TypeOK, SkippingEnds, FlowOrNone
  <1>5. ASSUME NEW t \in Instant, Seek(t) PROVE IInv'
    <2>1. clock' \in span.start..span.end
      BY <1>5, <1>0, ClampInRange DEF Seek, setTime
    <2>. QED BY <1>5, <1>u, <2>1 DEF Seek, stop, TypeOK, SkippingEnds, page
  <1>6. ASSUME NEW a \in Instant, NEW b \in Instant, SelectPhase(a, b) PROVE IInv'
    <2>1. clock' \in span.start..span.end
      BY <1>6, <1>0, ClampInRange DEF SelectPhase, setTime
    <2>. QED BY <1>6, <1>u, <2>1 DEF SelectPhase, stop, TypeOK, SkippingEnds, page, Interval
  <1>7. ASSUME NEW a \in Instant, NEW b \in Instant, Drag(a, b) PROVE IInv'
    BY <1>7, <1>u DEF Drag, TypeOK, SkippingEnds, page, player, Interval
  <1>8. ASSUME NEW a \in Instant, NEW b \in Instant, Release(a, b) PROVE IInv'
    <2>1. clock' \in span.start..span.end
      BY <1>8, <1>0, ClampInRange DEF Release, setTime, TypeOK
    <2>2. selection' \in Interval \cup {None} BY <1>8 DEF Release, Interval
    <2>. QED BY <1>8, <1>u, <2>1, <2>2 DEF Release, TypeOK, SkippingEnds, page
  <1>9. ASSUME NEW g, ClickGap(g) PROVE IInv'
    BY <1>9, <1>u DEF ClickGap, TypeOK, SkippingEnds, page, player
  <1>10. ASSUME NEW f \in Flow, NEW built \in BOOLEAN, Build(f, built) PROVE IInv'
    <2>1. span' \in Interval /\ clock' \in span'.start..span'.end /\ able' \in BOOLEAN
      <3>1. CASE Span[f] = None BY <3>1, <1>10 DEF Build, TypeOK
      <3>2. CASE Span[f] # None
        <4>1. Span[f] \in Interval /\ Span[f].start <= Span[f].end
          BY <3>2, SMT DEF Interval
        <4>. QED BY <3>2, <4>1, <1>10, ClampInRange DEF Build, Interval
      <3>. QED BY <3>1, <3>2
    <2>. QED BY <1>10, <1>u, <2>1 DEF Build, LoadPlayback, stop, TypeOK, SkippingEnds, FlowOrNone
  <1>11. ASSUME NEW built \in BOOLEAN, ChangeMode(built) PROVE IInv'
    BY <1>11, <1>u DEF ChangeMode, LoadPlayback, TypeOK, SkippingEnds, FlowOrNone, player
  <1>. QED
    <2>1. Pointed \subseteq Instant BY DEF Pointed
    <2>2. ASSUME \E a, b \in Pointed : Drag(a, b) \/ Release(a, b) PROVE IInv'
      BY <2>1, <2>2, <1>7, <1>8
    <2>3. ASSUME \E g : ClickGap(g) PROVE IInv'
      BY <2>3, <1>9
    <2>4. ASSUME \E a, b \in Instant : SelectPhase(a, b) PROVE IInv'
      BY <2>4, <1>6
    <2>. QED BY <2>2, <2>3, <2>4, <1>1, <1>2, <1>3, <1>4, <1>5, <1>10, <1>11 DEF UserStep

LEMMA StepHolds == IInv /\ [Next]_vars => IInv'
  <1>. SUFFICES ASSUME IInv, [Next]_vars PROVE IInv'
    OBVIOUS
  <1>1. ASSUME NEW f \in asked, PlaybackReply(f) PROVE IInv'
    BY <1>1 DEF PlaybackReply, IInv, TypeOK, SkippingEnds, FlowOrNone, player
  <1>2. CASE UNCHANGED vars
    BY <1>2 DEF vars, IInv, TypeOK, SkippingEnds
  <1>. QED BY <1>1, <1>2, TimeHolds, UserHolds DEF Next

LEMMA InvariantHolds == Spec => []IInv
  BY InitHolds, StepHolds, PTL DEF Spec

\* The player's variables keep their types and the clock stays within the time
\* scale of the flow.
THEOREM TypeCorrect == Spec => []TypeOK
  BY InvariantHolds, PTL DEF IInv

\* A skip always has a timeout that will end it, whatever the user does
\* while the label is shown.
THEOREM SkipsEnd == Spec => []SkippingEnds
  BY InvariantHolds, PTL DEF IInv

\* While the player is stopped only the user moves the clock.
THEOREM ClockRests == Spec => PausedStaysPut
  <1>1. TypeOK /\ [Next]_vars => [~timer /\ acts' = acts => clock' = clock]_vars
    <2>. SUFFICES ASSUME TypeOK, Next, ~timer, acts' = acts PROVE clock' = clock
      BY DEF vars
    <2>1. ~Tick BY DEF Tick
    <2>2. ~User BY SMT DEF User, TypeOK
    <2>3. ~UserStep
      BY <2>2 DEF UserStep, Play, Pause, FullConversation, Unload, Seek, SelectPhase, Drag,
                 Release, ClickGap, Build, ChangeMode
    <2>4. ASSUME Wait PROVE clock' = clock BY <2>4 DEF Wait, player
    <2>5. ASSUME NEW t \in timeouts, Resume(t) PROVE clock' = clock BY <2>5 DEF Resume
    <2>6. ASSUME NEW f \in asked, PlaybackReply(f) PROVE clock' = clock
      BY <2>6 DEF PlaybackReply, player
    <2>. QED BY <2>1, <2>3, <2>4, <2>5, <2>6 DEF Next
  <1>. QED BY <1>1, TypeCorrect, PTL DEF Spec, PausedStaysPut

===============================================================================
