-------------------------------- MODULE Player --------------------------------
(***************************************************************************)
(* The player of the page (index.html): the 30 ms interval that moves the  *)
(* clock, the 800 ms timeouts that end the skip of a compressed gap, the   *)
(* selected range that limits play, and the user.                          *)
(*                                                                         *)
(* Time is that of the capture, in small numbers. One Tick is one turn of  *)
(* the interval; a timeout lasts SkipTicks of them. A timeline is named by *)
(* the flow whose gaps it compresses: faithful mode, a failed request and  *)
(* a flow without long gaps are all None.                                  *)
(***************************************************************************)
EXTENDS Integers, FiniteSets

CONSTANTS
    Flow,        \* flows that can be loaded
    Gaps,        \* [Flow -> the compressed intervals [start, end] of its timeline]
    Span,        \* [Flow -> [start, end] of what is played, None without an RTT]
    FirstSpan,   \* timeStart and duration before any flow is loaded
    Instant,     \* the times a user points at
    Delta,       \* how far one interval may move the clock (speed, delays)
    SkipTicks,   \* intervals in the 800 ms of a skip label
    None,        \* no flow, no timeline, no range
    MaxUser      \* bound on what users and loads do

Interval == [start: Int, end: Int]
ASSUME PlayerConstants ==
    /\ None \notin Flow /\ None \notin Interval
    /\ FirstSpan \in Interval /\ FirstSpan.start <= 0 /\ 0 <= FirstSpan.end
    /\ Span \in [Flow -> Interval \cup {None}]
    /\ \A f \in Flow : Span[f] # None => Span[f].start <= 0 /\ 0 < Span[f].end
    /\ Gaps \in [Flow -> SUBSET Interval]
    /\ Instant \subseteq Int /\ Delta \subseteq Nat \ {0} /\ SkipTicks \in Nat \ {0}
    /\ MaxUser \in Nat

VARIABLES
    flow,         \* the flow on the page
    span,         \* timeStart and duration
    able,         \* the Play button is not disabled
    clock, timer, skipping,
    timeouts,     \* skips that have not been resumed: [left, end]
    playback,     \* the timeline in use
    asked,        \* the timelines asked for and not yet answered
    chart,        \* [span, playback] the bounce chart was last drawn with
    selection,    \* [start, end], or None
    expandedGaps, \* the starts of gaps to replay in full
    acts          \* what users and loads have done, bounded by MaxUser

player == <<clock, timer, skipping>>
page == <<flow, span, able, playback, asked, chart>>
vars == <<flow, span, able, clock, timer, skipping, timeouts, playback, asked,
          chart, selection, expandedGaps, acts>>

Init ==
    /\ flow = None /\ span = FirstSpan /\ able = FALSE
    /\ clock = 0 /\ timer = FALSE /\ skipping = FALSE /\ timeouts = {}
    /\ playback = None /\ asked = {} /\ chart = None
    /\ selection = None /\ expandedGaps = {} /\ acts = 0

-----------------------------------------------------------------------------
(* Helpers of the page                                                      *)

\* Mutant: only the beginning of the time scale is kept.
ClampLow(s, t) == IF t < s.start THEN s.start ELSE t

Clamp(s, t) == IF t < s.start THEN s.start ELSE IF t > s.end THEN s.end ELSE t
setTime(t) == clock' = Clamp(span, t)
\* Mutant: a stop leaves the skip label's state behind.
stopTimer == timer' = FALSE /\ UNCHANGED skipping
stop == timer' = FALSE /\ skipping' = FALSE
User == acts < MaxUser /\ acts' = acts + 1

\* renderBounce, with the values its globals have when it is called
Drawn(p) == [span |-> span, playback |-> p]

CompressedAfter(t) ==
    IF playback = None THEN {} ELSE {g \in Gaps[playback] : g.start > t}
nextCompressedAfter(t) ==
    {g \in CompressedAfter(t) : \A h \in CompressedAfter(t) : g.start <= h.start}

Limit == IF selection # None THEN selection.end ELSE span.end

-----------------------------------------------------------------------------
(* Wall-clock time                                                          *)

Older == {[t EXCEPT !.left = @ - 1] : t \in timeouts}

\* a timeout that is due fires before the next interval
Due == {t \in timeouts : t.left = 0}
\* the next compressed gap, when the clock would reach it and is to skip it
InTheWay(d) == {g \in nextCompressedAfter(clock) :
                    ~skipping /\ g.start \notin expandedGaps /\ clock + d >= g.start}

BeginSkip(g) ==
    /\ setTime(g.start) /\ skipping' = TRUE /\ UNCHANGED timer
    /\ timeouts' = Older \cup {[left |-> SkipTicks, end |-> g.end]}

\* Mutant: the limit itself is still played.
AdvancePast(d) ==
    /\ setTime(clock + d)
    /\ IF clock' > Limit THEN stop ELSE UNCHANGED <<timer, skipping>>
    /\ timeouts' = Older

Advance(d) ==
    /\ setTime(clock + d)
    /\ IF clock' >= Limit THEN stop ELSE UNCHANGED <<timer, skipping>>
    /\ timeouts' = Older

\* one turn of the 30 ms interval
Tick ==
    /\ timer /\ Due = {}
    /\ \E d \in Delta : \/ \E g \in InTheWay(d) : BeginSkip(g)
                        \/ InTheWay(d) = {} /\ Advance(d)
    /\ UNCHANGED <<page, selection, expandedGaps, acts>>

Wait ==
    /\ ~timer /\ Due = {} /\ timeouts # {}
    /\ timeouts' = Older
    /\ UNCHANGED <<page, player, selection, expandedGaps, acts>>

\* Mutant: the timeout does not look whether the player was stopped.
ResumeAlways(t) ==
    /\ t \in Due
    /\ timeouts' = timeouts \ {t}
    /\ skipping' = FALSE /\ setTime(t.end)
    /\ UNCHANGED <<page, timer, selection, expandedGaps, acts>>

\* the timeout of a skip: it looks at timer, not at which play set it
Resume(t) ==
    /\ t \in Due
    /\ timeouts' = timeouts \ {t}
    /\ IF timer THEN skipping' = FALSE /\ setTime(t.end) ELSE UNCHANGED <<clock, skipping>>
    /\ UNCHANGED <<page, timer, selection, expandedGaps, acts>>

-----------------------------------------------------------------------------
(* The user                                                                 *)

Play ==
    /\ User /\ able /\ ~timer
    /\ timer' = TRUE /\ UNCHANGED skipping
    /\ IF clock >= span.end THEN setTime(span.start) ELSE UNCHANGED clock
    /\ UNCHANGED <<page, timeouts, selection, expandedGaps>>

Pause ==
    /\ User /\ timer
    /\ stop
    /\ UNCHANGED <<page, clock, timeouts, selection, expandedGaps>>

\* scrub, step, a packet's row or dot
Seek(t) ==
    /\ User
    /\ stop /\ setTime(t)
    /\ UNCHANGED <<page, timeouts, selection, expandedGaps>>

\* a double click on a phase
SelectPhase(a, b) ==
    /\ User /\ flow # None /\ a <= b
    /\ Span[flow] # None => Span[flow].start <= a /\ b <= Span[flow].end
    /\ stop /\ setTime(a) /\ selection' = [start |-> a, end |-> b]
    /\ UNCHANGED <<page, timeouts, expandedGaps>>

Pointed == {t \in Instant : chart # None /\ chart.span.start <= t /\ t <= chart.span.end}

\* the pointer moves over the chart with its button down
Drag(a, b) ==
    /\ User /\ a <= b
    /\ selection' = [start |-> a, end |-> b]
    /\ UNCHANGED <<page, player, timeouts, expandedGaps>>

\* ... and is released; nothing stops the player
Release(a, b) ==
    /\ User /\ a <= b
    /\ IF a = b THEN selection' = None /\ UNCHANGED clock
       ELSE selection' = [start |-> a, end |-> b] /\ setTime(a)
    /\ UNCHANGED <<page, timer, skipping, timeouts, expandedGaps>>

FullConversation ==
    /\ User /\ selection # None
    /\ selection' = None
    /\ UNCHANGED <<page, player, timeouts, expandedGaps>>

\* the gap lines are those of the last rendering
ClickGap(g) ==
    /\ User
    /\ expandedGaps' = IF g.start \in expandedGaps THEN expandedGaps \ {g.start}
                       ELSE expandedGaps \cup {g.start}
    /\ UNCHANGED <<page, player, timeouts, selection>>

-----------------------------------------------------------------------------
(* Loading                                                                  *)

\* streams() up to its first await
Unload ==
    /\ User
    /\ flow' = None /\ able' = FALSE /\ chart' = None /\ selection' = None
    /\ stop
    /\ UNCHANGED <<span, clock, timeouts, playback, asked, expandedGaps>>

\* loadPlayback on behalf of flow f: the reply's own timeline fits, or one is asked for
LoadPlayback(f, built) ==
    /\ playback' = IF built THEN f ELSE None
    /\ asked' = IF built THEN asked ELSE asked \cup {f}

\* build(): the chart is drawn before timeStart and duration are those of f
Build(f, built) ==
    /\ User
    /\ flow' = f /\ LoadPlayback(f, built) /\ chart' = Drawn(playback')
    /\ stop
    /\ IF Span[f] = None THEN able' = FALSE /\ UNCHANGED <<span, clock>>
       ELSE able' = TRUE /\ span' = Span[f] /\ clock' = Clamp(span', span'.start)
    /\ UNCHANGED <<timeouts, selection, expandedGaps>>

\* the mode or the speed is changed
ChangeMode(built) ==
    /\ User /\ (built => flow # None)
    /\ IF flow = None THEN playback' = None /\ UNCHANGED asked ELSE LoadPlayback(flow, built)
    /\ chart' = IF built THEN Drawn(flow) ELSE chart
    /\ UNCHANGED <<flow, span, able, player, timeouts, selection, expandedGaps>>

\* no token: whatever flow the timeline was asked for, it is the one in use now
PlaybackReply(f) ==
    /\ f \in asked
    /\ asked' = asked \ {f}
    /\ playback' \in {f, None}
    /\ chart' = IF flow = None THEN None ELSE Drawn(playback')
    /\ UNCHANGED <<flow, span, able, player, timeouts, selection, expandedGaps, acts>>

UserStep ==
    \/ Play \/ Pause \/ FullConversation \/ Unload
    \/ \E t \in Instant : Seek(t)
    \/ \E a, b \in Instant : SelectPhase(a, b)
    \/ \E a, b \in Pointed : Drag(a, b) \/ Release(a, b)
    \/ \E g \in IF chart = None \/ chart.playback = None THEN {} ELSE Gaps[chart.playback] :
            ClickGap(g)
    \/ \E f \in Flow, built \in BOOLEAN : Build(f, built)
    \/ \E built \in BOOLEAN : ChangeMode(built)

Next ==
    \/ UserStep \/ Tick \/ Wait
    \/ \E t \in timeouts : Resume(t)
    \/ \E f \in asked : PlaybackReply(f)

Spec == Init /\ [][Next]_vars

\* the browser goes on calling the interval and runs timeouts that are due
FairSpec == Spec /\ WF_vars(Tick) /\ WF_vars(\E t \in timeouts : Resume(t))

-----------------------------------------------------------------------------
(* What should hold                                                         *)

FlowOrNone == Flow \cup {None}

\* The player's state is well typed, and the clock never leaves the time scale
\* of the flow, whatever skips, ranges and loads do to it.
TypeOK ==
    /\ flow \in FlowOrNone /\ playback \in FlowOrNone /\ asked \subseteq Flow
    /\ able \in BOOLEAN /\ timer \in BOOLEAN /\ skipping \in BOOLEAN
    /\ span \in Interval /\ clock \in span.start..span.end
    /\ timeouts \subseteq [left: 0..SkipTicks, end: Int]
    /\ selection \in Interval \cup {None}
    /\ acts \in 0..MaxUser

\* The player is in a skip only while it plays and a timeout is pending that
\* ends the skip: otherwise every later gap would be played in full, however
\* often the user pauses, seeks or loads while a skip label is shown.
SkippingEnds == skipping => timer /\ timeouts # {}

\* While the player is stopped only the user moves the clock: neither a skip
\* that was pending when it stopped nor a late timeline does.
PausedStaysPut == [][~timer /\ acts' = acts => clock' = clock]_vars

\* Play comes to an end by itself, through every gap, skip and change of range,
\* unless the selected range ends behind the flow.
PlayEnds == timer ~> (~timer \/ Limit > span.end)

\* "playback stops at range end; changing stream resets stale selections"
\* (docs/DEVELOPMENT-SPEC.md:163): play always comes to an end.
PlayStops == timer ~> ~timer

\* "Arrow, phase, packet and graph selections agree" (docs/DEVELOPMENT-SPEC.md:163):
\* a range dragged on the chart means the times the chart shows.
ChartIsOfFlow == chart # None /\ able => chart.span = span

\* "Every packet appears exactly once, so compression cannot lose a packet"
\* (idle.py:163): a skip ends where it should, not behind another packet and
\* not in the past.
Instants(f) == UNION {{g.start, g.end} : g \in IF f = None THEN {} ELSE Gaps[f]}
NoPacketJumped ==
    [][Cardinality(timeouts') < Cardinality(timeouts) =>
        clock <= clock' /\ \A p \in Instants(playback) : ~(clock < p /\ p < clock')]_vars

\* "when the clock would cross into a compressed interval, finish the current
\* animation, show the label, then resume after it" (index.html:330): the clock
\* enters a compressed interval that is not expanded only in a skip.
GapsAreSkipped ==
    [][timer /\ acts' = acts /\ ~skipping /\ playback # None =>
        \A g \in Gaps[playback] : clock <= g.start /\ g.start < clock' =>
            g.start \in expandedGaps]_vars

\* A gap is expanded only by a click in the flow on the page (index.html:132).
ExpandedIsOfFlow == flow # None => \A s \in expandedGaps : \E g \in Gaps[flow] : g.start = s

===============================================================================
