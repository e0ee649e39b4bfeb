------------------------------ MODULE WindowFlow ------------------------------
(***************************************************************************)
(* packettrain/window_flow.py: the episodes during which an endpoint keeps *)
(* its receive window closed.                                              *)
(***************************************************************************)
EXTENDS StreamPacket

CONSTANT MinStall       \* MIN_STALL_MS
ASSUME WindowConstants == MinStall \in Nat

\* _time_ms: by the capture clock, else the time the packet carries
TimeOf(packets, p) == IF p.ts # None THEN p.ts - Origin(packets) ELSE p.time

\* the stalls _episodes is given: a SYN's window is no flow-control signal
Stalls(packets, d) == Kept(From(packets, d), LAMBDA p : ZeroWindow(p) /\ ~p.syn)

\* Mutant: a reopening of either endpoint closes the episode.
RecoveryAfterAny(packets, d, time) ==
    LET open == Kept(packets,
                    LAMBDA p : TimeOf(packets, p) > time /\ p.window # None /\ ~ZeroWindow(p))
    IN  IF open = << >> THEN None ELSE TimeOf(packets, open[1])

\* first non-zero window the endpoint advertises after a time, in capture order
RecoveryAfter(packets, d, time) ==
    LET open == Kept(From(packets, d),
                    LAMBDA p : TimeOf(packets, p) > time /\ p.window # None /\ ~ZeroWindow(p))
    IN  IF open = << >> THEN None ELSE TimeOf(packets, open[1])

\* an advertisement before the reopening is one more probe of the episode; all of
\* them, by frame: the code counts and times them all and lists the first 20
AddStall(packets, d, episodes, p) ==
    IF episodes # << >> /\ (Last(episodes).recovery = None \/ TimeOf(packets, p) < Last(episodes).recovery)
    THEN Append(Front(episodes), [Last(episodes) EXCEPT !.probes = Append(@, p.frame)])
    ELSE Append(episodes, [direction |-> d, start |-> TimeOf(packets, p), probes |-> <<p.frame>>,
                           recovery |-> RecoveryAfter(packets, d, p.time)])

Episodes(packets, d) ==
    FoldLeft(LAMBDA episodes, p : AddStall(packets, d, episodes, p), << >>, ByTime(Stalls(packets, d)))

\* capture_end_ms, by the capture clock, where the packets have it
CaptureEnd(packets) ==
    IF Clocked(packets) = {} THEN None ELSE Max(Clocked(packets)) - Origin(packets)

\* an episode that never ended lasts until the capture does, if that is known
Duration(packets, e) ==
    IF e.recovery # None THEN e.recovery - e.start
    ELSE IF CaptureEnd(packets) # None THEN CaptureEnd(packets) - e.start ELSE None

\* the episodes in the order they are numbered: the direction that stalled
\* first comes first
Numbered(packets) ==
    LET first == Kept(packets, LAMBDA p : ZeroWindow(p) /\ ~p.syn)[1].direction
        all == Episodes(packets, first) \o Episodes(packets, Opposite(first))
    IN  [i \in DOMAIN all |->
            [direction |-> all[i].direction, start |-> all[i].start, probes |-> all[i].probes,
             recovery |-> all[i].recovery, duration |-> Duration(packets, all[i])]]

\* receiver_window_analysis: short ones dropped, then sorted by start
WindowEpisodes(packets) ==
    IF Stalls(packets, "out") \o Stalls(packets, "in") = << >> THEN << >>
    ELSE Sorted(Kept(Numbered(packets), LAMBDA e : e.duration = None \/ e.duration >= MinStall),
                LAMBDA e, f : e.start < f.start)

\* what the reply says of an episode, which None is not
ReportedEpisode == [direction: Direction, start: Nat, probes: Seq(Nat),
                    recovery: Nat \cup {None}, duration: Nat \cup {None}]
ASSUME NoneIsNoEpisode == None \notin ReportedEpisode

Unresolved(packets) == {e \in Range(WindowEpisodes(packets)) : e.recovery = None}
Persistent(packets) == Unresolved(packets) # {} /\ CaptureEnd(packets) = None
=============================================================================
