-------------------------------- MODULE Phases --------------------------------
(***************************************************************************)
(* packettrain/phases.py: the runs of activity of a stream, the pauses     *)
(* between them, and the receiver-window stalls that explain a pause.      *)
(***************************************************************************)
EXTENDS TcpAccounting

CONSTANTS
    IdleGap,            \* THRESHOLDS idle_gap_s
    BulkMin, SmallMax,  \* bulk_min_bytes, small_max_bytes
    LongPause,          \* a pause this long is called Idle
    StallLookback,      \* STALL_LOOKBACK_MS
    PacedGap, PacedMin, \* 50 ms and 8 payload records of "ACK-paced delivery"
    SymptomFrames       \* frames listed with a symptom

ASSUME PhaseConstants ==
    /\ {IdleGap, BulkMin, SmallMax, LongPause, StallLookback, PacedGap, SymptomFrames} \subseteq Nat
    /\ PacedGap <= IdleGap /\ PacedMin \in Nat \ {0, 1}

Lookback == 4           \* packets of the run before that a probe's window may be in

-----------------------------------------------------------------------------
\* Mutant: a quiet time just at the limit is in both places.
ExtendRunTwice(runs, p) ==
    IF runs # << >> /\ p.time - Last(Last(runs)).time <= IdleGap
    THEN Append(Front(runs), Append(Last(runs), p))
    ELSE IF runs = << >> THEN << <<p>> >> ELSE Append(runs, <<Last(Last(runs)), p>>)

\* _activity: a packet joins the run unless it comes after an idle gap
ExtendRun(runs, p) ==
    IF runs # << >> /\ p.time - Last(Last(runs)).time <= IdleGap
    THEN Append(Front(runs), Append(Last(runs), p))
    ELSE Append(runs, <<p>>)

Activity(packets) == FoldLeft(ExtendRun, << >>, ByTime(packets))

\* the latest ACK the peer of d sent until a time, or None
AckAt(packets, d, time) ==
    LET acks == Kept(ByTime(From(packets, Opposite(d))), LAMBDA p : p.ackflag /\ p.time <= time)
    IN  IF acks = << >> THEN None ELSE Last(acks).ack

Behind(seq, ack) == ack # None /\ (ack - seq) % SeqSpace \in {0, 1}

\* the segments of a run that look like window probes
Probing(packets, run) ==
    Kept(run, LAMBDA p : p.ackflag /\ p.length = 0 /\ Behind(p.seq, AckAt(packets, p.direction, p.time)))

\* zero windows of the run, else of the last packets before it
ClosedWindows(run, before) ==
    LET lookback == SubSeq(before, Most(1, Len(before) - Lookback + 1), Len(before))
        here == Kept(run, ZeroWindow)
    IN  IF here # << >> THEN here ELSE Kept(lookback, ZeroWindow)

IsProbe(packets, run, before) == Probing(packets, run) # << >> /\ ClosedWindows(run, before) # << >>

\* _classify_run; the share of the larger direction is never below one half
RunLabel(packets, run, before) ==
    LET bytes == Total(run, LAMBDA p : p.length)
        some(Test(_)) == \E p \in Range(run) : Test(p)
    IN  IF bytes > 0
        THEN IF bytes >= BulkMin THEN "Bulk transfer"
             ELSE IF bytes <= SmallMax THEN "Small exchange" ELSE "Payload exchange"
        ELSE IF some(LAMBDA p : p.syn /\ ~p.ackflag) THEN "Setup"
        ELSE IF some(LAMBDA p : p.fin \/ p.rst) THEN "Teardown"
        ELSE IF IsProbe(packets, run, before) THEN "Zero Window Probe" ELSE "Control exchange"

-----------------------------------------------------------------------------
\* _window_stall: the zero windows in a pause or just before it
StallHits(packets, start, end) ==
    Kept(ByTime(packets), LAMBDA p : ZeroWindow(p) /\ p.time \in (start - StallLookback)..end)

\* Mutant: an episode that begins as the pause ends does not count.
MatchingEpisodeBefore(episodes, start, end) ==
    LET match == Kept(episodes, LAMBDA e : e.start < end /\ (e.duration = None \/ start <= e.start + e.duration))
    IN  IF match = << >> THEN None ELSE match[1]

\* _matching_episode: the first episode that overlaps the pause
MatchingEpisode(episodes, start, end) ==
    LET match == Kept(episodes, LAMBDA e : e.start <= end /\ (e.duration = None \/ start <= e.start + e.duration))
    IN  IF match = << >> THEN None ELSE match[1]

Pause(packets, episodes, start, end) ==
    LET hits == StallHits(packets, start, end)
        label == IF hits # << >> THEN "Receiver-window stall"
                 ELSE IF end - start < LongPause THEN "Payload pause" ELSE "Idle"
    IN  [label |-> label, start |-> start, end |-> end, frames |-> << >>, hits |-> hits,
         episode |-> IF hits = << >> THEN None ELSE MatchingEpisode(episodes, start, end)]

\* stream_phases: every run, and the pause after it
StreamPhases(packets, episodes) ==
    LET runs == Activity(packets)
        before(i) == IF i = 1 THEN << >> ELSE runs[i - 1]
        first(i) == runs[i][1].time
        last(i) == Last(runs[i]).time
        phase(i) == [label |-> RunLabel(packets, runs[i], before(i)), start |-> first(i), end |-> last(i),
                     frames |-> Frames(runs[i]), hits |-> << >>, episode |-> None]
        pause(i) == IF i = Len(runs) THEN << >> ELSE <<Pause(packets, episodes, last(i), first(i + 1))>>
    IN  FoldLeftDomain(LAMBDA phases, i : Append(phases, phase(i)) \o pause(i), << >>, runs)

-----------------------------------------------------------------------------
\* transport_symptoms: what is observed, with the first frames that show it
Symptom(shown) ==
    [count |-> Len(shown), frames |-> Frames(SubSeq(shown, 1, Least(Len(shown), SymptomFrames)))]

\* enough payload, none of it long after the payload before it
AckPaced(packets) ==
    LET payload == Payload(ByTime(packets))
    IN  Len(payload) >= PacedMin
        /\ \A i \in 2..Len(payload) : payload[i].time - payload[i - 1].time < PacedGap

TransportSymptoms(packets) ==
    LET ordered == ByTime(packets) IN
    [recovery |-> Symptom(Kept(ordered, LAMBDA p : p.retrans)),
     stall |-> Symptom(Kept(ordered, ZeroWindow)),
     sack |-> Symptom(Kept(ordered, LAMBDA p : p.sack)),
     failure |-> Symptom(Kept(ordered, LAMBDA p : p.rst)),
     paced |-> AckPaced(packets)]
=============================================================================
