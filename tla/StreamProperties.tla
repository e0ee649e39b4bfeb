--------------------------- MODULE StreamProperties ---------------------------
(***************************************************************************)
(* What the analyses of a stream promise, against definitions that do not  *)
(* use their algorithms. A packet carries its place in the sender's byte   *)
(* stream (at) and the place it acknowledges (ackat), numbers that do not  *)
(* wrap and that no analysis reads.                                        *)
(***************************************************************************)
EXTENDS StreamDetail

\* the packets of the reply, and those that kept the capture clock
group == Group(capture)
timed == Timed(capture)
Data(d) == Payload(From(timed, d))
Places(p) == p.at..(p.at + p.length - 1)
PlacesOf(packets) == UNION {Places(p) : p \in Range(packets)}

TypeOK ==
    /\ scene \in Scene /\ capture \in Seq(Packet) /\ Len(capture) <= scene.most
    /\ \A i \in DOMAIN capture :
        /\ capture[i].frame = i
        /\ i > 1 => capture[i].ts - capture[i - 1].ts \in scene.gaps
    /\ \A p \in Range(group) : p \in Packet /\ p.ts = None

-----------------------------------------------------------------------------
(* Bytes *)

\* The unique payload of a direction is the number of sequence numbers it
\* covered, however its ranges overlap and wherever they wrap.
UniqueIsCovered ==
    LET packets == timed
        carried(p) == {(p.seq + k) % SeqSpace : k \in 0..(p.length - 1)}
    IN  \A d \in Direction :
            UniquePayload(SeqRanges(packets, d)) =
                Cardinality(UNION {carried(p) : p \in Range(From(packets, d))})

\* When the SYN was captured, each reading of outstanding bytes is the number
\* of distinct bytes sent by then that its ACK does not acknowledge.
OutstandingIsUnacked ==
    LET packets == timed IN
    \A r \in OutstandingBytes(packets) :
        LET sent == Kept(From(packets, r.direction), LAMBDA p : p.time <= r.time)
        IN  (\E p \in Range(From(packets, r.direction)) : p.syn) =>
                r.outstanding = Cardinality({x \in PlacesOf(sent) : x >= capture[r.frame].ackat})

\* A new burst begins exactly where the direction changes or the gap is
\* longer than allowed, no byte is lost, and a wider gap never finds less; the
\* first flight and the first of the runs a rate is taken from, found by two
\* more loops, are the same packets.
BurstsAreMaximal ==
    LET data == Payload(timed)
        breaks(gap) == {i \in 2..Len(data) : \/ data[i].direction # data[i - 1].direction
                                             \/ data[i].time - data[i - 1].time > gap}
        bursts == BurstsAt(data, BurstGap)
        packets == group
        flight == Flight(packets)
    IN  /\ data # << >> =>
            /\ Len(bursts) = Cardinality(breaks(BurstGap)) + 1
            /\ Total(bursts, LAMBDA b : b.bytes) = Total(data, LAMBDA p : p.length)
            /\ LargestBurst(data, BurstGap \div 2) <= LargestBurst(data, BurstGap)
            /\ LargestBurst(data, BurstGap) <= LargestBurst(data, 5 * BurstGap)
        /\ flight # << >> => BurstRuns(packets, DataDirection(packets), 1)[1] = flight

\* Mid-stream, the first payload seen is the lowest.
LowestFirst(d) == \A p \in Range(Data(d)) : p.at >= Data(d)[1].at

\* A segment is a repeat exactly when it carries a byte carried before, no byte
\* is counted as new twice, and what a repeat is compared with to tell loss from
\* reordering was captured before it.
RepeatsAreResent ==
    \A d \in Direction :
        LET segments == Segments(group, d)
            data == Data(d)
        IN  /\ data # << >> /\ LowestFirst(d) =>
                /\ Repeats(segments) =
                    {i \in DOMAIN data : Places(data[i]) \cap PlacesOf(SubSeq(data, 1, i - 1)) # {}}
                /\ UniqueBytes(segments) + NewBytes(segments) <= Cardinality(PlacesOf(data))
            /\ \A i \in Repeats(segments) :
                Original(segments, i) # None => Original(segments, i) < i

-----------------------------------------------------------------------------
(* Windows, phases and gaps *)

\* Every closed window an endpoint advertises is in exactly one of its
\* episodes, and two are in the same one exactly when the endpoint has not
\* opened its window in between, whatever the other endpoint does; every other
\* window it advertises after its SYN is a point of the window history.
EpisodesHoldStalls ==
    LET packets == group
        points == WindowHistory(timed) IN
    \A d \in Direction :
        LET episodes == Episodes(packets, d)
            with(p) == {i \in DOMAIN episodes : p.frame \in Range(episodes[i].probes)}
            opened(p, q) == \E w \in Range(From(packets, d)) :
                                w.window \notin {0, None} /\ w.time \in (p.time + 1)..q.time
        IN  /\ \A p, q \in Range(Stalls(packets, d)) : p.frame <= q.frame =>
                /\ Cardinality(with(p)) = 1
                /\ with(p) = with(q) <=> ~opened(p, q)
        /\ \A o \in Range(From(packets, d)) : o.window # None /\ ~o.syn =>
                ((\E i \in DOMAIN points : points[i].frame = o.frame) <=> with(o) = {})

PhasesOf(packets) == StreamPhases(packets, WindowEpisodes(group))

\* The phases cover the stream without a hole: every packet in one phase, in
\* order, each phase beginning where the one before ends; payload that is called
\* paced by ACKs is all in one of them.
PhasesTile ==
    LET packets == timed IN
    \A phases \in {PhasesOf(packets)} :
        /\ FlattenSeq([i \in DOMAIN phases |-> phases[i].frames]) = Frames(ByTime(packets))
        /\ \A i \in 2..Len(phases) : phases[i].start = phases[i - 1].end
        /\ \A i \in DOMAIN phases : (phases[i].frames = << >>) = (i % 2 = 0)
        /\ TransportSymptoms(packets).paced =>
            \E i \in DOMAIN phases : Range(Frames(Payload(packets))) \subseteq Range(phases[i].frames)

\* A pause in which an endpoint advertised a closed window of a reported
\* episode always names an episode, and every pause that is called a stall is
\* among the symptoms.
PauseNamesEpisode ==
    LET packets == timed
        closed == TransportSymptoms(packets).stall.count IN
    \A episodes \in {WindowEpisodes(group)} : \A phase \in Range(StreamPhases(packets, episodes)) :
        /\ Len(phase.hits) <= closed
        /\ \A e \in Range(episodes) :
            phase.frames = << >>
                /\ (\E p \in Range(packets) : p.frame \in Range(e.probes) /\ p.time \in phase.start..phase.end)
            => phase.episode # None

\* Whatever is compressed, the timeline has every packet once and in order,
\* and no packet's time lies inside what is skipped.
TimelineIsWhole ==
    LET packets == group IN
    \A segments \in {Timeline(packets, mode, 1) : mode \in Mode} :
        /\ Frames(Kept(segments, LAMBDA s : s.kind = "packet")) = Frames(ByTime(packets))
        /\ \A i \in DOMAIN segments : segments[i].kind = "compressed" =>
            /\ i \in 2..(Len(segments) - 1)
            /\ segments[i].start = segments[i - 1].end /\ segments[i].end = segments[i + 1].start

\* Smart skips what fast review skips and calls idle; a faster replay never
\* skips more.
ModesAgree ==
    LET packets == group
        skipped == [mode \in Mode |-> Compressed(packets, mode, 1)] IN
    /\ skipped["smart"] = {g \in skipped["fast"] : g.label = "idle"}
    /\ Compressed(packets, "fast", 2) \subseteq skipped["fast"]

Mirrored(side) == CASE side = "client" -> "server" [] side = "server" -> "client" [] OTHER -> side

\* What the page shows of the round trip is consistent. The interpolated 50th
\* percentile of the samples is the median, as its field's name says: half way
\* between the values in the middle, which are one when their number is odd;
\* the 95th lies between it and the largest. And seen with the endpoints' parts
\* exchanged, the evidence for the capture's place names the other side.
RttEvidenceAgrees ==
    LET g == group
        values == Samples(g)
        n == Len(values)
        c == Ttl(g, "out") s == Ttl(g, "in")
        l1 == Leg(Syn(g), SynAck(g)) l2 == Leg(SynAck(g), Third(g))
    IN  /\ values # << >> =>
            /\ Percentile(values, 50) = 50 * (values[(n + 1) \div 2] + values[n \div 2 + 1])
            /\ Percentile(values, 95) \in Percentile(values, 50)..100 * Last(values)
        /\ Position(s, c, l2, l1).side = Mirrored(Position(c, s, l1, l2).side)

-----------------------------------------------------------------------------
(* What documents or comments of the repository say and the code does not do: *)
(* each of these is refuted.                                                  *)

\* Bytes of a sender that no ACK seen by then acknowledges, where its SYN was seen.
Unacknowledged(packets, d, frame) ==
    LET seen == SubSeq(packets, 1, frame)
        acked == Max({p.ackat : p \in Range(From(seen, Opposite(d)))} \cup {0})
    IN  IF \E p \in Range(From(seen, d)) : p.syn
        THEN {x \in PlacesOf(From(seen, d)) : x >= acked} ELSE {}

\* Smart skip does not skip a gap while sent bytes wait for their ACK
\* (DEVELOPMENT-SPEC.md: "must not treat unresolved outstanding bytes ... as
\* harmless idle").
OutstandingWaitsArePreserved ==
    LET packets == group IN
    \A g \in Compressed(packets, "smart", 1) : \A d \in Direction :
        Unacknowledged(packets, d, g.frame) = {}

\* A window still closed when the capture ends is reported as unresolved, not
\* as persistent (window_flow.py, receiver_window_analysis).
OpenStallIsOnlyUnresolved == LET g == group IN Unresolved(g) # {} => ~Persistent(g)

\* No RTT sample that comes after a long silence is accepted (rtt.py).
NoSampleBehindSilence ==
    LET g == group packets == timed IN
    \A i \in DOMAIN g : SampleVerdict(g, i) = "accepted" => SilenceBefore(packets, i) <= SampleIdleGap

\* The verdict on a repeat shown on the page is the one its times give
\* (retransmit.py: "loss versus reordering ... have opposite fixes").
VerdictUsesTimes ==
    LET g == group packets == timed IN
    \A d \in Direction : LET segments == Segments(g, d) IN
        \A i \in Repeats(segments) : Verdict(g, segments, i) = Verdict(packets, Segments(packets, d), i)

\* unique_bytes is the "unique payload this direction actually contributed"
\* (retransmit.py), as unique_payload_bytes is.
UniqueBytesAreUnique ==
    LET g == group IN
    \A d \in Direction : UniqueBytes(Segments(g, d)) = UniquePayload(SeqRanges(g, d))

\* A pause is called a receiver-window stall only if a window was closed
\* during it ("a pause bounded by a closed receiver window", phases.py).
StallPauseIsClosed ==
    LET packets == timed
        phases == PhasesOf(packets)
        shut(d, time) == LET seen == Kept(From(packets, d), LAMBDA p : p.time <= time /\ p.window # None)
                         IN  seen # << >> /\ ZeroWindow(Last(seen))
    IN  \A i \in DOMAIN phases : phases[i].label = "Receiver-window stall" =>
            \E d \in Direction : shut(d, phases[i].start) \/ shut(d, phases[i].end)

\* A shift is used only if it was negotiated ("Negotiated window scale shift",
\* accounting_tcp.py; "an absent option means no scaling is in use"): not when
\* the peer's SYN came without the option.
ShiftIsNegotiated ==
    LET packets == timed IN
    \A d \in Direction :
        WindowScale(packets, d) \notin {None, 0} => WindowScale(packets, Opposite(d)) # 0

\* The "receive-window history" (accounting_tcp.py, scaled_window) has every
\* window that was advertised, the closed ones too.
HistoryHasEveryWindow ==
    LET packets == timed IN
    Len(WindowHistory(packets)) = Len(Kept(packets, LAMBDA p : p.window # None))

\* A closed window in a SYN "is a configuration problem rather than flow
\* control" (window_flow.py): it is not reported as a flow-control stall.
SymptomIsFlowControl ==
    LET packets == timed IN
    TransportSymptoms(packets).stall.count = Len(Stalls(packets, "out")) + Len(Stalls(packets, "in"))

\* When no handshake interval was captured, ACK samples give the RTT
\* (README.md: "the median TShark ACK RTT sample is a fallback").
FallbackIsUsed ==
    LET g == group IN
    (Leg(Syn(g), SynAck(g)) = Unmeasured /\ \E p \in Range(g) : p.rtt \in 1..(MaxSample - 1)) =>
        Rtt(g) # Unmeasured
=============================================================================
