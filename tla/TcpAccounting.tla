---------------------------- MODULE TcpAccounting ----------------------------
(***************************************************************************)
(* packettrain/accounting_tcp.py: sequence ranges modulo the sequence      *)
(* space, outstanding bytes and payload bursts of one stream.              *)
(***************************************************************************)
EXTENDS StreamPacket

CONSTANTS
    SeqSpace,       \* SEQ_SPACE, 2^32 in the code
    BurstGap        \* BURST_GAP_S

ASSUME AccountingConstants == SeqSpace \in Nat \ {0} /\ BurstGap \in Nat

-----------------------------------------------------------------------------
\* the SYN's number, else that of the first payload packet, else None
InitialSequence(packets, d) ==
    LET sent == From(packets, d)
        syns == Kept(sent, LAMBDA p : p.syn)
        data == Payload(sent)
    IN  IF syns # << >> THEN syns[1].seq % SeqSpace
        ELSE IF data # << >> THEN data[1].seq % SeqSpace ELSE None

Relative(value, base) ==
    IF base = None THEN value % SeqSpace ELSE (value - base) % SeqSpace

\* a range that crosses the end of the space is split
SplitRange(start, length) ==
    IF start + length > SeqSpace
    THEN {<<start, SeqSpace>>, <<0, start + length - SeqSpace>>}
    ELSE {<<start, start + length>>}

SeqRanges(packets, d) ==
    LET base == InitialSequence(packets, d)
    IN  UNION {SplitRange(Relative(p.seq, base), p.length) : p \in Range(Payload(From(packets, d)))}

\* Mutant: a range inside the last merged one cuts it short.
MergeRangeShort(merged, r) ==
    IF merged # << >> /\ r[1] <= Last(merged)[2]
    THEN Append(Front(merged), <<Last(merged)[1], r[2]>>)
    ELSE Append(merged, r)

\* the body of unique_payload's loop
MergeRange(merged, r) ==
    IF merged # << >> /\ r[1] <= Last(merged)[2]
    THEN Append(Front(merged), <<Last(merged)[1], Most(Last(merged)[2], r[2])>>)
    ELSE Append(merged, r)

UniquePayload(ranges) ==
    LET sorted == Sorted(SetToSeq(ranges), LAMBDA r, s : r[1] < s[1] \/ (r[1] = s[1] /\ r[2] < s[2]))
    IN  Total(FoldLeft(MergeRange, << >>, sorted), LAMBDA r : r[2] - r[1])

-----------------------------------------------------------------------------
\* window_scale: what the direction's SYN offered, 0 when it offered nothing,
\* None when no SYN was captured
WindowScale(packets, d) ==
    LET syns == Kept(From(packets, d), LAMBDA p : p.syn)
        offers == Kept(syns, LAMBDA p : p.wscale # None)
    IN  IF offers # << >> THEN offers[1].wscale ELSE IF syns # << >> THEN 0 ELSE None

\* scaled_window: the history of windows, an absent and a closed one left out
WindowHistory(packets) ==
    LET point(p) == LET shift == WindowScale(packets, p.direction) IN
            [frame |-> p.frame, direction |-> p.direction, raw |-> p.window,
             scaled |-> IF shift = None \/ p.syn THEN None ELSE p.window * 2^shift]
        shown == Kept(packets, LAMBDA p : p.window \notin {None, 0})
    IN  [i \in DOMAIN shown |-> point(shown[i])]

-----------------------------------------------------------------------------
\* Mutant: the whole stream counts as sent before every ACK.
SentByEnd(packets, ackPacket) == packets

\* the payload packets the cursor has passed when an ACK is reached
SentBy(packets, ackPacket) == Kept(packets, LAMBDA p : p.time <= ackPacket.time)

\* one point of the series: what of the sent ranges lies at or above the ACK
Reading(packets, d, ackPacket) ==
    LET base == InitialSequence(packets, d)
        acked == Relative(ackPacket.ack, base)
        sent == {<<Relative(p.seq, base), Relative(p.seq, base) + p.length>> :
                    p \in Range(SentBy(Payload(From(packets, d)), ackPacket))}
    IN  [frame |-> ackPacket.frame, time |-> ackPacket.time, direction |-> d,
         outstanding |-> UniquePayload({<<Most(r[1], acked), r[2]>> : r \in {s \in sent : s[2] > acked}})]

\* outstanding_bytes: a point for each ACK, in each direction that has payload
OutstandingBytes(packets) ==
    UNION {{Reading(packets, d, p) : p \in {q \in Range(From(packets, Opposite(d))) : q.ack # 0}} :
           d \in {e \in Direction : Payload(From(packets, e)) # << >>}}

-----------------------------------------------------------------------------
\* Mutant: the gap is measured from where the burst started.
ExtendBurstFromStart(bursts, p, gap) ==
    IF bursts # << >> /\ Last(bursts).direction = p.direction /\ p.time - Last(bursts).start <= gap
    THEN Append(Front(bursts), [Last(bursts) EXCEPT !.end = p.time, !.bytes = @ + p.length])
    ELSE Append(bursts, [direction |-> p.direction, start |-> p.time, end |-> p.time, bytes |-> p.length])

\* largest_burst's loop: payload of one direction with no gap above the limit
ExtendBurst(bursts, p, gap) ==
    IF bursts # << >> /\ Last(bursts).direction = p.direction /\ p.time - Last(bursts).end <= gap
    THEN Append(Front(bursts), [Last(bursts) EXCEPT !.end = p.time, !.bytes = @ + p.length])
    ELSE Append(bursts, [direction |-> p.direction, start |-> p.time, end |-> p.time, bytes |-> p.length])

BurstsAt(packets, gap) ==
    FoldLeft(LAMBDA bursts, p : ExtendBurst(bursts, p, gap), << >>, Payload(ByTime(packets)))

LargestBurst(packets, gap) == Max({b.bytes : b \in Range(BurstsAt(packets, gap))} \cup {0})
=============================================================================
