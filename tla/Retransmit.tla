------------------------------ MODULE Retransmit ------------------------------
(***************************************************************************)
(* packettrain/retransmit.py: which payload is sent again, how much of it  *)
(* is new, and whether that was loss or reordering.                        *)
(***************************************************************************)
EXTENDS TcpAccounting

CONSTANT ReorderWindow      \* REORDER_WINDOW_MS
ASSUME RetransmitConstants == ReorderWindow \in Nat

\* _segments is given the payload packets of one direction only, so base and
\* origin are theirs
Segments(packets, d) ==
    LET data == Payload(From(packets, d))
        base == InitialSequence(data, d)
        origin == Origin(data)
        start(p) == Relative(p.seq, base)
        clock(p) == IF p.ts = None THEN None ELSE p.ts - origin
    IN  [i \in DOMAIN data |->
            [frame |-> data[i].frame, time |-> clock(data[i]),
             start |-> start(data[i]), end |-> start(data[i]) + data[i].length,
             length |-> data[i].length]]

Overlap(a, b) == Most(0, Least(a.end, b.end) - Most(a.start, b.start))

\* Mutant: only the segment before is compared.
DuplicateBytesLast(segment, covered) ==
    IF covered = << >> THEN 0 ELSE Overlap(segment, Last(covered))

\* overlaps with several earlier segments add up, clamped to the length
DuplicateBytes(segment, covered) ==
    Least(segment.length, Total(covered, LAMBDA prior : Overlap(segment, prior)))

\* the i-th segment is a repeat when an earlier one covers any of it
RepeatBytes(segments, i) == DuplicateBytes(segments[i], SubSeq(segments, 1, i - 1))
Repeats(segments) == {i \in DOMAIN segments : RepeatBytes(segments, i) > 0}
Firsts(segments) == DOMAIN segments \ Repeats(segments)

\* the first transmission that shares most with the repeat, or None
Original(segments, i) ==
    LET shared(j) == Overlap(segments[j], segments[i])
        candidates == {j \in Firsts(segments) : shared(j) > 0}
        most == {j \in candidates : \A k \in candidates : shared(j) >= shared(k)}
    IN  IF candidates = {} THEN None ELSE Min(most)

\* duplicate ACKs between two times of the segments' clock, by the stream's clock
DuplicateAcks(packets, from, to) ==
    {p \in Range(packets) : p.dupack /\ p.ts # None /\ p.ts - Origin(packets) \in from..to}

\* _classify: without times nothing is told from a retransmission
Verdict(packets, segments, i) ==
    LET original == Original(segments, i)
        from == segments[original].time
        to == segments[i].time
    IN  IF original = None THEN "unknown"
        ELSE IF None \in {from, to} THEN "retransmission"
        ELSE IF to < from \/ (to - from <= ReorderWindow /\ DuplicateAcks(packets, from, to) = {})
        THEN "reordering" ELSE "retransmission"

\* the totals of one direction
UniqueBytes(segments) == MapThenSumSet(LAMBDA i : segments[i].length, Firsts(segments))
NewBytes(segments) ==
    MapThenSumSet(LAMBDA i : segments[i].length - RepeatBytes(segments, i), Repeats(segments))
RepeatedBytes(segments) == MapThenSumSet(LAMBDA i : RepeatBytes(segments, i), Repeats(segments))
=============================================================================
