------------------------------ MODULE RttSamples ------------------------------
(***************************************************************************)
(* packettrain/rtt.py: the ACK RTT samples of a stream that are accepted,  *)
(* and their percentiles in hundredths.                                    *)
(***************************************************************************)
EXTENDS StreamPacket

CONSTANTS
    SampleIdleGap,          \* IDLE_GAP_MS
    MinSample, MaxSample    \* MIN_SAMPLE_MS, MAX_SAMPLE_MS

ASSUME RttConstants == {SampleIdleGap, MinSample, MaxSample} \subseteq Nat

\* the silence behind a packet, by the capture clock; 0 when it is not known
SilenceBefore(packets, i) ==
    LET earlier == {j \in 1..(i - 1) : packets[j].ts # None}
    IN  IF packets[i].ts = None \/ earlier = {} THEN 0 ELSE packets[i].ts - packets[Max(earlier)].ts

\* _samples: why a packet's sample is not used, or "accepted"
SampleVerdict(packets, i) ==
    LET p == packets[i] IN
    IF p.rtt <= 0 THEN "missing"
    ELSE IF p.retrans THEN "retransmitted_ack"
    ELSE IF p.sliced THEN "sliced"
    ELSE IF SilenceBefore(packets, i) > SampleIdleGap THEN "idle_gap"
    ELSE IF p.rtt \notin MinSample..MaxSample THEN "implausible"
    ELSE "accepted"

Samples(packets) ==
    LET accepted == Kept([i \in DOMAIN packets |-> i], LAMBDA i : SampleVerdict(packets, i) = "accepted")
    IN  Sorted([k \in DOMAIN accepted |-> packets[accepted[k]].rtt], <)

\* _percentile, in hundredths: linear between two neighbours, places from 0
Percentile(values, percent) ==
    LET position == (Len(values) - 1) * percent
        lower == position \div 100
        upper == Least(lower + 1, Len(values) - 1)
        weight == position % 100
    IN  values[lower + 1] * (100 - weight) + values[upper + 1] * weight
=============================================================================
