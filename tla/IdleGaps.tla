------------------------------- MODULE IdleGaps -------------------------------
(***************************************************************************)
(* packettrain/idle.py: which quiet gaps the player may compress, and the  *)
(* timeline it walks.                                                      *)
(***************************************************************************)
EXTENDS TcpAccounting

CONSTANT PlaybackTrigger        \* PLAYBACK_TRIGGER_S
ASSUME IdleConstants == PlaybackTrigger \in Nat

Mode == {"faithful", "smart", "fast"}

\* _gap_reason, for the gap after the packet before: transport work at its
\* ends or within, in the order the code asks
GapReason(packets, before, after, series) ==
    LET near == {p \in Range(packets) : p.time \in before.time..after.time}
        opening == {p \in near : p.syn}
        waits(r) == r.time \in before.time..after.time /\ r.outstanding > 0
    IN  IF \E p \in near : ZeroWindow(p) THEN "zero_window"
        ELSE IF \E p \in near : p.retrans THEN "retransmission"
        ELSE IF opening # {} /\ \A p \in opening : ~p.ackflag THEN "handshake_retry"
        ELSE IF \E r \in series : waits(r) THEN "unresolved_outstanding"
        ELSE "idle"

\* Mutant: fast review compresses short gaps too.
LabelAnyLength(reason, seconds, mode, speed) ==
    CASE mode = "faithful" -> None
      [] mode = "smart" /\ reason = "idle" /\ seconds >= PlaybackTrigger * speed -> reason
      [] mode = "fast" -> reason
      [] OTHER -> None

\* the label of a gap: None when it plays at full length
Label(reason, seconds, mode, speed) ==
    CASE mode = "faithful" \/ seconds < PlaybackTrigger * speed -> None
      [] mode = "smart" /\ reason # "idle" -> None
      [] OTHER -> reason

\* analyze_gaps: a gap for each two neighbours at different times
Gaps(packets, mode, speed) ==
    LET ordered == ByTime(packets)
        series == OutstandingBytes(ordered)
        gap(i) == [start |-> ordered[i].time, end |-> ordered[i + 1].time, frame |-> ordered[i].frame,
                   label |-> Label(GapReason(ordered, ordered[i], ordered[i + 1], series),
                                   ordered[i + 1].time - ordered[i].time, mode, speed)]
    IN  {gap(i) : i \in {j \in 1..(Len(ordered) - 1) : ordered[j].time < ordered[j + 1].time}}

Compressed(packets, mode, speed) == {g \in Gaps(packets, mode, speed) : g.label # None}

\* Mutant: the gaps are looked up by the time they start at.
TimelineByStart(packets, mode, speed) ==
    LET compressed == Compressed(packets, mode, speed)
        after(p) == {g \in compressed : g.start = p.time}
        entry(p) == <<[kind |-> "packet", start |-> p.time, end |-> p.time, frame |-> p.frame]>>
        skips(p) == SetToSeq({[kind |-> "compressed", start |-> g.start, end |-> g.end, frame |-> g.frame] : g \in after(p)})
    IN  FoldLeft(LAMBDA segments, p : segments \o entry(p) \o skips(p), << >>, ByTime(packets))

\* timeline: each packet, followed by the compressed gap that begins with it
Timeline(packets, mode, speed) ==
    LET compressed == Compressed(packets, mode, speed)
        after(p) == {g \in compressed : g.frame = p.frame}
        entry(p) == <<[kind |-> "packet", start |-> p.time, end |-> p.time, frame |-> p.frame]>>
        skips(p) == SetToSeq({[kind |-> "compressed", start |-> g.start, end |-> g.end, frame |-> g.frame] : g \in after(p)})
    IN  FoldLeft(LAMBDA segments, p : segments \o entry(p) \o skips(p), << >>, ByTime(packets))
=============================================================================
