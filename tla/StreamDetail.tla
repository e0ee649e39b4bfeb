----------------------------- MODULE StreamDetail -----------------------------
(***************************************************************************)
(* packettrain/accounting.py: stream_detail, which decides who the client  *)
(* is, gives each packet its direction and time and hands the packets to   *)
(* the analyses. The variable is a capture that grows packet by packet;    *)
(* a scene bounds what it can contain.                                     *)
(***************************************************************************)
EXTENDS Retransmit, WindowFlow, IdleGaps, Phases, RttSamples, CapturePosition

CONSTANTS
    Scene,          \* what is captured: [packets, gaps, most] records
    MinBurst        \* BURST_MIN_PACKETS

ASSUME SceneConstants ==
    /\ MinBurst \in Nat \ {0}
    /\ \A s \in Scene : s.packets \subseteq Packet /\ s.gaps \subseteq Nat /\ s.most \in Nat

\* One connection: its numbers are places in the endpoints' bytes counted from an
\* initial number, modulo SeqSpace, a SYN has place 0, and it carries no more
\* than the numbers can tell apart.
OneConnection(packets) ==
    \E isn \in [Endpoint -> 0..(SeqSpace - 1)] : \A p \in packets :
        /\ p.seq = (isn[p.src] + p.at) % SeqSpace
        /\ p.at + p.length <= SeqSpace
        /\ p.syn => p.at = 0
        /\ p.ack # 0 => /\ p.ackat < SeqSpace
                       /\ \A e \in Endpoint \ {p.src} : p.ack = (isn[e] + p.ackat) % SeqSpace

ASSUME SceneLengths == \A s \in Scene : \A p \in s.packets : p.length <= SeqSpace
ASSUME SceneNumbers == \A s \in Scene : OneConnection(s.packets)

VARIABLES scene, capture
vars == <<scene, capture>>

-----------------------------------------------------------------------------
(* stream_detail                                                            *)

\* summarize: the client sent the first SYN without ACK, else the first packet
Client(packets) ==
    LET opening == Kept(packets, LAMBDA p : p.syn /\ ~p.ackflag)
    IN  IF opening # << >> THEN opening[1].src ELSE packets[1].src

\* Mutant: times count from the last packet.
TimedFromLast(packets) ==
    LET client == Client(packets)
    IN  [i \in DOMAIN packets |->
            [packets[i] EXCEPT !.direction = IF packets[i].src = client THEN "out" ELSE "in",
                               !.time = packets[i].ts - Last(packets).ts]]

\* accounting_input: the packets with their direction and both times
Timed(packets) ==
    LET client == Client(packets)
    IN  [i \in DOMAIN packets |->
            [packets[i] EXCEPT !.direction = IF packets[i].src = client THEN "out" ELSE "in",
                               !.time = packets[i].ts - packets[1].ts]]

\* group: the same without the capture clock, which is taken out for the reply
Group(packets) ==
    LET kept == Timed(packets) IN [i \in DOMAIN packets |-> [kept[i] EXCEPT !.ts = None]]

\* next(..., None), as a set of at most one packet
FirstOf(found) == IF found = << >> THEN {} ELSE {found[1]}

Syn(g) == FirstOf(Kept(g, LAMBDA p : p.syn /\ ~p.ackflag /\ p.direction = "out"))
SynAck(g) ==
    FirstOf(Kept(g, LAMBDA p : p.syn /\ p.ackflag /\ p.direction = "in" /\ \A s \in Syn(g) : p.time > s.time))
Third(g) ==
    FirstOf(Kept(g, LAMBDA p : p.ackflag /\ ~p.syn /\ p.direction = "out" /\ \E s \in SynAck(g) : p.time > s.time))

\* a handshake interval, when both its packets were captured
Leg(first, second) ==
    IF first = {} \/ second = {} THEN Unmeasured
    ELSE (CHOOSE p \in second : TRUE).time - (CHOOSE p \in first : TRUE).time

\* the first hop limit an endpoint shows, 0 when none
Ttl(g, d) == LET seen == Kept(g, LAMBDA p : p.direction = d /\ p.ttl > 0)
             IN  IF seen = << >> THEN 0 ELSE seen[1].ttl

PositionOf(g) == Position(Ttl(g, "out"), Ttl(g, "in"), Leg(Syn(g), SynAck(g)), Leg(SynAck(g), Third(g)))

\* the RTT shown: a handshake interval by position, else the middle ACK sample
Rtt(g) ==
    LET side == PositionOf(g).side
        samples == Sorted(Kept([i \in DOMAIN g |-> g[i].rtt], LAMBDA r : r > 0 /\ r < MaxSample), <)
    IN  CASE side = "client" -> Leg(Syn(g), SynAck(g))
          [] side = "server" -> Leg(SynAck(g), Third(g))
          [] OTHER -> IF samples = << >> THEN Unmeasured ELSE samples[(Len(samples) \div 2) + 1]

-----------------------------------------------------------------------------
\* the direction that carries more, outwards when equal
DataDirection(g) ==
    LET bytes(d) == Total(From(g, d), LAMBDA p : p.length)
    IN  IF bytes("in") > bytes("out") THEN "in" ELSE "out"

Interrupts(p, d) == p.direction # d /\ p.ackflag

\* the first flight: payload until the peer acknowledges
Flight(g) ==
    LET d == DataDirection(g)
        data(i) == g[i].direction = d /\ g[i].length > 0
        starts == {i \in DOMAIN g : data(i)}
        first == Min(starts)
        ends == {i \in DOMAIN g : i > first /\ Interrupts(g[i], d)}
    IN  IF starts = {} THEN << >>
        ELSE Payload(From(SubSeq(g, first, IF ends = {} THEN Len(g) ELSE Min(ends) - 1), d))

\* burst_rate's loop over the packets; the last of flights is current
ExtendFlight(flights, p, d) ==
    IF p.direction = d /\ p.length > 0 THEN Append(Front(flights), Append(Last(flights), p))
    ELSE IF Interrupts(p, d) THEN Append(flights, << >>) ELSE flights

BurstRuns(g, d, least) ==
    Kept(FoldLeft(LAMBDA flights, p : ExtendFlight(flights, p, d), << << >> >>, g),
              LAMBDA run : Len(run) >= least)

\* the sample: the first of the longest runs of at least MinBurst packets
BurstSample(g) ==
    LET runs == BurstRuns(g, DataDirection(g), MinBurst)
        longest == {i \in DOMAIN runs : \A j \in DOMAIN runs : Len(runs[i]) >= Len(runs[j])}
    IN  IF runs = << >> THEN << >> ELSE runs[Min(longest)]

-----------------------------------------------------------------------------
Init == scene \in Scene /\ capture = << >>

\* one more packet of the stream is captured, at or after the last one
Capture(p, gap) ==
    /\ Len(capture) < scene.most
    /\ LET now == IF capture = << >> THEN 0 ELSE Last(capture).ts + gap
       IN  capture' = Append(capture, [p EXCEPT !.frame = Len(capture) + 1, !.ts = now])
    /\ UNCHANGED scene

Next == \E p \in scene.packets, gap \in scene.gaps : Capture(p, gap)
Spec == Init /\ [][Next]_vars
=============================================================================
