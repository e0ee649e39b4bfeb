----------------------------- MODULE StreamPacket -----------------------------
(***************************************************************************)
(* The packets of one stream as the analyses of packettrain/ read them: a  *)
(* sequence in capture order of records with                               *)
(*    frame, time      number in the stream, time_ms since its first       *)
(*    ts               the capture clock, or None where it was dropped     *)
(*    direction        "out" from the client, "in" from the server         *)
(*    seq, ack, length raw sequence and acknowledgement number, payload    *)
(*    syn, ackflag, fin, rst, sack, retrans, dupack    flags and TShark's  *)
(*                     labels                                              *)
(*    window           advertised window, or None when the field is absent *)
(*    wscale           window scale option, or None                        *)
(*    ttl, rtt, sliced hop limit, ACK RTT sample (0: absent), cut short    *)
(***************************************************************************)
EXTENDS Sequencing, SequencesExt, FiniteSetsExt

CONSTANTS
    None,           \* a measurement that cannot be taken
    Endpoint        \* the two addresses of the stream

\* a missing measurement is no measured one
ASSUME NoneIsNoNumber == None \notin Int
ASSUME TwoEndpoints == \E a, b \in Endpoint : a # b /\ Endpoint = {a, b}

Direction == {"out", "in"}
Packet == [src: Endpoint, frame: Nat, ts: Nat \cup {None}, direction: Direction, time: Nat,
           at: Nat, ackat: Nat, seq: Nat, ack: Nat, length: Nat, syn: BOOLEAN, ackflag: BOOLEAN,
           fin: BOOLEAN, rst: BOOLEAN, sack: BOOLEAN, wscale: Nat \cup {None}, retrans: BOOLEAN,
           dupack: BOOLEAN, sliced: BOOLEAN, window: Nat \cup {None}, ttl: Nat, rtt: Nat]

Opposite(d) == IF d = "out" THEN "in" ELSE "out"

From(packets, d) == Kept(packets, LAMBDA p : p.direction = d)
Payload(packets) == Kept(packets, LAMBDA p : p.length > 0)

ByTime(packets) == Sorted(packets, LAMBDA p, q : p.time < q.time)

Frames(packets) == [i \in DOMAIN packets |-> packets[i].frame]
Total(seq, size(_)) == FoldLeft(LAMBDA sum, x : sum + size(x), 0, seq)
Least(a, b) == IF a < b THEN a ELSE b
Most(a, b) == IF a > b THEN a ELSE b

\* the origin of the capture clock, None when no packet has its time
Clocked(packets) == {p.ts : p \in Range(packets)} \ {None}
Origin(packets) == IF Clocked(packets) = {} THEN None ELSE Min(Clocked(packets))

\* an explicitly advertised zero; an absent field is not one
ZeroWindow(p) == p.window = 0
=============================================================================
