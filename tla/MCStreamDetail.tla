---------------------------- MODULE MCStreamDetail ----------------------------
(* Scenes for StreamDetail: what a short capture can contain. *)
EXTENDS StreamProperties
CONSTANTS a, b

Ends == {a, b}

Isn == [e \in {a, b} |-> IF e = a THEN 13 ELSE 5]
Peer == [e \in {a, b} |-> IF e = a THEN b ELSE a]
\* a packet of an endpoint, not yet captured, from a place in its bytes, acknowledging a place of the peer's
Plain(src, at, ackat) ==
    [src |-> src, frame |-> 0, ts |-> 0, direction |-> "out", time |-> 0, at |-> at, ackat |-> ackat, seq |-> (Isn[src] + at) % SeqSpace,
     ack |-> (Isn[Peer[src]] + ackat) % SeqSpace, length |-> 0, syn |-> FALSE, ackflag |-> TRUE,
     fin |-> FALSE, rst |-> FALSE, sack |-> FALSE, wscale |-> None, retrans |-> FALSE, dupack |-> FALSE, sliced |-> FALSE, window |-> 1, ttl |-> 0, rtt |-> 0]
Data_(src, at, length) == [Plain(src, at, 1) EXCEPT !.length = length]
SynOf(src) == [Plain(src, 0, 0) EXCEPT !.syn = TRUE, !.ackflag = FALSE, !.ack = 0]
SynAckOf(src) == [Plain(src, 0, 1) EXCEPT !.syn = TRUE]

Bytes == [packets |-> {SynOf(a), Plain(b, 1, 4), [Plain(b, 1, 2) EXCEPT !.dupack = TRUE], Data_(b, 1, 1)}
                       \cup {Data_(a, 1, 2), Data_(a, 1, 3), Data_(a, 2, 1), Data_(a, 2, 2)},
          gaps |-> {0, 1}, most |-> 4]
Quiet == [packets |-> {SynOf(a), SynAckOf(b), Data_(a, 1, 1), [Data_(a, 1, 1) EXCEPT !.retrans = TRUE],
                       Plain(b, 1, 2), [Plain(b, 1, 2) EXCEPT !.window = 0], Plain(a, 1, 1)},
          gaps |-> {1, 5}, most |-> 4]
Windows == [packets |-> {[SynOf(a) EXCEPT !.window = 0]} \cup
                        {[Plain(e, 1, 1) EXCEPT !.window = w] : e \in {a, b}, w \in {0, 1}},
            gaps |-> {0, 3}, most |-> 4]
Handshake == [packets |-> {[p EXCEPT !.ttl = t] : p \in {SynOf(a), SynAckOf(b)}, t \in {0, 32, 63, 64}}
                          \cup {[Plain(a, 1, 1) EXCEPT !.ttl = t, !.rtt = r] : t \in {0, 64}, r \in {0, 4}},
              gaps |-> {0, 1, 4}, most |-> 3]
Acks == [packets |-> {[Plain(b, 1, 1) EXCEPT !.rtt = r] : r \in {0, 1, 4, 9}},
         gaps |-> {0, 6}, most |-> 4]
Options == [packets |-> {[p EXCEPT !.wscale = w] : p \in {SynOf(a), SynAckOf(b)}, w \in {None, 0, 2}}
                        \cup {[Plain(b, 1, 1) EXCEPT !.window = w] : w \in {None, 0, 1}}
                        \cup {[Plain(b, 1, 1) EXCEPT !.rst = TRUE], [Plain(a, 1, 1) EXCEPT !.sack = TRUE]},
            gaps |-> {0, 3}, most |-> 3]
Scenes == {Bytes, Quiet, Windows, Handshake, Acks, Options}
=============================================================================
