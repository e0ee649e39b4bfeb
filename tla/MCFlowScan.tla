----------------------------- MODULE MCFlowScan -----------------------------
(* FlowScan on a few frames of two endpoint pairs. *)
EXTENDS FlowScan

\* the flags of a handshake, of data and of the two ways to close
SomeFlags == {{"SYN"}, {"SYN", "ACK"}, {"ACK"}, {"FIN", "ACK"}, {"RST"}}
=============================================================================
