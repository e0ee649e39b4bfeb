----------------------------- MODULE MCFlowRead -----------------------------
(* FlowRead over the indexes of short captures. *)
EXTENDS FlowRead

\* enough to open, close and reopen a connection
SomeFlags == {{"SYN"}, {"ACK"}, {"RST"}}
=============================================================================
