----------------------------- MODULE MCFlowRequest -----------------------------
(* A small instance of FlowRequest: the connection asked for is not in the   *)
(* first version of the capture, too large in the third; the frame asked for *)
(* is only in the second.                                                    *)
EXTENDS FlowRequest
FlowThere == {v \in Version : v > 1}
FrameThere == {2}
===============================================================================
