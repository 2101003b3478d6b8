---------------------------- MODULE MCTcpFraming ----------------------------
(* Messages for TLC: without a body, as a status message, shorter than the     *)
(* header, and longer.                                                         *)
EXTENDS TcpFraming

Bodies == [m \in Messages |-> CASE m = "status" -> 0 [] m = "route" -> 2 [] m = "locations" -> 5]
=============================================================================
