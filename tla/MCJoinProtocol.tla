--------------------------- MODULE MCJoinProtocol ---------------------------
(* An instance of the join protocol for TLC. *)
EXTENDS JoinProtocol, TLC

CONSTANTS a1, a2, p1, p2, p3, p4

=============================================================================
