--------------------------- MODULE MCEdgeStream ----------------------------
(* EdgeStream for TLC: two requests with Music Assistant's own queue id. *)
EXTENDS EdgeStream, TLC

CONSTANTS r1, r2, queue

=============================================================================
