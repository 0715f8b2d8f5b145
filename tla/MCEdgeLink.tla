----------------------------- MODULE MCEdgeLink -----------------------------
(* EdgeLink for TLC. *)
EXTENDS EdgeLink, TLC

=============================================================================
