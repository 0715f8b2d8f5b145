--------------------------- MODULE MCHomeSession ---------------------------
(* HomeSession for TLC. *)
EXTENDS HomeSession, TLC

=============================================================================
