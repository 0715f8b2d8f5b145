----------------------------- MODULE MCPushUrl -----------------------------
(* PushUrl for TLC. *)
EXTENDS PushUrl, TLC

=============================================================================
