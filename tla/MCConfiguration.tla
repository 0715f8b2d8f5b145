-------------------------- MODULE MCConfiguration --------------------------
(* Configuration for TLC. *)
EXTENDS Configuration, TLC

MCSymmetry == Permutations(Values) \cup Permutations(Saves)

=============================================================================
