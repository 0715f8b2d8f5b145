--------------------------- MODULE MCSkillSession ---------------------------
(* SkillSession for TLC; requests are interchangeable. *)
EXTENDS SkillSession

RequestSymmetry == Permutations(Requests)

=============================================================================
