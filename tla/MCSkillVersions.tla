--------------------------- MODULE MCSkillVersions ---------------------------
(* Small instances of SkillVersions for TLC. *)
EXTENDS SkillVersions, TLC

CONSTANTS c1, c2, c3, f, g

CallSymmetry == Permutations(Calls)
=============================================================================
