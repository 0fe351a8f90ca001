--------------------------- MODULE MCMemoryPipeline ---------------------------
(* Small instances of MemoryPipeline for TLC. *)
EXTENDS MemoryPipeline

CONSTANTS s1, s2, p1, p2

MCProfileOf == [s \in Sessions |-> IF s = s1 THEN p1 ELSE p2]
=============================================================================
