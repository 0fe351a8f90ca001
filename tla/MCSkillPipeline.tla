--------------------------- MODULE MCSkillPipeline ---------------------------
(* Small instances of SkillPipeline for TLC. *)
EXTENDS SkillPipeline

CONSTANTS a1, a2, old, t1, t2, w1, w2, p1, p2

OneAgent == [t \in Tasks |-> a1]
TwoAgents == [t \in Tasks |-> IF t = t2 THEN a2 ELSE a1]

\* Calls and loops spread over two pods, or all on one.
OnPods == [x \in Procs |-> IF x \in {t1, w1} THEN p1 ELSE p2]
OnOnePod == [x \in Procs |-> p1]
=============================================================================
