----------------------------- MODULE MCTaskWorker -----------------------------
(* Small instances of TaskWorker for TLC. *)
EXTENDS TaskWorker

CONSTANTS p1, p2, c1, c2, c3, l2, l3, off, agent

MCPodOf == [c \in Coroutines |-> IF c = c3 THEN p2 ELSE p1]
MCKeyOf == [j \in Jobs |-> IF j = off THEN NoLock ELSE agent]
MCFollowUp == [j \in Jobs |-> IF j = l2 THEN l3 ELSE NoJob]
=============================================================================
