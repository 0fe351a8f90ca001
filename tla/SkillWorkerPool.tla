--------------------------- MODULE SkillWorkerPool ---------------------------
(***************************************************************************)
(* SkillWorkerPool (worker-pool.ts) on the peek side of the agent queue    *)
(* (agent-task-queue.ts): pool start, the strategy probe, the worker loop  *)
(* with its suppress table, selfHealScan, and the death of a pod.          *)
(***************************************************************************)
EXTENDS SkillExtractWorker

WorkersOf(p) == {w \in Workers : PodOf[w] = p}

\* start(): the self-heal timer is set from the strategy the queue object
\* reports now.  No loop has peeked yet, so it is the field's initial value,
\* whatever the server supports.  The cold scan runs alongside.
PoolStart(p) ==
  /\ p \notin up
  /\ up' = up \cup {p}
  /\ timer' = [timer EXCEPT ![p] = strategy[p] = Downgrade]
  /\ scanPc' = [scanPc EXCEPT ![p] = "smembers"]
  /\ pc' = [x \in Procs |-> IF x \in WorkersOf(p) THEN "idle" ELSE pc[x]]
  /\ UNCHANGED <<redisVars, fileVars, strategy, probed, scanSet, scanAgent, localVars,
                 histVars>>

\* What RPOP, or the atomic rotation, leaves of the list.
Peeked(s) ==
  LET rest == SubSeq(list, 1, Len(list) - 1)
  IN IF s = Downgrade THEN rest ELSE <<list[Len(list)]>> \o rest

\* probePeekStrategy: the probe of an atomic strategy is itself a rotation.
ProbePeekStrategy(p) ==
  /\ p \in up /\ ~probed[p]
  /\ probed' = [probed EXCEPT ![p] = TRUE]
  /\ strategy' = [strategy EXCEPT ![p] = ProbedStrategy]
  /\ list' = IF ProbedStrategy = Downgrade \/ list = <<>> THEN list ELSE Peeked(Atomic)
  /\ UNCHANGED <<members, mutex, xlock, fileVars, up, timer, scanPc, scanSet, scanAgent,
                 pc, localVars, histVars>>

\* peekAgent returns a, which the loop skips, purges or consumes.
Peek(w, a) ==
  /\ pc[w] = "idle"
  /\ probed[PodOf[w]]
  /\ list # <<>> /\ list[Len(list)] = a
  /\ list' = Peeked(strategy[PodOf[w]])
  /\ \/ a \in suppress[w] /\ UNCHANGED <<pc, agent>>
     \/ /\ a \notin suppress[w]
        /\ Goto(w, IF a \in Legacy THEN "purgeSrem" ELSE "resolve")
        /\ agent' = [agent EXCEPT ![w] = a]
  /\ UNCHANGED <<members, mutex, xlock, fileVars, podVars, head, doc, dead, suppress,
                 histVars>>

\* suppressAgentTtlMs has passed.
SuppressExpires(w) == \E a \in suppress[w] :
  /\ suppress' = [suppress EXCEPT ![w] = @ \ {a}]
  /\ UNCHANGED <<redisVars, fileVars, podVars, pc, agent, head, doc, dead, histVars>>

\* resolveBuffer / resolveExtractor / resolveSink of the agent's instance.
ResolveResources(w) ==
  /\ pc[w] = "resolve"
  /\ Goto(w, "acquire")
  /\ UNCHANGED <<redisVars, fileVars, podVars, localVars, histVars>>

\* A legacy tuple has been purged, or its purge has failed: back to the loop.
LeaveLegacy(w) ==
  /\ pc[w] = "purged"
  /\ Goto(w, "idle")
  /\ agent' = [agent EXCEPT ![w] = NoAgent]
  /\ UNCHANGED <<redisVars, fileVars, podVars, head, doc, dead, suppress, histVars>>

PoolFails(w) ==
  \/ Reject(w, "resolver", {"resolve"}, "abort")
  \/ Reject(w, "redis", {"purgeSrem", "purgeLrem"}, "purged")

Loop(w) ==
  \/ \E a \in Agents : Peek(w, a)
  \/ ResolveResources(w)
  \/ SRem(w, "purgeSrem", "purgeLrem")
  \/ LRem(w, "purgeLrem", "purged")
  \/ LeaveLegacy(w)

-----------------------------------------------------------------------------
(* selfHealScan *)

\* A scan begins with the pool, and whenever its timer fires.
ScanMembers(p) ==
  /\ scanPc[p] \in IF timer[p] THEN {"smembers", "none"} ELSE {"smembers"}
  /\ scanSet' = [scanSet EXCEPT ![p] = members]
  /\ scanPc' = [scanPc EXCEPT ![p] = "check"]
  /\ UNCHANGED <<redisVars, fileVars, up, strategy, probed, timer, scanAgent, pc,
                 localVars, histVars>>

\* A legacy member is purged, one missing from the list is pushed back: the
\* list may change between this look and the push.
ScanCheck(p) ==
  /\ scanPc[p] = "check"
  /\ \E a \in scanSet[p] :
       /\ scanSet' = [scanSet EXCEPT ![p] = @ \ {a}]
       /\ scanAgent' = [scanAgent EXCEPT ![p] = a]
       /\ scanPc' = [scanPc EXCEPT ![p] = IF a \in Legacy THEN "srem"
                                          ELSE IF a \in Range(list) THEN "check"
                                          ELSE "lpush"]
  /\ UNCHANGED <<redisVars, fileVars, up, strategy, probed, timer, pc, localVars, histVars>>

ScanSRem(p) ==
  /\ scanPc[p] = "srem"
  /\ members' = members \ {scanAgent[p]}
  /\ scanPc' = [scanPc EXCEPT ![p] = "lrem"]
  /\ UNCHANGED <<list, mutex, xlock, fileVars, up, strategy, probed, timer, scanSet,
                 scanAgent, pc, localVars, histVars>>

ScanLRem(p) ==
  /\ scanPc[p] = "lrem"
  /\ list' = Keep(list, Agents \ {scanAgent[p]})
  /\ scanPc' = [scanPc EXCEPT ![p] = "check"]
  /\ UNCHANGED <<members, mutex, xlock, fileVars, up, strategy, probed, timer, scanSet,
                 scanAgent, pc, localVars, histVars>>

\* enqueueRawAgent
ScanLPush(p) ==
  /\ scanPc[p] = "lpush"
  /\ list' = <<scanAgent[p]>> \o list
  /\ scanPc' = [scanPc EXCEPT ![p] = "check"]
  /\ UNCHANGED <<members, mutex, xlock, fileVars, up, strategy, probed, timer, scanSet,
                 scanAgent, pc, localVars, histVars>>

\* The scan ends, or dies of a Redis error that is only logged.
ScanEnd(p) ==
  /\ \/ scanPc[p] = "check" /\ scanSet[p] = {} /\ UNCHANGED faults
     \/ scanPc[p] # "none" /\ Fault("redis")
  /\ scanPc' = [scanPc EXCEPT ![p] = "none"]
  /\ scanSet' = [scanSet EXCEPT ![p] = {}]
  /\ scanAgent' = [scanAgent EXCEPT ![p] = NoAgent]
  /\ UNCHANGED <<redisVars, fileVars, up, strategy, probed, timer, pc, localVars, extracted>>

Scan(p) ==
  \/ ScanMembers(p) \/ ScanCheck(p) \/ ScanSRem(p) \/ ScanLRem(p) \/ ScanLPush(p)
  \/ ScanEnd(p)

-----------------------------------------------------------------------------
(* The environment: a pod dies, a key reaches its TTL. *)

\* Everything local to the pod is gone; the locks it held stay in Redis.
Crash(p) ==
  LET gone == {x \in Procs : PodOf[x] = p /\ pc[x] \notin {"new", "acked", "failed"}}
  IN
  /\ p \in up
  /\ Fault("crash")
  /\ up' = up \ {p}
  /\ strategy' = [strategy EXCEPT ![p] = Atomic]
  /\ probed' = [probed EXCEPT ![p] = FALSE]
  /\ timer' = [timer EXCEPT ![p] = FALSE]
  /\ scanPc' = [scanPc EXCEPT ![p] = "none"]
  /\ scanSet' = [scanSet EXCEPT ![p] = {}]
  /\ scanAgent' = [scanAgent EXCEPT ![p] = NoAgent]
  /\ mutex' = [a \in Agents |-> IF mutex[a] \in gone THEN Orphan ELSE mutex[a]]
  /\ xlock' = [a \in Agents |-> IF xlock[a] \in gone THEN Orphan ELSE xlock[a]]
  /\ pc' = [x \in Procs |-> IF x \notin gone THEN pc[x]
                            ELSE IF x \in Workers THEN "off" ELSE "failed"]
  /\ agent' = [w \in Workers |-> IF w \in gone THEN NoAgent ELSE agent[w]]
  /\ head' = [w \in Workers |-> IF w \in gone THEN NoTask ELSE head[w]]
  /\ doc' = [x \in Procs |-> IF x \in gone THEN <<>> ELSE doc[x]]
  /\ dead' = [w \in Workers |-> IF w \in gone THEN FALSE ELSE dead[w]]
  /\ suppress' = [w \in Workers |-> IF w \in gone THEN {} ELSE suppress[w]]
  /\ UNCHANGED <<list, members, fileVars, extracted>>

\* Mutants: a TTL too short for the work it covers.
MutexExpiresEarly(a) ==
  /\ mutex[a] # Free
  /\ mutex' = [mutex EXCEPT ![a] = Free]
  /\ UNCHANGED <<list, members, xlock, fileVars, podVars, pc, localVars, histVars>>

ExtractLockExpiresEarly(a) ==
  /\ xlock[a] # Free
  /\ xlock' = [xlock EXCEPT ![a] = Free]
  /\ UNCHANGED <<list, members, mutex, fileVars, podVars, pc, localVars, histVars>>

\* The TTL removes a key whose holder is gone, or (a fault) one whose holder
\* is still running: a critical section slower than lockTtlMs, renewals that
\* did not reach Redis in time.
MutexExpires(a) ==
  /\ \/ mutex[a] = Orphan /\ UNCHANGED faults
     \/ mutex[a] \in Procs /\ Fault("slowHolder")
  /\ mutex' = [mutex EXCEPT ![a] = Free]
  /\ UNCHANGED <<list, members, xlock, fileVars, podVars, pc, localVars, extracted>>

ExtractLockExpires(a) ==
  /\ \/ xlock[a] = Orphan /\ UNCHANGED faults
     \/ xlock[a] \in Procs /\ Fault("lockLoss")
  /\ xlock' = [xlock EXCEPT ![a] = Free]
  /\ UNCHANGED <<list, members, mutex, fileVars, podVars, pc, localVars, extracted>>

\* The object store's lifecycle rule removes an archive.
ArchiveCollected(t) ==
  /\ t \in archives
  /\ Fault("gc")
  /\ archives' = archives \ {t}
  /\ UNCHANGED <<redisVars, tasks, dlq, podVars, pc, localVars, extracted>>

PoolLabels == {"off", "idle", "resolve", "purgeSrem", "purgeLrem", "purged"}
=============================================================================
