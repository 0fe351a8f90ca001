--------------------------- MODULE SkillQueueState ---------------------------
(***************************************************************************)
(* State shared by the trigger service, the extraction workers and the     *)
(* worker pools of MemoryCore's skill pipeline                             *)
(* (MemoryCore/src/core/skill/conversation-add): the Redis agent queue     *)
(* with its two locks, the per-agent files of the buffer storage, and the  *)
(* local state of every process.  A task is identified with the archive()  *)
(* call that creates it, since every call draws a fresh task id.           *)
(***************************************************************************)
EXTENDS Naturals, Sequences, FiniteSets, Functions, SequenceFilters

CONSTANTS
  Agents,              \* agent tuples, the queue's elements
  Legacy,              \* the 4-segment tuples left behind by an old release
  Tasks,               \* calls of archive(), each with the task it registers
  Workers,             \* worker loops of all pools
  Pods,                \* server processes
  AgentOf,             \* AgentOf[t]: the agent task t belongs to
  PodOf,               \* PodOf[p]: the pod that runs call or loop p
  Free,                \* a lock key that is absent
  Orphan,              \* a lock key whose holder no longer exists
  NoTask, NoAgent,     \* unset locals
  PermanentMaxRetries, \* permanent failures before a task is dead-lettered
  ProbedStrategy,      \* peek strategy the Redis server supports
  FaultKinds,          \* the environment faults that may happen
  MaxFaults            \* bound on their number

Procs == Tasks \cup Workers

\* "lmove" stands for every atomic strategy (lmove, evalsha, eval): the
\* worker only tells the downgraded one apart.
Atomic     == "lmove"
Downgrade  == "rpop_lpush_downgrade"
Strategies == {Atomic, Downgrade}

Faults == {"crash", "redis", "storage", "timeout", "resolver", "transient",
           "gc", "slowHolder", "lockLoss"}

ASSUME ConstantsAssumption ==
  /\ Legacy \subseteq Agents /\ IsFiniteSet(Legacy)
  /\ AgentOf \in [Tasks -> Agents \ Legacy]
  /\ PodOf \in [Procs -> Pods]
  /\ Tasks \cap Workers = {}
  /\ Free \notin Procs /\ Orphan \notin Procs /\ Free # Orphan
  /\ NoTask \notin Tasks /\ NoAgent \notin Agents
  /\ PermanentMaxRetries \in Nat \ {0}
  /\ ProbedStrategy \in Strategies
  /\ FaultKinds \subseteq Faults
  /\ MaxFaults \in Nat

VARIABLES
  list,       \* {prefix}:pending-agents, head first (LPUSH head, RPOP tail)
  members,    \* {prefix}:pending-agents-set
  mutex,      \* {prefix}:tasks-mutex:{agent}, its token
  xlock,      \* {prefix}:extract-lock:{agent}, its token
  archives,   \* tasks whose data-<ts>.jsonl exists
  tasks,      \* _tasks.json of each agent
  dlq,        \* _tasks_dlq.json of each agent
  up,         \* pods that run
  strategy,   \* peekStrategy of the pod's queue object
  probed,     \* peekProbed of the pod's queue object
  timer,      \* the pool's periodic self-heal timer is set
  scanPc,     \* where the pod's selfHealScan stands
  scanSet,    \* the members it has still to look at
  scanAgent,  \* the member it is repairing
  pc,         \* where each call and each worker loop stands
  agent,      \* the agent a worker loop has peeked
  head,       \* the task a worker has read at the head of _tasks.json
  doc,        \* the copy of a task file a process is editing
  dead,       \* handlePermanentFailure has set deadTask
  suppress,   \* per-loop table of agents to skip for suppressAgentTtlMs
  extracted,  \* how many extractions of a task have completed (history)
  faults      \* faults so far (bounds the environment)

redisVars == <<list, members, mutex, xlock>>
fileVars  == <<archives, tasks, dlq>>
podVars   == <<up, strategy, probed, timer, scanPc, scanSet, scanAgent>>
localVars == <<agent, head, doc, dead, suppress>>
histVars  == <<extracted, faults>>
vars == <<redisVars, fileVars, podVars, pc, localVars, histVars>>

Entries == [id : Tasks, retry : Nat]

Ids(q) == {q[i].id : i \in DOMAIN q}

\* doc.tasks.filter((t) => t.task_id !== id)
Without(q, id) == Keep(q, {e \in Range(q) : e.id # id})

\* doc.tasks[idx] = { ...cur, retry_count: nextRetry }
WithRetry(q, id) ==
  [i \in DOMAIN q |-> IF q[i].id = id THEN [q[i] EXCEPT !.retry = @ + 1] ELSE q[i]]

\* The agent a call or a worker loop is working for.
Serves(p) == IF p \in Tasks THEN AgentOf[p] ELSE agent[p]

Goto(p, label) == pc' = [pc EXCEPT ![p] = label]

Fault(kind) == kind \in FaultKinds /\ faults < MaxFaults /\ faults' = faults + 1

-----------------------------------------------------------------------------
(* One Redis command each, issued by process p on the agent it serves.     *)

SAdd(p, from, to) ==
  /\ pc[p] = from
  /\ members' = members \cup {Serves(p)}
  /\ Goto(p, to)
  /\ UNCHANGED <<list, mutex, xlock, fileVars, podVars, localVars, histVars>>

LPush(p, from, to) ==
  /\ pc[p] = from
  /\ list' = <<Serves(p)>> \o list
  /\ Goto(p, to)
  /\ UNCHANGED <<members, mutex, xlock, fileVars, podVars, localVars, histVars>>

\* Mutant: SREM is forgotten.
SRemForgotten(p, from, to) ==
  /\ pc[p] = from
  /\ Goto(p, to)
  /\ UNCHANGED <<redisVars, fileVars, podVars, localVars, histVars>>

SRem(p, from, to) ==
  /\ pc[p] = from
  /\ members' = members \ {Serves(p)}
  /\ Goto(p, to)
  /\ UNCHANGED <<list, mutex, xlock, fileVars, podVars, localVars, histVars>>

\* LREM key 0 raw: every occurrence goes.
LRem(p, from, to) ==
  /\ pc[p] = from
  /\ list' = Keep(list, Agents \ {Serves(p)})
  /\ Goto(p, to)
  /\ UNCHANGED <<members, mutex, xlock, fileVars, podVars, localVars, histVars>>

\* SET key token NX PX: withTasksMutex enters its critical section.
MutexAcquire(p, from, to) ==
  /\ pc[p] = from
  /\ mutex[Serves(p)] = Free
  /\ mutex' = [mutex EXCEPT ![Serves(p)] = p]
  /\ Goto(p, to)
  /\ UNCHANGED <<list, members, xlock, fileVars, podVars, localVars, histVars>>

\* Mutant: DEL whoever holds the key.
MutexDelete(p, from, to) ==
  /\ pc[p] = from
  /\ mutex' = [mutex EXCEPT ![Serves(p)] = Free]
  /\ doc' = [doc EXCEPT ![p] = <<>>]
  /\ Goto(p, to)
  /\ UNCHANGED <<list, members, xlock, fileVars, podVars, agent, head, dead, suppress,
                 histVars>>

\* LUA_RELEASE in the finally block: only the token's owner deletes the key.
\* A failed release is swallowed and leaves the key to its TTL.
MutexRelease(p, from, to) ==
  /\ pc[p] = from
  /\ LET mine == mutex[Serves(p)] = p IN
     \/ /\ mutex' = [mutex EXCEPT ![Serves(p)] = IF mine THEN Free ELSE @]
        /\ UNCHANGED faults
     \/ /\ mine
        /\ Fault("redis")
        /\ mutex' = [mutex EXCEPT ![Serves(p)] = Orphan]
  /\ doc' = [doc EXCEPT ![p] = <<>>]
  /\ Goto(p, to)
  /\ UNCHANGED <<list, members, xlock, fileVars, podVars, agent, head, dead,
                 suppress, extracted>>

\* readTasks inside the critical section.
ReadTasks(p, from, to) ==
  /\ pc[p] = from
  /\ doc' = [doc EXCEPT ![p] = tasks[Serves(p)]]
  /\ Goto(p, to)
  /\ UNCHANGED <<redisVars, fileVars, podVars, agent, head, dead, suppress, histVars>>

\* An await of p rejects and control resumes at label to.
Reject(p, kind, from, to) ==
  /\ pc[p] \in from
  /\ Fault(kind)
  /\ Goto(p, to)
  /\ UNCHANGED <<redisVars, fileVars, podVars, localVars, extracted>>
=============================================================================
