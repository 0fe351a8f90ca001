---------------------------- MODULE SkillPipeline ----------------------------
(***************************************************************************)
(* The skill pipeline of MemoryCore: archive() calls, worker pools and the *)
(* environment acting on one Redis queue and one object store.             *)
(***************************************************************************)
EXTENDS SkillTrigger, SkillWorkerPool

Init ==
  /\ list \in {q \in [1..Cardinality(Legacy) -> Legacy] : Range(q) = Legacy}
  /\ members = Legacy
  /\ mutex = [a \in Agents |-> Free]
  /\ xlock = [a \in Agents |-> Free]
  /\ archives = {}
  /\ tasks = [a \in Agents |-> <<>>]
  /\ dlq = [a \in Agents |-> <<>>]
  /\ up = {}
  /\ strategy = [p \in Pods |-> Atomic]
  /\ probed = [p \in Pods |-> FALSE]
  /\ timer = [p \in Pods |-> FALSE]
  /\ scanPc = [p \in Pods |-> "none"]
  /\ scanSet = [p \in Pods |-> {}]
  /\ scanAgent = [p \in Pods |-> NoAgent]
  /\ pc = [x \in Procs |-> IF x \in Tasks THEN "new" ELSE "off"]
  /\ agent = [w \in Workers |-> NoAgent]
  /\ head = [w \in Workers |-> NoTask]
  /\ doc = [x \in Procs |-> <<>>]
  /\ dead = [w \in Workers |-> FALSE]
  /\ suppress = [w \in Workers |-> {}]
  /\ extracted = [t \in Tasks |-> 0]
  /\ faults = 0

Environment ==
  \/ \E p \in Pods : Crash(p)
  \/ \E a \in Agents : MutexExpires(a) \/ ExtractLockExpires(a)
  \/ \E t \in Tasks : ArchiveCollected(t)

Next ==
  \/ \E t \in Tasks : Trigger(t) \/ TriggerFails(t)
  \/ \E w \in Workers :
       \/ Loop(w) \/ PoolFails(w)
       \/ Consume(w) \/ TransientFailure(w) \/ WorkerFails(w)
       \/ SuppressExpires(w)
  \/ \E p \in Pods :
       PoolStart(p) \/ ProbePeekStrategy(p) \/ Scan(p)
  \/ Environment

Spec == Init /\ [][Next]_vars

\* Node runs every callback it has queued; a started call, loop or scan makes
\* progress; a dead pod is restarted; a key without a holder reaches its TTL.
\* Nothing obliges a client to call, a fault to happen or a failure to stop.
Fairness ==
  /\ \A t \in Tasks : WF_vars(pc[t] # "new" /\ Trigger(t))
  /\ \A w \in Workers : WF_vars(Loop(w)) /\ WF_vars(Consume(w)) /\ WF_vars(SuppressExpires(w))
  /\ \A p \in Pods : WF_vars(PoolStart(p)) /\ WF_vars(ProbePeekStrategy(p)) /\ WF_vars(Scan(p))
  /\ \A a \in Agents : /\ WF_vars(mutex[a] = Orphan /\ MutexExpires(a))
                       /\ WF_vars(xlock[a] = Orphan /\ ExtractLockExpires(a))

FairSpec == Spec /\ Fairness

-----------------------------------------------------------------------------
(* Properties *)

WorkerLabels == PoolLabels \cup ConsumeLabels

QueueTypeOK ==
  /\ list \in Seq(Agents) /\ members \subseteq Agents
  /\ mutex \in [Agents -> Procs \cup {Free, Orphan}]
  /\ xlock \in [Agents -> Workers \cup {Free, Orphan}]

FilesTypeOK ==
  /\ archives \subseteq Tasks
  /\ tasks \in [Agents -> Seq(Entries)] /\ dlq \in [Agents -> Seq(Entries)]

PodsTypeOK ==
  /\ up \subseteq Pods
  /\ strategy \in [Pods -> Strategies]
  /\ probed \in [Pods -> BOOLEAN] /\ timer \in [Pods -> BOOLEAN]
  /\ scanPc \in [Pods -> {"none", "smembers", "check", "srem", "lrem", "lpush"}]
  /\ scanSet \in [Pods -> SUBSET Agents]
  /\ scanAgent \in [Pods -> Agents \cup {NoAgent}]
  /\ \A p \in Pods : scanPc[p] \in {"srem", "lrem", "lpush"} => scanAgent[p] \in Agents

LocalsTypeOK ==
  /\ agent \in [Workers -> Agents \cup {NoAgent}]
  /\ head \in [Workers -> Tasks \cup {NoTask}]
  /\ doc \in [Procs -> Seq(Entries)]
  /\ dead \in [Workers -> BOOLEAN]
  /\ suppress \in [Workers -> SUBSET Agents]

\* Labels of the right process, and locals set where they are used.
LabelsTypeOK ==
  /\ pc \in [Procs -> TriggerLabels \cup WorkerLabels]
  /\ \A t \in Tasks : pc[t] \in TriggerLabels
  /\ \A w \in Workers :
       /\ pc[w] \in WorkerLabels
       /\ pc[w] \notin {"off", "idle"} => agent[w] \in Agents
       /\ pc[w] \in HeadLabels => head[w] \in Tasks

HistoryTypeOK == extracted \in [Tasks -> Nat] /\ faults \in Nat

\* Type invariant of the whole state: a process works on an agent, and on a
\* task, exactly where the code dereferences one.
TypeOK ==
  /\ QueueTypeOK /\ FilesTypeOK /\ PodsTypeOK
  /\ LocalsTypeOK /\ LabelsTypeOK /\ HistoryTypeOK

InCritical(p) ==
  \/ p \in Tasks /\ pc[p] \in TriggerCritical
  \/ p \in Workers /\ pc[p] \in ConsumeCritical

\* While no critical section outlives its TTL, two processes are never inside
\* the tasks-mutex of one agent: this is what makes "register and enqueue"
\* and "look empty and dequeue" exclude each other (trigger-service.ts).
MutexExclusion == \A p, q \in Procs :
  InCritical(p) /\ InCritical(q) /\ p # q => Serves(p) # Serves(q)

\* While renewals arrive, one agent is extracted by one worker at a time,
\* the assumption under which appendDlq runs without a lock.
ExtractExclusion == \A v, w \in Workers :
  pc[v] \in ConsumeLocked /\ pc[w] \in ConsumeLocked /\ v # w => agent[v] # agent[w]

\* An agent with registered tasks whose mutex is free is in the set and in
\* the list: otherwise SADD answers 0 for ever and no worker sees its tasks.
NoStrandedAgent == \A a \in Agents :
  tasks[a] # <<>> /\ mutex[a] = Free => a \in members /\ a \in Range(list)

\* A task its registering call has acknowledged is in the task file, has
\* been extracted, is dead-lettered, or is on its way to the dead-letter file.
NoAcceptedTaskVanishes == \A t \in Tasks : pc[t] = "acked" =>
  \/ t \in Ids(tasks[AgentOf[t]])
  \/ extracted[t] > 0
  \/ t \in Ids(dlq[AgentOf[t]])
  \/ \E w \in Workers : dead[w] /\ head[w] = t

\* A worker that looks for a task's archive finds it: archives are written
\* before their tasks are registered.
NoGhost == \A w \in Workers : pc[w] = "readArchive" => head[w] \in archives

\* The pipeline is at-least-once, but only a failure makes it settle a task
\* again: extractions and dead-letterings of a task are at most one more than
\* the faults so far, and a dead-lettered task is not kept for another try.
SettledOnce == \A t \in Tasks :
  LET letters == {i \in DOMAIN dlq[AgentOf[t]] : dlq[AgentOf[t]][i].id = t} IN
  /\ extracted[t] + Cardinality(letters) <= 1 + faults
  /\ letters # {} => t \notin Ids(tasks[AgentOf[t]])

\* Tasks of an agent are extracted in the order they were registered: only
\* the head of the task file is, however often it has failed before.
InRegistrationOrder == [][\A t \in Tasks :
  extracted'[t] # extracted[t] =>
    /\ tasks[AgentOf[t]] # <<>>
    /\ tasks[AgentOf[t]][1].id = t]_vars

\* In a step without a fault, a key that names a process goes only when that
\* process leaves the section (mutex) or the agent (extract-lock) it protects.
OwnKeyUnlocked == faults' = faults => \A a \in Agents, p \in Procs :
  /\ mutex[a] = p /\ mutex'[a] # p => InCritical(p) /\ ~InCritical(p)'
  /\ xlock[a] = p /\ xlock'[a] # p => pc[p] # "idle" /\ pc'[p] = "idle"

\* Only its holder ends a lock: a process whose lock has expired and been
\* taken over leaves the new holder's key alone when it releases (LUA_RELEASE).
OnlyOwnerUnlocks == [][OwnKeyUnlocked]_vars

\* An acknowledged task leaves the task file sooner or later.
AcceptedTaskIsTaken == \A t \in Tasks :
  pc[t] = "acked" ~> t \notin Ids(tasks[AgentOf[t]])

\* Once the calls are over the queue empties: agents without tasks, and
\* legacy tuples, are taken off both the list and the set.
QueueDrains ==
  (\A t \in Tasks : pc[t] \in {"acked", "failed"}) ~> (list = <<>> /\ members = {})

Status(t) ==
  CASE extracted[t] > 0 -> "delivered"
    [] extracted[t] = 0 /\ t \in Ids(dlq[AgentOf[t]]) -> "dead"
    [] extracted[t] = 0 /\ \E w \in Workers : dead[w] /\ head[w] = t -> "dead"
    [] OTHER -> IF t \in Ids(tasks[AgentOf[t]]) THEN "pending" ELSE "absent"

Delivery == INSTANCE TaskDelivery WITH status <- [t \in Tasks |-> Status(t)]

\* The pipeline implements the promise of TaskDelivery.
DeliversTasks == Delivery!Spec
=============================================================================
