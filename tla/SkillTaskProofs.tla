--------------------------- MODULE SkillTaskProofs ---------------------------
(***************************************************************************)
(* Theorems about the life of a task in SkillPipeline: tasks of an agent   *)
(* are extracted in the order of their registration, a task is settled     *)
(* once unless something fails, an acknowledged task does not vanish, the  *)
(* pipeline implements TaskDelivery, and no agent is stranded.             *)
(***************************************************************************)
EXTENDS SkillPipelineProofs

\* Where a call stands before it has registered its task ...
Unregistered == {"new", "lock", "read", "write"}

\* ... and after, unless it fails.
Enqueued == {"sadd", "lpush", "ackUnlock", "acked"}

\* Where a worker relies on its task being the first of _tasks.json.
HeadKept == {"headUnlock", "readArchive", "extract", "delLock", "delRead", "delWrite",
             "pfLock", "pfRead", "pfWrite"}

\* Where a worker deletes the task it has extracted.
Settling == {"delLock", "delRead", "delWrite"}

\* Where only the downgraded peek strategy leads inside a round.
Requeues == {"keepSadd", "keepLpush", "dropSrem", "dropLrem"}

\* Where a dead task is between _tasks.json and the dead-letter file ...
OnItsWay == Requeues \cup {"roundUnlock", "dlqRead", "dlqWrite"}

\* ... and where a worker still remembers one.
DeadLabels == OnItsWay \cup {"errUnlock", "abort", "release"}

-----------------------------------------------------------------------------
(* The invariant about files, the copies of them that processes edit, and   *)
(* the tasks workers have at hand.                                          *)

\* Every entry is in its agent's file.
FilesOwned ==
  \A a \in Agents : \A t \in Ids(tasks[a]) \cup Ids(dlq[a]) : AgentOf[t] = a

\* Whoever is about to write a file edits a copy that is up to date.
CopiesFresh ==
  /\ \A t \in Tasks : pc[t] = "write" => doc[t] = tasks[AgentOf[t]]
  /\ \A w \in Workers :
       /\ pc[w] \in {"delWrite", "pfWrite"} => doc[w] = tasks[agent[w]]
       /\ pc[w] = "dlqWrite" => doc[w] = dlq[agent[w]]

\* The task a worker has read at the head of _tasks.json stays there.
HeadsFirst == \A w \in Workers :
  pc[w] \in HeadKept => tasks[agent[w]] # <<>> /\ tasks[agent[w]][1].id = head[w]

\* A dead task has left _tasks.json for good, and only the worker that has
\* taken one goes to the dead-letter file.
DeadTaken == \A w \in Workers :
  /\ dead[w] => /\ pc[w] \in DeadLabels
                /\ head[w] \in Tasks /\ AgentOf[head[w]] = agent[w]
                /\ head[w] \notin Ids(tasks[agent[w]])
                /\ pc[head[w]] \notin Unregistered
  /\ pc[w] \in {"dlqRead", "dlqWrite"} => dead[w]

\* A task that is not registered is nowhere.
Unseen == \A t \in Tasks : pc[t] \in Unregistered =>
  /\ t \notin Ids(tasks[AgentOf[t]]) /\ t \notin Ids(dlq[AgentOf[t]])
  /\ extracted[t] = 0

TaskFacts == FilesOwned /\ CopiesFresh /\ HeadsFirst /\ DeadTaken /\ Unseen

FileInv == TypeOK /\ HoldsMutex /\ HoldsExtractLock /\ TaskFacts

\* No critical section and no extraction outlives its key.
LocksLast == "slowHolder" \notin FaultKinds /\ "lockLoss" \notin FaultKinds

-----------------------------------------------------------------------------
(* Steps that leave the files, and what has been extracted, alone.          *)

CallStep(t) ==
  /\ pc'[t] \in Unregistered => pc[t] \in Unregistered
  /\ pc'[t] \in Enqueued => pc[t] \in Enqueued
  /\ pc'[t] = "write" => doc'[t] = tasks[AgentOf[t]]

WorkerStep(w) ==
  /\ pc'[w] \in HeadKept => pc[w] \in HeadKept
  /\ dead'[w] => dead[w] /\ pc'[w] \in DeadLabels
  /\ dead'[w] \/ pc'[w] \in HeadKept => agent'[w] = agent[w] /\ head'[w] = head[w]
  /\ dead'[w] /\ pc'[w] \in OnItsWay => pc[w] \in OnItsWay
  /\ pc'[w] \in {"dlqRead", "dlqWrite"} => dead'[w]
  /\ pc'[w] \in {"delWrite", "pfWrite"} => doc'[w] = tasks[agent[w]]
  /\ pc'[w] = "dlqWrite" => doc'[w] = dlq[agent[w]]
  /\ faults' = faults /\ pc[w] \in Settling => pc'[w] \in Settling
  /\ pc'[w] \in Settling =>
       pc[w] \in Settling \/ (pc[w] = "readArchive" /\ head[w] \notin archives)
  /\ dead'[w] /\ pc'[w] \in {"errUnlock", "abort"} =>
       \/ pc[w] \in {"errUnlock", "abort"}
       \/ pc[w] \in Requeues /\ "redis" \in FaultKinds
  /\ dead'[w] /\ pc'[w] = "release" => pc[w] = "release" \/ "storage" \in FaultKinds
  /\ dead[w] /\ ~dead'[w] => pc[w] \in {"release", "abort"} \/ "crash" \in FaultKinds

Plain ==
  /\ UNCHANGED <<tasks, dlq, extracted>>
  /\ faults' = faults \/ faults' = faults + 1
  /\ \A t \in Tasks : CallStep(t)
  /\ \A w \in Workers : WorkerStep(w)

\* Every process that stands still makes such a step.
LEMMA StandingStep ==
  ASSUME FileInv
  PROVE  /\ \A t \in Tasks : pc'[t] = pc[t] /\ doc'[t] = doc[t] => CallStep(t)
         /\ \A w \in Workers :
              /\ pc'[w] = pc[w] /\ doc'[w] = doc[w] /\ dead'[w] = dead[w]
              /\ head'[w] = head[w] /\ agent'[w] = agent[w]
              => WorkerStep(w)
BY DEF FileInv, TaskFacts, CopiesFresh, DeadTaken, CallStep, WorkerStep

\* A step of one process is plain if it is for this process.
LEMMA OneMoves ==
  ASSUME FileInv, NEW p \in Procs, NEW to, Goto(p, to),
         UNCHANGED <<tasks, dlq, extracted, agent, head, dead>>,
         faults' = faults \/ faults' = faults + 1,
         \A x \in Procs : x # p => doc'[x] = doc[x],
         p \in Tasks => CallStep(p), p \in Workers => WorkerStep(p)
  PROVE  Plain
<1>1. \A x \in Procs : x # p => pc'[x] = pc[x]
  BY DEF Goto, FileInv, TypeOK, LabelsTypeOK
<1>2. ASSUME NEW t \in Tasks
      PROVE  CallStep(t)
  BY <1>1, StandingStep, Constants
<1>3. ASSUME NEW w \in Workers
      PROVE  WorkerStep(w)
  BY <1>1, StandingStep, Constants
<1> QED BY <1>2, <1>3 DEF Plain

-----------------------------------------------------------------------------
(* What a plain step keeps. *)

LEMMA PlainKeeps ==
  ASSUME FileInv, Plain
  PROVE  TaskFacts'
<1>1. FilesOwned'
  BY DEF FileInv, TaskFacts, FilesOwned, Plain
<1>2. CopiesFresh'
  <2>1. ASSUME NEW w \in Workers, pc'[w] \in {"delWrite", "pfWrite"}
        PROVE  doc'[w] = tasks'[agent'[w]]
    BY <2>1 DEF Plain, WorkerStep, HeadKept
  <2>2. ASSUME NEW w \in Workers, pc'[w] = "dlqWrite"
        PROVE  doc'[w] = dlq'[agent'[w]]
    BY <2>2 DEF Plain, WorkerStep
  <2> QED BY <2>1, <2>2 DEF Plain, CallStep, CopiesFresh
<1>3. HeadsFirst'
  BY DEF FileInv, TaskFacts, HeadsFirst, Plain, WorkerStep
<1>4. DeadTaken'
  <2>1. ASSUME NEW w \in Workers, dead'[w]
        PROVE  /\ pc'[w] \in DeadLabels
               /\ head'[w] \in Tasks /\ AgentOf[head'[w]] = agent'[w]
               /\ head'[w] \notin Ids(tasks'[agent'[w]])
               /\ pc'[head'[w]] \notin Unregistered
    BY <2>1 DEF FileInv, TaskFacts, DeadTaken, Plain, WorkerStep, CallStep
  <2> QED BY <2>1 DEF Plain, WorkerStep, DeadTaken
<1>5. Unseen'
  BY DEF FileInv, TaskFacts, Unseen, Plain, CallStep
<1> QED BY <1>1, <1>2, <1>3, <1>4, <1>5 DEF TaskFacts

-----------------------------------------------------------------------------
(* The plain steps. *)

LEMMA CommandIsPlain ==
  ASSUME FileInv, NEW p \in Procs, NEW from, NEW to,
         \/ SAdd(p, from, to) \/ LPush(p, from, to) \/ SRem(p, from, to)
         \/ LRem(p, from, to) \/ MutexAcquire(p, from, to) \/ MutexRelease(p, from, to)
         \/ ReadTasks(p, from, to),
         p \in Tasks => CallStep(p), p \in Workers => WorkerStep(p)
  PROVE  Plain
<1>1. /\ Goto(p, to) /\ UNCHANGED <<tasks, dlq, extracted, agent, head, dead>>
      /\ faults' = faults \/ faults' = faults + 1
  BY DEF SAdd, LPush, SRem, LRem, MutexAcquire, MutexRelease, ReadTasks, Fault, fileVars,
     localVars, histVars
<1>2. \A x \in Procs : x # p => doc'[x] = doc[x]
  <2>1. doc' = doc \/ \E q : doc' = [doc EXCEPT ![p] = q]
    BY DEF SAdd, LPush, SRem, LRem, MutexAcquire, MutexRelease, ReadTasks, localVars
  <2>2. doc \in [Procs -> Seq(Entries)]
    BY DEF FileInv, TypeOK, LocalsTypeOK
  <2> QED BY <2>1, <2>2
<1> QED BY <1>1, <1>2, OneMoves

LEMMA RejectIsPlain ==
  ASSUME FileInv, NEW p \in Procs, NEW kind, NEW from, NEW to, Reject(p, kind, from, to),
         p \in Tasks => CallStep(p), p \in Workers => WorkerStep(p)
  PROVE  Plain
<1>1. /\ Goto(p, to) /\ UNCHANGED <<tasks, dlq, extracted, agent, head, dead, doc>>
      /\ faults' = faults + 1
  BY DEF Reject, Fault, fileVars, localVars
<1> QED BY <1>1, OneMoves

LEMMA CallIsPlain ==
  ASSUME FileInv, NEW t \in Tasks, Trigger(t) \/ TriggerFails(t), ~RegisterTask(t)
  PROVE  Plain
<1>0. /\ t \in Procs /\ t \notin Workers /\ Serves(t) = AgentOf[t]
      /\ pc \in [Procs -> TriggerLabels \cup WorkerLabels]
      /\ doc \in [Procs -> Seq(Entries)]
  BY TriggerServes, Constants DEF FileInv, TypeOK, LabelsTypeOK, LocalsTypeOK
<1> USE DEF CallStep, Unregistered, Enqueued, Goto
<1>1. CASE WriteArchive(t)
  <2>1. /\ Goto(t, "lock") /\ pc[t] = "new"
        /\ UNCHANGED <<tasks, dlq, extracted, faults, agent, head, dead, doc>>
    BY <1>1 DEF WriteArchive, localVars, histVars
  <2> QED BY <1>0, <2>1, OneMoves
<1>2. CASE EnqueueSAdd(t)
  <2>1. /\ pc[t] = "sadd"
        /\ UNCHANGED <<tasks, dlq, extracted, faults, agent, head, dead, doc>>
        /\ \E to \in {"ackUnlock", "lpush"} : Goto(t, to)
    BY <1>2 DEF EnqueueSAdd, fileVars, localVars, histVars
  <2>2. PICK to \in {"ackUnlock", "lpush"} : Goto(t, to)
    BY <2>1
  <2>3. CallStep(t)
    BY <1>0, <2>1, <2>2
  <2> QED BY <1>0, <2>1, <2>2, <2>3, OneMoves
<1>3. CASE \/ MutexAcquire(t, "lock", "read") \/ LPush(t, "lpush", "ackUnlock")
           \/ MutexRelease(t, "ackUnlock", "acked") \/ MutexRelease(t, "failUnlock", "failed")
  <2>1. CallStep(t)
    BY <1>0, <1>3 DEF MutexAcquire, LPush, MutexRelease
  <2> QED BY <1>0, <1>3, <2>1, CommandIsPlain
<1>4. CASE ReadTasks(t, "read", "write")
  <2>1. CallStep(t)
    BY <1>0, <1>4 DEF ReadTasks
  <2> QED BY <1>0, <1>4, <2>1, CommandIsPlain
<1>5. CASE TriggerFails(t)
  <2>1. CallStep(t)
    BY <1>0, <1>5 DEF TriggerFails, Reject
  <2> QED BY <1>0, <1>5, <2>1, RejectIsPlain DEF TriggerFails
<1> QED BY <1>1, <1>2, <1>3, <1>4, <1>5 DEF Trigger

\* How a dead task's labels constrain the worker that moves.
LEMMA DeadAt ==
  ASSUME FileInv, NEW w \in Workers
  PROVE  /\ dead[w] => pc[w] \in DeadLabels
         /\ pc[w] \in {"dlqRead", "dlqWrite"} => dead[w]
         /\ w \in Procs /\ w \notin Tasks
         /\ Serves(w) = agent[w]
         /\ pc \in [Procs -> TriggerLabels \cup WorkerLabels]
         /\ doc \in [Procs -> Seq(Entries)] /\ faults \in Nat
         /\ agent \in [Workers -> Agents \cup {NoAgent}]
         /\ head \in [Workers -> Tasks \cup {NoTask}]
         /\ dead \in [Workers -> BOOLEAN]
BY Constants DEF FileInv, TaskFacts, DeadTaken, TypeOK, LabelsTypeOK, LocalsTypeOK,
   HistoryTypeOK, Serves

LEMMA WorkerIsPlain ==
  ASSUME FileInv, NEW w \in Workers,
         \/ AcquireExtractLock(w) \/ LockContended(w)
         \/ SAdd(w, "contendSadd", "contendLpush") \/ LPush(w, "contendLpush", "contended")
         \/ MutexAcquire(w, "headLock", "headRead")
         \/ SRem(w, "headSrem", "headLrem") \/ LRem(w, "headLrem", "emptyUnlock")
         \/ MutexRelease(w, "emptyUnlock", "release")
         \/ MutexRelease(w, "headUnlock", "readArchive")
         \/ ReadArchive(w) \/ PermanentFailure(w)
         \/ SAdd(w, "retrySadd", "retryLpush") \/ LPush(w, "retryLpush", "release")
         \/ MutexAcquire(w, "delLock", "delRead") \/ ReadTasks(w, "delRead", "delWrite")
         \/ MutexAcquire(w, "pfLock", "pfRead") \/ ReadTasks(w, "pfRead", "pfWrite")
         \/ FailedTaskGone(w)
         \/ SAdd(w, "keepSadd", "keepLpush") \/ LPush(w, "keepLpush", "roundUnlock")
         \/ SRem(w, "dropSrem", "dropLrem") \/ LRem(w, "dropLrem", "roundUnlock")
         \/ MutexRelease(w, "roundUnlock", IF dead[w] THEN "dlqRead" ELSE "release")
         \/ MutexRelease(w, "errUnlock", "abort")
         \/ ReadDlq(w)
  PROVE  Plain
<1>0. /\ dead[w] => pc[w] \in DeadLabels
      /\ pc[w] \in {"dlqRead", "dlqWrite"} => dead[w]
      /\ w \in Procs /\ w \notin Tasks /\ Serves(w) = agent[w]
      /\ pc \in [Procs -> TriggerLabels \cup WorkerLabels]
      /\ doc \in [Procs -> Seq(Entries)]
  BY DeadAt
<1> USE DEF WorkerStep, HeadKept, DeadLabels, OnItsWay, Requeues, Settling
<1>1. CASE \/ AcquireExtractLock(w) \/ LockContended(w) \/ ReadArchive(w)
           \/ PermanentFailure(w) \/ FailedTaskGone(w)
  <2>1. /\ UNCHANGED <<tasks, dlq, extracted, faults, agent, head, dead, doc>>
        /\ \E to : Goto(w, to)
    BY <1>1, QueueFollowsMoves
    DEF AcquireExtractLock, LockContended, ReadArchive, PermanentFailure, FailedTaskGone,
        fileVars, localVars, histVars
  <2>2. \/ pc[w] = "acquire" /\ pc'[w] \in {"headLock", "contendSadd", "contended"}
        \/ /\ pc[w] = "readArchive"
           /\ pc'[w] = IF head[w] \in archives THEN "extract" ELSE "delLock"
        \/ pc[w] = "extract" /\ pc'[w] = "pfLock"
        \/ pc[w] = "pfWrite" /\ pc'[w] \in {"roundUnlock", "keepSadd", "dropSrem"}
    BY <1>0, <1>1
    DEF AcquireExtractLock, LockContended, ReadArchive, PermanentFailure, FailedTaskGone,
        QueueFollows, Goto
  <2>3. WorkerStep(w)
    BY <1>0, <2>1, <2>2
  <2> QED BY <1>0, <2>1, <2>3, OneMoves
<1>2. CASE \/ SAdd(w, "contendSadd", "contendLpush") \/ LPush(w, "contendLpush", "contended")
           \/ SAdd(w, "retrySadd", "retryLpush") \/ LPush(w, "retryLpush", "release")
           \/ SAdd(w, "keepSadd", "keepLpush") \/ LPush(w, "keepLpush", "roundUnlock")
           \/ SRem(w, "headSrem", "headLrem") \/ LRem(w, "headLrem", "emptyUnlock")
           \/ SRem(w, "dropSrem", "dropLrem") \/ LRem(w, "dropLrem", "roundUnlock")
  <2>1. WorkerStep(w)
    BY <1>0, <1>2 DEF SAdd, LPush, SRem, LRem, Goto, localVars
  <2> QED BY <1>0, <1>2, <2>1, CommandIsPlain
<1>3. CASE \/ MutexAcquire(w, "headLock", "headRead") \/ MutexAcquire(w, "delLock", "delRead")
           \/ MutexAcquire(w, "pfLock", "pfRead")
  <2>1. WorkerStep(w)
    BY <1>0, <1>3 DEF MutexAcquire, Goto, localVars
  <2> QED BY <1>0, <1>3, <2>1, CommandIsPlain
<1>4. CASE \/ MutexRelease(w, "emptyUnlock", "release")
           \/ MutexRelease(w, "headUnlock", "readArchive")
           \/ MutexRelease(w, "roundUnlock", IF dead[w] THEN "dlqRead" ELSE "release")
           \/ MutexRelease(w, "errUnlock", "abort")
  <2>1. WorkerStep(w)
    BY <1>0, <1>4 DEF MutexRelease, Goto
  <2> QED BY <1>0, <1>4, <2>1, CommandIsPlain
<1>5. CASE ReadTasks(w, "delRead", "delWrite") \/ ReadTasks(w, "pfRead", "pfWrite")
  <2>1. WorkerStep(w)
    BY <1>0, <1>5 DEF ReadTasks, Goto
  <2> QED BY <1>0, <1>5, <2>1, CommandIsPlain
<1>6. CASE ReadDlq(w)
  <2>1. /\ UNCHANGED <<tasks, dlq, extracted, faults, agent, head, dead>>
        /\ Goto(w, "dlqWrite") /\ pc[w] = "dlqRead"
        /\ doc' = [doc EXCEPT ![w] = dlq[agent[w]]]
    BY <1>6 DEF ReadDlq, fileVars, histVars
  <2>2. WorkerStep(w)
    BY <1>0, <2>1 DEF Goto
  <2> QED BY <1>0, <2>1, <2>2, OneMoves
<1> QED BY <1>1, <1>2, <1>3, <1>4, <1>5, <1>6

LEMMA FailureIsPlain ==
  ASSUME FileInv, NEW w \in Workers,
         TransientFailure(w) \/ WorkerFails(w) \/ PoolFails(w)
  PROVE  Plain
<1>0. /\ dead[w] => pc[w] \in DeadLabels
      /\ pc[w] \in {"dlqRead", "dlqWrite"} => dead[w]
      /\ w \in Procs /\ w \notin Tasks /\ faults \in Nat
      /\ pc \in [Procs -> TriggerLabels \cup WorkerLabels]
  BY DeadAt
<1> USE DEF WorkerStep, HeadKept, DeadLabels, OnItsWay, Requeues, Settling
<1>1. WorkerStep(w)
  <2>1. faults' = faults + 1 /\ UNCHANGED <<agent, head, dead>>
    BY DEF TransientFailure, WorkerFails, PoolFails, Reject, Fault, localVars
  <2>2. \/ /\ pc[w] \in {"readArchive", "extract"}
           /\ pc'[w] \in {"retrySadd", "release"}
        \/ /\ pc[w] \in {"acquire", "contendSadd", "contendLpush", "retrySadd", "retryLpush",
                         "headLock", "delLock", "pfLock", "resolve"}
           /\ pc'[w] = "abort"
        \/ /\ pc[w] \in {"headRead", "delRead", "delWrite", "pfRead", "pfWrite", "headSrem",
                         "headLrem"}
           /\ pc'[w] = "errUnlock"
        \/ pc[w] \in Requeues /\ pc'[w] = "errUnlock" /\ "redis" \in FaultKinds
        \/ /\ pc[w] \in {"dlqRead", "dlqWrite"} /\ pc'[w] = "release"
           /\ "storage" \in FaultKinds
        \/ pc[w] \in {"purgeSrem", "purgeLrem"} /\ pc'[w] = "purged"
    BY <1>0 DEF TransientFailure, WorkerFails, PoolFails, Reject, Fault, Goto
  <2> QED BY <1>0, <2>1, <2>2
<1> QED BY <1>0, <1>1, RejectIsPlain DEF TransientFailure, WorkerFails, PoolFails

\* A step that moves at most one worker, whatever locals it changes, is plain
\* if it is for this worker.
LEMMA OneWorkerMoves ==
  ASSUME FileInv, NEW w \in Workers, UNCHANGED <<tasks, dlq, extracted>>,
         faults' = faults \/ faults' = faults + 1,
         \A x \in Procs : x # w => pc'[x] = pc[x] /\ doc'[x] = doc[x],
         \A v \in Workers : v # w =>
           agent'[v] = agent[v] /\ head'[v] = head[v] /\ dead'[v] = dead[v],
         WorkerStep(w)
  PROVE  Plain
<1>1. \A t \in Tasks : CallStep(t)
  BY StandingStep, Constants
<1>2. \A v \in Workers : WorkerStep(v)
  BY StandingStep, Constants
<1> QED BY <1>1, <1>2 DEF Plain

LEMMA LoopIsPlain ==
  ASSUME FileInv, NEW w \in Workers, Loop(w) \/ SuppressExpires(w)
  PROVE  Plain
<1>0. /\ dead[w] => pc[w] \in DeadLabels
      /\ pc[w] \in {"dlqRead", "dlqWrite"} => dead[w]
      /\ w \in Procs /\ w \notin Tasks
      /\ pc \in [Procs -> TriggerLabels \cup WorkerLabels]
      /\ agent \in [Workers -> Agents \cup {NoAgent}]
  BY DeadAt
<1> USE DEF WorkerStep, HeadKept, DeadLabels, OnItsWay, Requeues, Settling
<1>1. CASE (\E a \in Agents : Peek(w, a)) \/ LeaveLegacy(w)
  <2>1. UNCHANGED <<tasks, dlq, extracted, faults, doc, head, dead>>
    BY <1>1 DEF Peek, LeaveLegacy, fileVars, histVars
  <2>2. /\ pc[w] \in {"idle", "purged"}
        /\ pc'[w] \in {"idle", "purgeSrem", "resolve"}
        /\ \A x \in Procs : x # w => pc'[x] = pc[x]
        /\ \A v \in Workers : v # w => agent'[v] = agent[v]
    BY <1>0, <1>1 DEF Peek, LeaveLegacy, Goto
  <2>3. WorkerStep(w)
    BY <1>0, <2>1, <2>2
  <2> QED BY <2>1, <2>2, <2>3, OneWorkerMoves
<1>2. CASE SuppressExpires(w)
  <2>1. UNCHANGED <<tasks, dlq, extracted, faults, doc, head, dead, pc, agent>>
    BY <1>2 DEF SuppressExpires, fileVars, histVars
  <2> QED BY <1>0, <2>1, OneWorkerMoves, StandingStep
<1>3. CASE ResolveResources(w)
  <2>1. /\ UNCHANGED <<tasks, dlq, extracted, faults, doc, head, dead, agent>>
        /\ pc[w] = "resolve" /\ Goto(w, "acquire")
    BY <1>3 DEF ResolveResources, fileVars, localVars, histVars
  <2>2. WorkerStep(w)
    BY <1>0, <2>1 DEF Goto
  <2> QED BY <1>0, <2>1, <2>2, OneMoves
<1>4. CASE SRem(w, "purgeSrem", "purgeLrem") \/ LRem(w, "purgeLrem", "purged")
  <2>1. WorkerStep(w)
    BY <1>0, <1>4 DEF SRem, LRem, Goto, localVars
  <2> QED BY <1>0, <1>4, <2>1, CommandIsPlain
<1> QED BY <1>1, <1>2, <1>3, <1>4 DEF Loop

LEMMA LeaveIsPlain ==
  ASSUME FileInv, NEW w \in Workers,
         LeaveAgent(w, "contended") \/ LeaveAgent(w, "release") \/ LeaveAgent(w, "abort")
  PROVE  Plain
<1>0. /\ dead[w] => pc[w] \in DeadLabels
      /\ w \in Procs /\ w \notin Tasks
      /\ pc \in [Procs -> TriggerLabels \cup WorkerLabels]
      /\ doc \in [Procs -> Seq(Entries)]
      /\ agent \in [Workers -> Agents \cup {NoAgent}]
      /\ head \in [Workers -> Tasks \cup {NoTask}]
      /\ dead \in [Workers -> BOOLEAN]
  BY DeadAt
<1>1. /\ UNCHANGED <<tasks, dlq, extracted>> /\ (faults' = faults \/ faults' = faults + 1)
      /\ pc[w] \in {"contended", "release", "abort"} /\ pc' = [pc EXCEPT ![w] = "idle"]
      /\ agent' = [agent EXCEPT ![w] = NoAgent] /\ head' = [head EXCEPT ![w] = NoTask]
      /\ doc' = [doc EXCEPT ![w] = <<>>] /\ dead' = [dead EXCEPT ![w] = FALSE]
  BY DEF LeaveAgent, Goto, Fault, fileVars
<1>2. ~dead'[w] /\ pc'[w] = "idle"
  BY <1>0, <1>1
<1>3. WorkerStep(w)
  BY <1>0, <1>1, <1>2 DEF WorkerStep, HeadKept, DeadLabels, OnItsWay, Requeues, Settling
<1>4. \A v \in Workers : v # w =>
        agent'[v] = agent[v] /\ head'[v] = head[v] /\ dead'[v] = dead[v]
  BY <1>0, <1>1
<1> QED BY <1>0, <1>1, <1>3, <1>4, OneWorkerMoves

LEMMA PodIsPlain ==
  ASSUME FileInv, DownIsOff, NEW p \in Pods,
         PoolStart(p) \/ ProbePeekStrategy(p) \/ Scan(p)
  PROVE  Plain
<1>1. /\ UNCHANGED <<tasks, dlq, extracted, doc, head, dead, agent>>
      /\ faults' = faults \/ faults' = faults + 1
  BY DEF PoolStart, ProbePeekStrategy, Scan, ScanMembers, ScanCheck, ScanSRem, ScanLRem,
     ScanLPush, ScanEnd, Fault, fileVars, localVars, histVars
<1>2. \A t \in Tasks : pc'[t] = pc[t]
  BY Constants
  DEF PoolStart, ProbePeekStrategy, Scan, ScanMembers, ScanCheck, ScanSRem, ScanLRem,
      ScanLPush, ScanEnd, WorkersOf
<1>3. \A w \in Workers : pc'[w] = pc[w] \/ (pc[w] = "off" /\ pc'[w] = "idle")
  BY Constants
  DEF PoolStart, ProbePeekStrategy, Scan, ScanMembers, ScanCheck, ScanSRem, ScanLRem,
      ScanLPush, ScanEnd, WorkersOf, DownIsOff
<1>4. ASSUME NEW w \in Workers
      PROVE  WorkerStep(w)
  <2>1. CASE pc'[w] = pc[w]
    BY <1>1, <2>1, StandingStep
  <2>2. CASE pc[w] = "off" /\ pc'[w] = "idle"
    <3>1. ~dead[w]
      BY <2>2, DeadAt DEF DeadLabels, OnItsWay, Requeues
    <3> QED BY <1>1, <2>2, <3>1 DEF WorkerStep, HeadKept, DeadLabels, OnItsWay, Requeues, Settling
  <2> QED BY <1>3, <2>1, <2>2
<1>5. \A t \in Tasks : CallStep(t)
  BY <1>1, <1>2, StandingStep
<1> QED BY <1>1, <1>4, <1>5 DEF Plain

LEMMA EnvironmentIsPlain ==
  ASSUME FileInv, Environment
  PROVE  Plain
<1>0. faults \in Nat
  BY DEF FileInv, TypeOK, HistoryTypeOK
<1>1. ASSUME NEW p \in Pods, Crash(p)
      PROVE  Plain
  <2> DEFINE gone == {x \in Procs : PodOf[x] = p /\ pc[x] \notin {"new", "acked", "failed"}}
  <2>1. /\ UNCHANGED <<tasks, dlq, extracted>> /\ faults' = faults + 1
        /\ "crash" \in FaultKinds
        /\ pc' = [x \in Procs |-> IF x \notin gone THEN pc[x]
                                  ELSE IF x \in Workers THEN "off" ELSE "failed"]
        /\ agent' = [w \in Workers |-> IF w \in gone THEN NoAgent ELSE agent[w]]
        /\ head' = [w \in Workers |-> IF w \in gone THEN NoTask ELSE head[w]]
        /\ doc' = [x \in Procs |-> IF x \in gone THEN <<>> ELSE doc[x]]
        /\ dead' = [w \in Workers |-> IF w \in gone THEN FALSE ELSE dead[w]]
    BY <1>1 DEF Crash, Fault, fileVars
  <2> HIDE DEF gone
  <2>2. ASSUME NEW t \in Tasks
        PROVE  CallStep(t)
    <3>1. CASE t \in gone
      BY <2>1, <3>1, Constants DEF CallStep, Unregistered, Enqueued
    <3>2. CASE t \notin gone
      BY <2>1, <3>2, StandingStep, Constants
    <3> QED BY <3>1, <3>2
  <2>3. ASSUME NEW w \in Workers
        PROVE  WorkerStep(w)
    <3>1. CASE w \in gone
      <4>1. pc'[w] = "off" /\ ~dead'[w]
        BY <2>1, <3>1, Constants
      <4> QED BY <1>0, <2>1, <4>1 DEF WorkerStep, HeadKept, DeadLabels, OnItsWay, Requeues, Settling
    <3>2. CASE w \notin gone
      <4>1. /\ pc'[w] = pc[w] /\ doc'[w] = doc[w] /\ dead'[w] = dead[w]
            /\ head'[w] = head[w] /\ agent'[w] = agent[w]
        BY <2>1, <3>2, Constants
      <4> QED BY <4>1, StandingStep
    <3> QED BY <3>1, <3>2
  <2> QED BY <2>1, <2>2, <2>3 DEF Plain
<1>2. CASE \/ \E a \in Agents : MutexExpires(a) \/ ExtractLockExpires(a)
           \/ \E t \in Tasks : ArchiveCollected(t)
  <2>1. /\ UNCHANGED <<tasks, dlq, extracted, pc, agent, head, doc, dead>>
        /\ faults' = faults \/ faults' = faults + 1
    BY <1>2 DEF MutexExpires, ExtractLockExpires, ArchiveCollected, Fault, fileVars, localVars
  <2> QED BY <2>1, StandingStep DEF Plain
<1> QED BY <1>1, <1>2 DEF Environment

\* The steps that do write a file, read its head or extract a task.
Telling ==
  \/ \E t \in Tasks : RegisterTask(t)
  \/ \E w \in Workers : \/ ReadHead(w) \/ Extract(w) \/ DeleteTask(w) \/ CountRetry(w)
                        \/ TakeDeadTask(w) \/ AppendDlq(w)

LEMMA PlainOrTelling ==
  ASSUME FileInv, DownIsOff, [Next]_vars
  PROVE  Plain \/ Telling
<1>1. CASE \E t \in Tasks : Trigger(t) \/ TriggerFails(t)
  BY <1>1, CallIsPlain DEF Telling
<1>2. CASE \E w \in Workers :
             \/ Loop(w) \/ PoolFails(w) \/ Consume(w) \/ TransientFailure(w)
             \/ WorkerFails(w) \/ SuppressExpires(w)
  <2>1. ASSUME NEW w \in Workers, Consume(w)
        PROVE  Plain \/ Telling
    BY <2>1, WorkerIsPlain, LeaveIsPlain DEF Consume, Telling
  <2> QED BY <1>2, <2>1, LoopIsPlain, FailureIsPlain
<1>3. CASE \E p \in Pods :
             PoolStart(p) \/ ProbePeekStrategy(p) \/ Scan(p)
  BY <1>3, PodIsPlain
<1>4. CASE Environment
  BY <1>4, EnvironmentIsPlain
<1>5. CASE UNCHANGED vars
  BY <1>5, StandingStep DEF vars, fileVars, localVars, histVars, Plain
<1> QED BY <1>1, <1>2, <1>3, <1>4, <1>5 DEF Next

-----------------------------------------------------------------------------
(* What the operations on a task file do to the ids in it and to its head. *)

LEMMA AppendIds ==
  ASSUME NEW q \in Seq(Entries), NEW e \in Entries
  PROVE  /\ Append(q, e) \in Seq(Entries) /\ Append(q, e) # <<>>
         /\ Ids(Append(q, e)) = Ids(q) \cup {e.id}
         /\ q # <<>> => Append(q, e)[1] = q[1]
<1>1. /\ Len(q) \in Nat /\ DOMAIN q = 1..Len(q) /\ (q # <<>> => Len(q) > 0)
      /\ Append(q, e) \in Seq(Entries) /\ DOMAIN Append(q, e) = 1..(Len(q) + 1)
      /\ \A i \in 1..Len(q) : Append(q, e)[i] = q[i]
      /\ Append(q, e)[Len(q) + 1] = e
  BY LenProperties, AppendProperties, EmptySeq
<1>2. Ids(Append(q, e)) = Ids(q) \cup {e.id}
  <2>1. ASSUME NEW x \in Ids(Append(q, e))
        PROVE  x \in Ids(q) \cup {e.id}
    <3>1. PICK i \in 1..(Len(q) + 1) : Append(q, e)[i].id = x
      BY <1>1, <2>1 DEF Ids
    <3>2. i \in 1..Len(q) \/ i = Len(q) + 1
      BY <1>1
    <3> QED BY <1>1, <3>1, <3>2 DEF Ids
  <2>2. ASSUME NEW x \in Ids(q)
        PROVE  x \in Ids(Append(q, e))
    <3>1. PICK i \in 1..Len(q) : q[i].id = x
      BY <1>1, <2>2 DEF Ids
    <3>2. i \in 1..(Len(q) + 1) /\ Append(q, e)[i].id = x
      BY <1>1, <3>1
    <3> QED BY <1>1, <3>2 DEF Ids
  <2>3. e.id \in Ids(Append(q, e))
    <3>1. Len(q) + 1 \in 1..(Len(q) + 1)
      BY <1>1
    <3> QED BY <1>1, <3>1 DEF Ids
  <2> QED BY <2>1, <2>2, <2>3
<1>3. q # <<>> => Append(q, e)[1] = q[1]
  BY <1>1
<1>4. Append(q, e) # <<>>
  <2>1. 1 \in DOMAIN Append(q, e)
    BY <1>1
  <2> QED BY <2>1, EmptySeq
<1> QED BY <1>1, <1>2, <1>3, <1>4

LEMMA IdsAsRange ==
  ASSUME NEW q, NEW x
  PROVE  x \in Ids(q) <=> \E e \in Range(q) : e.id = x
BY DEF Ids, Range

LEMMA WithoutIds ==
  ASSUME NEW q \in Seq(Entries), NEW id
  PROVE  /\ Ids(Without(q, id)) = Ids(q) \ {id}
         /\ id \in Ids(q) => Len(Without(q, id)) # Len(q)
<1> DEFINE kept == {e \in Range(q) : e.id # id}
<1>1. Range(Without(q, id)) = Range(q) \cap kept
  BY KeepProperties DEF Without
<1>2. Ids(Without(q, id)) = Ids(q) \ {id}
  <2>1. ASSUME NEW x
        PROVE  x \in Ids(Without(q, id)) <=> x \in Ids(q) \ {id}
    <3>1. x \in Ids(Without(q, id)) <=> \E e \in Range(q) : e.id # id /\ e.id = x
      BY <1>1, IdsAsRange
    <3> QED BY <3>1, IdsAsRange
  <2> QED BY <2>1
<1>3. ASSUME id \in Ids(q)
      PROVE  Len(Without(q, id)) # Len(q)
  <2>1. PICK i \in DOMAIN q : q[i] \notin kept
    BY <1>3 DEF Ids
  <2>2. Len(Without(q, id)) < Len(q)
    BY <2>1, KeepShortens DEF Without
  <2>3. Len(q) \in Nat /\ Len(Without(q, id)) \in Nat
    BY WithoutType, LenProperties
  <2> QED BY <2>2, <2>3
<1> QED BY <1>2, <1>3

LEMMA WithRetryIds ==
  ASSUME NEW q \in Seq(Entries), NEW id
  PROVE  /\ Ids(WithRetry(q, id)) = Ids(q)
         /\ q # <<>> => WithRetry(q, id) # <<>> /\ WithRetry(q, id)[1].id = q[1].id
<1>1. /\ DOMAIN WithRetry(q, id) = DOMAIN q
      /\ \A i \in DOMAIN q : WithRetry(q, id)[i].id = q[i].id
  <2>1. ASSUME NEW i \in DOMAIN q
        PROVE  WithRetry(q, id)[i].id = q[i].id
    <3>1. q[i] \in Entries
      BY <2>1, ElementOfSeq, LenProperties
    <3> QED BY <3>1 DEF WithRetry, Entries
  <2> QED BY <2>1 DEF WithRetry
<1>2. Ids(WithRetry(q, id)) = Ids(q)
  BY <1>1 DEF Ids
<1>3. q # <<>> => 1 \in DOMAIN q
  BY LenProperties, EmptySeq
<1>4. 1 \in DOMAIN WithRetry(q, id) => WithRetry(q, id) # <<>>
  BY EmptySeq
<1> QED BY <1>1, <1>2, <1>3, <1>4

LEMMA HeadId ==
  ASSUME NEW q \in Seq(Entries), q # <<>>
  PROVE  q[1].id \in Ids(q) /\ q[1].id \in Tasks
<1>1. 1 \in DOMAIN q /\ q[1] \in Entries
  BY LenProperties, EmptySeq, ElementOfSeq
<1> QED BY <1>1 DEF Ids, Entries

-----------------------------------------------------------------------------
(* What a worker knows of the task it has at hand. *)

LEMMA HeadAtHand ==
  ASSUME FileInv, NEW w \in Workers, pc[w] \in HeadKept
  PROVE  /\ agent[w] \in Agents /\ head[w] \in Tasks
         /\ head[w] \in Ids(tasks[agent[w]]) /\ AgentOf[head[w]] = agent[w]
         /\ pc[head[w]] \notin Unregistered
         /\ pc[w] \in ConsumeLocked
<1>1. pc[w] \in ConsumeLocked /\ agent[w] \in Agents
  BY WorkerServes DEF HeadKept, ConsumeLocked, ConsumeLabels, FileInv
<1>2. tasks[agent[w]] \in Seq(Entries)
  BY <1>1 DEF FileInv, TypeOK, FilesTypeOK
<1>3. tasks[agent[w]] # <<>> /\ tasks[agent[w]][1].id = head[w]
  BY DEF FileInv, TaskFacts, HeadsFirst
<1>4. head[w] \in Ids(tasks[agent[w]]) /\ head[w] \in Tasks
  BY <1>2, <1>3, HeadId
<1>5. AgentOf[head[w]] = agent[w]
  BY <1>1, <1>4 DEF FileInv, TaskFacts, FilesOwned
<1>6. pc[head[w]] \notin Unregistered
  BY <1>4, <1>5 DEF FileInv, TaskFacts, Unseen
<1> QED BY <1>1, <1>4, <1>5, <1>6

\* Nobody else extracts the agent of a worker that holds its lock.
LEMMA ExtractsAlone ==
  ASSUME FileInv, NEW v \in Workers, NEW w \in Workers, v # w,
         pc[v] \in ConsumeLocked, pc[w] \in ConsumeLocked
  PROVE  agent[v] # agent[w]
BY DEF FileInv, HoldsExtractLock

\* No step of p on an agent meets a copy of the agent's task file that
\* another process edits.
LEMMA WritesAlone ==
  ASSUME FileInv, NEW p \in Procs, InCritical(p)
  PROVE  /\ \A t \in Tasks : t # p /\ pc[t] = "write" => AgentOf[t] # Serves(p)
         /\ \A w \in Workers :
              w # p /\ pc[w] \in {"delWrite", "pfWrite"} => agent[w] # Serves(p)
<1>1. ASSUME NEW q \in Procs, q # p, InCritical(q)
      PROVE  Serves(q) # Serves(p)
  BY <1>1 DEF FileInv, HoldsMutex
<1>2. ASSUME NEW t \in Tasks, t # p, pc[t] = "write"
      PROVE  AgentOf[t] # Serves(p)
  <2>1. InCritical(t)
    BY <1>2 DEF InCritical, TriggerCritical
  <2> QED BY <1>1, <1>2, <2>1, TriggerServes
<1>3. ASSUME NEW w \in Workers, w # p, pc[w] \in {"delWrite", "pfWrite"}
      PROVE  agent[w] # Serves(p)
  <2>1. InCritical(w) /\ w \in Procs /\ Serves(w) = agent[w]
    BY <1>3, Constants DEF InCritical, ConsumeCritical, Serves
  <2> QED BY <1>1, <1>3, <2>1
<1> QED BY <1>2, <1>3

-----------------------------------------------------------------------------
(* The steps that do write a file, read its head or extract a task. *)

\* A process that writes a copy of its agent's task file back.
TaskFileWritten(p, q, to) ==
  /\ pc[p] \in {"write", "delWrite", "pfWrite"} /\ Goto(p, to)
  /\ \/ p \in Tasks /\ to = "sadd"
     \/ p \in Workers /\ to \in {"roundUnlock", "keepSadd", "dropSrem"}
  /\ tasks' = [tasks EXCEPT ![Serves(p)] = q]
  /\ UNCHANGED <<dlq, doc, agent, head, extracted>>
  /\ \A v \in Workers : v # p => dead'[v] = dead[v]

\* Such a write keeps the invariant if the new file holds tasks of the old
\* one, or the task of the call that writes, and keeps the head for others.
LEMMA TaskFileKeeps ==
  ASSUME FileInv, NEW p \in Procs, NEW q, NEW to, TaskFileWritten(p, q, to),
         InCritical(p), Serves(p) \in Agents,
         \A t \in Ids(q) : t \in Ids(tasks[Serves(p)]) \/ (t = p /\ p \in Tasks),
         \A v \in Workers : v # p /\ pc[v] \in HeadKept /\ agent[v] = Serves(p) =>
           q # <<>> /\ q[1].id = head[v],
         p \in Workers /\ dead'[p] => head[p] \in Tasks /\ AgentOf[head[p]] = agent[p]
                                      /\ head[p] \notin Ids(q)
                                      /\ pc[head[p]] \notin Unregistered
  PROVE  TaskFacts'
<1> USE DEF TaskFileWritten
<1>1. /\ pc[p] \in {"write", "delWrite", "pfWrite"} /\ pc'[p] = to
      /\ \A x \in Procs : x # p => pc'[x] = pc[x]
      /\ to \notin HeadKept \cup Unregistered
      /\ to \notin {"dlqRead", "dlqWrite"}
  BY DEF Goto, FileInv, TypeOK, LabelsTypeOK, HeadKept, Unregistered
<1>2. /\ tasks'[Serves(p)] = q
      /\ \A a \in Agents : a # Serves(p) => tasks'[a] = tasks[a]
  BY DEF FileInv, TypeOK, FilesTypeOK
<1>3. FilesOwned'
  BY <1>2, TriggerServes DEF FileInv, TaskFacts, FilesOwned
<1>4. CopiesFresh'
  <2>1. ASSUME NEW t \in Tasks, pc'[t] = "write"
        PROVE  doc'[t] = tasks'[AgentOf[t]]
    <3>1. t # p /\ pc[t] = "write"
      BY <1>1, <2>1, Constants DEF Unregistered
    <3>2. AgentOf[t] # Serves(p)
      BY <3>1, WritesAlone
    <3> QED BY <1>2, <3>1, <3>2, Constants DEF FileInv, TaskFacts, CopiesFresh
  <2>2. ASSUME NEW w \in Workers, pc'[w] \in {"delWrite", "pfWrite"}
        PROVE  doc'[w] = tasks'[agent'[w]]
    <3>1. w # p /\ pc[w] \in {"delWrite", "pfWrite"}
      BY <1>1, <2>2, Constants DEF HeadKept
    <3>2. agent[w] # Serves(p) /\ agent[w] \in Agents
      BY <3>1, WritesAlone, WorkerServes DEF FileInv
    <3> QED BY <1>2, <3>1, <3>2 DEF FileInv, TaskFacts, CopiesFresh
  <2>3. ASSUME NEW w \in Workers, pc'[w] = "dlqWrite"
        PROVE  doc'[w] = dlq'[agent'[w]]
    BY <1>1, <2>3, Constants DEF FileInv, TaskFacts, CopiesFresh
  <2> QED BY <2>1, <2>2, <2>3 DEF CopiesFresh
<1>5. HeadsFirst'
  <2>1. ASSUME NEW v \in Workers, pc'[v] \in HeadKept
        PROVE  tasks'[agent[v]] # <<>> /\ tasks'[agent[v]][1].id = head[v]
    <3>1. v # p /\ pc[v] \in HeadKept
      BY <1>1, <2>1, Constants
    <3>2. agent[v] \in Agents
      BY <3>1, HeadAtHand
    <3> QED BY <1>2, <3>1, <3>2 DEF FileInv, TaskFacts, HeadsFirst
  <2> QED BY <2>1 DEF HeadsFirst
<1>6. DeadTaken'
  <2>1. ASSUME NEW w \in Workers, dead'[w]
        PROVE  /\ pc'[w] \in DeadLabels
               /\ head'[w] \in Tasks /\ AgentOf[head'[w]] = agent'[w]
               /\ head'[w] \notin Ids(tasks'[agent'[w]])
               /\ pc'[head'[w]] \notin Unregistered
    <3>1. CASE w = p
      <4>1. Serves(p) = agent[p] /\ to # "sadd"
        BY <3>1, Constants DEF Serves
      <4>2. to \in DeadLabels
        BY <4>1 DEF DeadLabels, OnItsWay, Requeues
      <4> QED BY <1>1, <1>2, <2>1, <3>1, <4>1, <4>2, Constants
    <3>2. CASE w # p
      <4>1. /\ dead[w] /\ pc[w] \in DeadLabels /\ pc'[w] = pc[w]
            /\ head[w] \in Tasks /\ AgentOf[head[w]] = agent[w]
            /\ head[w] \notin Ids(tasks[agent[w]])
            /\ pc[head[w]] \notin Unregistered
        BY <1>1, <2>1, <3>2, Constants DEF FileInv, TaskFacts, DeadTaken
      <4>2. p \in Tasks => pc[p] \in Unregistered
        BY <1>1, Constants DEF Unregistered, FileInv, TypeOK, LabelsTypeOK, TriggerLabels
      <4>3. head[w] \notin Ids(tasks'[agent[w]])
        BY <1>2, <4>1, <4>2, Constants
      <4>4. pc'[head[w]] \notin Unregistered
        BY <1>1, <4>1, Constants
      <4> QED BY <4>1, <4>3, <4>4
    <3> QED BY <3>1, <3>2
  <2>2. ASSUME NEW w \in Workers, pc'[w] \in {"dlqRead", "dlqWrite"}
        PROVE  dead'[w]
    BY <1>1, <2>2, Constants DEF FileInv, TaskFacts, DeadTaken
  <2> QED BY <2>1, <2>2 DEF DeadTaken
<1>7. Unseen'
  BY <1>1, <1>2, Constants DEF FileInv, TaskFacts, Unseen
<1> QED BY <1>3, <1>4, <1>5, <1>6, <1>7 DEF TaskFacts

LEMMA RegisterWrites ==
  ASSUME FileInv, NEW t \in Tasks, RegisterTask(t)
  PROVE  \E q \in Seq(Entries) :
           /\ TaskFileWritten(t, q, "sadd") /\ Ids(q) = Ids(tasks[AgentOf[t]]) \cup {t}
           /\ q # <<>> /\ (tasks[AgentOf[t]] # <<>> => q[1] = tasks[AgentOf[t]][1])
           /\ UNCHANGED <<dead, faults>>
<1> DEFINE e == [id |-> t, retry |-> 0]
           q == Append(tasks[AgentOf[t]], e)
<1>1. tasks[AgentOf[t]] \in Seq(Entries) /\ e \in Entries /\ e.id = t
  BY Constants DEF FileInv, TypeOK, FilesTypeOK, Entries
<1>2. /\ q \in Seq(Entries) /\ Ids(q) = Ids(tasks[AgentOf[t]]) \cup {t}
      /\ q # <<>> /\ (tasks[AgentOf[t]] # <<>> => q[1] = tasks[AgentOf[t]][1])
  BY <1>1, AppendIds
<1>3. doc[t] = tasks[AgentOf[t]]
  BY DEF RegisterTask, FileInv, TaskFacts, CopiesFresh
<1>4. TaskFileWritten(t, q, "sadd") /\ UNCHANGED <<dead, faults>>
  BY <1>3, TriggerServes DEF TaskFileWritten, RegisterTask, localVars, histVars
<1> QED BY <1>2, <1>4

LEMMA RegisterKeeps ==
  ASSUME FileInv, NEW t \in Tasks, RegisterTask(t)
  PROVE  TaskFacts'
<1>1. PICK q \in Seq(Entries) :
        /\ TaskFileWritten(t, q, "sadd") /\ Ids(q) = Ids(tasks[AgentOf[t]]) \cup {t}
        /\ q # <<>> /\ (tasks[AgentOf[t]] # <<>> => q[1] = tasks[AgentOf[t]][1])
        /\ UNCHANGED <<dead, faults>>
  BY RegisterWrites
<1>2. /\ InCritical(t) /\ t \in Procs /\ Serves(t) \in Agents /\ Serves(t) = AgentOf[t]
      /\ t \notin Workers
  BY TriggerServes, Constants DEF RegisterTask, InCritical, TriggerCritical
<1>3. ASSUME NEW v \in Workers, pc[v] \in HeadKept, agent[v] = AgentOf[t]
      PROVE  q # <<>> /\ q[1].id = head[v]
  BY <1>1, <1>3 DEF FileInv, TaskFacts, HeadsFirst
<1> QED BY <1>1, <1>2, <1>3, TaskFileKeeps

\* What the round that writes _tasks.json has in common.
LEMMA RoundWrites ==
  ASSUME FileInv, NEW w \in Workers, pc[w] \in {"delWrite", "pfWrite"}
  PROVE  /\ w \in Procs /\ w \notin Tasks /\ InCritical(w) /\ Serves(w) = agent[w]
         /\ agent[w] \in Agents /\ head[w] \in Tasks
         /\ head[w] \in Ids(tasks[agent[w]]) /\ AgentOf[head[w]] = agent[w]
         /\ pc[head[w]] \notin Unregistered
         /\ doc[w] = tasks[agent[w]] /\ tasks[agent[w]] \in Seq(Entries)
         /\ ~dead[w]
         /\ \A v \in Workers : v # w /\ pc[v] \in ConsumeLocked => agent[v] # agent[w]
<1>1. pc[w] \in HeadKept /\ pc[w] \notin DeadLabels
  BY DEF HeadKept, DeadLabels, OnItsWay, Requeues
<1>2. InCritical(w) /\ Serves(w) = agent[w] /\ w \in Procs /\ w \notin Tasks
  BY Constants DEF InCritical, ConsumeCritical, Serves
<1>3. doc[w] = tasks[agent[w]] /\ ~dead[w]
  BY <1>1 DEF FileInv, TaskFacts, CopiesFresh, DeadTaken
<1>4. /\ agent[w] \in Agents /\ head[w] \in Tasks
      /\ head[w] \in Ids(tasks[agent[w]]) /\ AgentOf[head[w]] = agent[w]
      /\ pc[head[w]] \notin Unregistered /\ pc[w] \in ConsumeLocked
  BY <1>1, HeadAtHand
<1>5. tasks[agent[w]] \in Seq(Entries)
  BY <1>4 DEF FileInv, TypeOK, FilesTypeOK
<1>6. \A v \in Workers : v # w /\ pc[v] \in ConsumeLocked => agent[v] # agent[w]
  BY <1>4, ExtractsAlone
<1> QED BY <1>2, <1>3, <1>4, <1>5, <1>6

\* DeleteTask and TakeDeadTask take the head out of _tasks.json.
LEMMA TakeOutWrites ==
  ASSUME FileInv, NEW w \in Workers, DeleteTask(w) \/ TakeDeadTask(w)
  PROVE  \E to \in {"roundUnlock", "keepSadd", "dropSrem"} :
           TaskFileWritten(w, Without(tasks[agent[w]], head[w]), to)
<1> DEFINE q == Without(tasks[agent[w]], head[w])
<1>1. pc[w] \in {"delWrite", "pfWrite"}
  BY DEF DeleteTask, TakeDeadTask
<1>2. /\ doc[w] = tasks[agent[w]] /\ Serves(w) = agent[w] /\ w \in Procs
      /\ head[w] \in Ids(tasks[agent[w]]) /\ tasks[agent[w]] \in Seq(Entries)
  BY <1>1, RoundWrites
<1>3. Len(q) # Len(doc[w])
  BY <1>2, WithoutIds
<1>4. tasks' = [tasks EXCEPT ![agent[w]] = q]
  BY <1>2, <1>3 DEF DeleteTask, TakeDeadTask
<1>5. PICK to \in {"roundUnlock", "keepSadd", "dropSrem"} : Goto(w, to)
  BY QueueFollowsMoves DEF DeleteTask, TakeDeadTask
<1>6. /\ UNCHANGED <<dlq, doc, agent, head, extracted>>
      /\ \A v \in Workers : v # w => dead'[v] = dead[v]
  BY DeadAt DEF DeleteTask, TakeDeadTask, localVars, histVars
<1> QED BY <1>1, <1>2, <1>4, <1>5, <1>6 DEF TaskFileWritten

LEMMA TakeOutKeeps ==
  ASSUME FileInv, NEW w \in Workers, DeleteTask(w) \/ TakeDeadTask(w)
  PROVE  TaskFacts'
<1> DEFINE q == Without(tasks[agent[w]], head[w])
<1>1. pc[w] \in {"delWrite", "pfWrite"}
  BY DEF DeleteTask, TakeDeadTask
<1>2. PICK to \in {"roundUnlock", "keepSadd", "dropSrem"} : TaskFileWritten(w, q, to)
  BY TakeOutWrites
<1>3. Ids(q) = Ids(tasks[agent[w]]) \ {head[w]}
  BY <1>1, RoundWrites, WithoutIds
<1>4. /\ w \in Procs /\ w \notin Tasks /\ InCritical(w) /\ Serves(w) = agent[w]
      /\ agent[w] \in Agents /\ head[w] \in Tasks /\ AgentOf[head[w]] = agent[w]
      /\ pc[head[w]] \notin Unregistered
      /\ \A v \in Workers : v # w /\ pc[v] \in ConsumeLocked => agent[v] # agent[w]
  BY <1>1, RoundWrites
<1>5. \A v \in Workers : v # w /\ pc[v] \in HeadKept => agent[v] # agent[w]
  BY <1>4, HeadAtHand
<1> QED BY <1>2, <1>3, <1>4, <1>5, TaskFileKeeps

LEMMA CountRetryWrites ==
  ASSUME FileInv, NEW w \in Workers, CountRetry(w)
  PROVE  /\ \E to \in {"roundUnlock", "keepSadd", "dropSrem"} :
              TaskFileWritten(w, WithRetry(tasks[agent[w]], head[w]), to)
         /\ Ids(WithRetry(tasks[agent[w]], head[w])) = Ids(tasks[agent[w]])
         /\ UNCHANGED <<dead, faults>> /\ ~dead[w] /\ pc[w] = "pfWrite"
<1>1. pc[w] \in {"delWrite", "pfWrite"}
  BY DEF CountRetry
<1>2. /\ doc[w] = tasks[agent[w]] /\ Serves(w) = agent[w] /\ w \in Procs /\ ~dead[w]
      /\ tasks[agent[w]] \in Seq(Entries)
  BY <1>1, RoundWrites
<1>3. PICK to \in {"roundUnlock", "keepSadd", "dropSrem"} : Goto(w, to)
  BY QueueFollowsMoves DEF CountRetry
<1>4. /\ tasks' = [tasks EXCEPT ![agent[w]] = WithRetry(tasks[agent[w]], head[w])]
      /\ UNCHANGED <<dlq, doc, agent, head, extracted, dead, faults>> /\ pc[w] = "pfWrite"
  BY <1>2 DEF CountRetry, localVars, histVars
<1>5. TaskFileWritten(w, WithRetry(tasks[agent[w]], head[w]), to)
  BY <1>2, <1>3, <1>4 DEF TaskFileWritten
<1> QED BY <1>2, <1>4, <1>5, WithRetryIds

LEMMA CountRetryKeeps ==
  ASSUME FileInv, NEW w \in Workers, CountRetry(w)
  PROVE  TaskFacts'
<1> DEFINE q == WithRetry(tasks[agent[w]], head[w])
<1>1. PICK to \in {"roundUnlock", "keepSadd", "dropSrem"} : TaskFileWritten(w, q, to)
  BY CountRetryWrites
<1>2. /\ Ids(q) = Ids(tasks[agent[w]]) /\ ~dead'[w] /\ pc[w] \in {"delWrite", "pfWrite"}
  BY CountRetryWrites
<1>3. /\ w \in Procs /\ w \notin Tasks /\ InCritical(w) /\ Serves(w) = agent[w]
      /\ agent[w] \in Agents
      /\ \A v \in Workers : v # w /\ pc[v] \in ConsumeLocked => agent[v] # agent[w]
  BY <1>2, RoundWrites
<1>4. \A v \in Workers : v # w /\ pc[v] \in HeadKept => agent[v] # agent[w]
  BY <1>3, HeadAtHand
<1> QED BY <1>1, <1>2, <1>3, <1>4, TaskFileKeeps

LEMMA ReadHeadKeeps ==
  ASSUME FileInv, NEW w \in Workers, ReadHead(w)
  PROVE  TaskFacts'
<1>1. /\ UNCHANGED <<tasks, dlq, extracted, agent, doc, dead, faults>> /\ pc[w] = "headRead"
      /\ \/ Goto(w, "headSrem") /\ head' = head
         \/ /\ Goto(w, "headUnlock") /\ tasks[agent[w]] # <<>>
            /\ head' = [head EXCEPT ![w] = tasks[agent[w]][1].id]
  BY DEF ReadHead, fileVars, histVars
<1>2. /\ \A x \in Procs : x # w => pc'[x] = pc[x]
      /\ \A v \in Workers : v # w => head'[v] = head[v]
      /\ pc'[w] = "headSrem" \/ (pc'[w] = "headUnlock" /\ tasks[agent[w]] # <<>>
                                  /\ head'[w] = tasks[agent[w]][1].id)
      /\ w \in Procs /\ ~dead[w]
  BY <1>1, DeadAt DEF Goto, DeadLabels, OnItsWay, Requeues
<1>3. FilesOwned'
  BY <1>1 DEF FileInv, TaskFacts, FilesOwned
<1>4. CopiesFresh'
  BY <1>1, <1>2, Constants DEF FileInv, TaskFacts, CopiesFresh
<1>5. HeadsFirst'
  BY <1>1, <1>2, Constants DEF FileInv, TaskFacts, HeadsFirst, HeadKept
<1>6. DeadTaken'
  BY <1>1, <1>2, Constants DEF FileInv, TaskFacts, DeadTaken
<1>7. Unseen'
  BY <1>1, <1>2, Constants DEF FileInv, TaskFacts, Unseen
<1> QED BY <1>3, <1>4, <1>5, <1>6, <1>7 DEF TaskFacts

LEMMA ExtractMoves ==
  ASSUME FileInv, NEW w \in Workers, Extract(w)
  PROVE  /\ UNCHANGED <<tasks, dlq, agent, head, doc, dead, faults>> /\ pc[w] = "extract"
         /\ pc'[w] = "delLock" /\ \A x \in Procs : x # w => pc'[x] = pc[x]
         /\ w \in Procs /\ ~dead[w] /\ pc[w] \in HeadKept
         /\ extracted'[head[w]] = extracted[head[w]] + 1
         /\ \A t \in Tasks : t # head[w] => extracted'[t] = extracted[t]
<1>1. head[w] \in Tasks /\ pc[w] \in HeadKept
  BY HeadAtHand DEF Extract, HeadKept
<1>2. extracted \in [Tasks -> Nat]
  BY DEF FileInv, TypeOK, HistoryTypeOK
<1>3. /\ UNCHANGED <<tasks, dlq, agent, head, doc, dead, faults>> /\ pc[w] = "extract"
      /\ extracted' = [extracted EXCEPT ![head[w]] = @ + 1] /\ Goto(w, "delLock")
  BY DEF Extract, fileVars, localVars
<1> QED BY <1>1, <1>2, <1>3, DeadAt DEF Goto, DeadLabels, OnItsWay, Requeues

LEMMA ExtractKeeps ==
  ASSUME FileInv, NEW w \in Workers, Extract(w)
  PROVE  TaskFacts'
<1>1. /\ UNCHANGED <<tasks, dlq, agent, head, doc, dead>> /\ pc[w] = "extract"
      /\ pc'[w] = "delLock" /\ \A x \in Procs : x # w => pc'[x] = pc[x]
      /\ w \in Procs /\ ~dead[w] /\ pc[w] \in HeadKept
      /\ \A t \in Tasks : t # head[w] => extracted'[t] = extracted[t]
  BY ExtractMoves
<1>2. pc[head[w]] \notin Unregistered
  BY <1>1, HeadAtHand
<1>3. FilesOwned'
  BY <1>1 DEF FileInv, TaskFacts, FilesOwned
<1>4. CopiesFresh'
  BY <1>1, Constants DEF FileInv, TaskFacts, CopiesFresh
<1>5. HeadsFirst'
  BY <1>1, Constants DEF FileInv, TaskFacts, HeadsFirst, HeadKept
<1>6. DeadTaken'
  BY <1>1, Constants DEF FileInv, TaskFacts, DeadTaken
<1>7. Unseen'
  BY <1>1, <1>2, Constants DEF FileInv, TaskFacts, Unseen
<1> QED BY <1>3, <1>4, <1>5, <1>6, <1>7 DEF TaskFacts

LEMMA AppendDlqMoves ==
  ASSUME FileInv, NEW w \in Workers, AppendDlq(w)
  PROVE  /\ UNCHANGED <<tasks, extracted, agent, head, doc, dead, faults>>
         /\ pc[w] = "dlqWrite" /\ pc'[w] = "release"
         /\ \A x \in Procs : x # w => pc'[x] = pc[x]
         /\ w \in Procs /\ dead[w] /\ agent[w] \in Agents
         /\ head[w] \in Tasks /\ AgentOf[head[w]] = agent[w]
         /\ head[w] \notin Ids(tasks[agent[w]]) /\ pc[head[w]] \notin Unregistered
         /\ \A v \in Workers : v # w /\ pc[v] \in ConsumeLocked => agent[v] # agent[w]
         /\ dlq[agent[w]] \in Seq(Entries)
         /\ [id |-> head[w], retry |-> PermanentMaxRetries] \in Entries
         /\ dlq'[agent[w]] = Append(dlq[agent[w]],
                                    [id |-> head[w], retry |-> PermanentMaxRetries])
         /\ \A a \in Agents : a # agent[w] => dlq'[a] = dlq[a]
<1>1. /\ UNCHANGED <<tasks, extracted, agent, head, doc, dead, faults>>
      /\ pc[w] = "dlqWrite" /\ Goto(w, "release") /\ doc[w] = dlq[agent[w]]
      /\ dlq' = [dlq EXCEPT ![agent[w]] =
                   Append(dlq[agent[w]], [id |-> head[w], retry |-> PermanentMaxRetries])]
  BY DEF AppendDlq, FileInv, TaskFacts, CopiesFresh, localVars, histVars
<1>2. /\ dead[w] /\ head[w] \in Tasks /\ AgentOf[head[w]] = agent[w]
      /\ head[w] \notin Ids(tasks[agent[w]]) /\ pc[head[w]] \notin Unregistered
  BY <1>1 DEF FileInv, TaskFacts, DeadTaken
<1>3. agent[w] \in Agents /\ pc[w] \in ConsumeLocked
  BY <1>1, WorkerServes DEF FileInv, ConsumeLocked, ConsumeLabels
<1>4. \A v \in Workers : v # w /\ pc[v] \in ConsumeLocked => agent[v] # agent[w]
  BY <1>3, ExtractsAlone
<1>5. dlq \in [Agents -> Seq(Entries)] /\ w \in Procs
  BY Constants DEF FileInv, TypeOK, FilesTypeOK
<1>6. [id |-> head[w], retry |-> PermanentMaxRetries] \in Entries
  BY <1>2, ConstantsAssumption DEF Entries
<1>7. pc'[w] = "release" /\ \A x \in Procs : x # w => pc'[x] = pc[x]
  BY <1>1, <1>5, DeadAt DEF Goto
<1>8. /\ dlq'[agent[w]] = Append(dlq[agent[w]],
                                 [id |-> head[w], retry |-> PermanentMaxRetries])
      /\ \A a \in Agents : a # agent[w] => dlq'[a] = dlq[a]
  BY <1>1, <1>3, <1>5
<1> QED BY <1>1, <1>2, <1>3, <1>4, <1>5, <1>6, <1>7, <1>8

LEMMA AppendDlqKeeps ==
  ASSUME FileInv, NEW w \in Workers, AppendDlq(w)
  PROVE  TaskFacts'
<1> DEFINE e == [id |-> head[w], retry |-> PermanentMaxRetries]
<1>1. /\ UNCHANGED <<tasks, extracted, agent, head, doc, dead>>
      /\ pc[w] = "dlqWrite" /\ pc'[w] = "release"
      /\ \A x \in Procs : x # w => pc'[x] = pc[x]
      /\ w \in Procs /\ dead[w] /\ agent[w] \in Agents
      /\ head[w] \in Tasks /\ AgentOf[head[w]] = agent[w]
      /\ head[w] \notin Ids(tasks[agent[w]]) /\ pc[head[w]] \notin Unregistered
      /\ \A v \in Workers : v # w /\ pc[v] \in ConsumeLocked => agent[v] # agent[w]
      /\ \A a \in Agents : a # agent[w] => dlq'[a] = dlq[a]
  BY AppendDlqMoves
<1>2. Ids(dlq'[agent[w]]) = Ids(dlq[agent[w]]) \cup {head[w]}
  <2>1. /\ dlq[agent[w]] \in Seq(Entries) /\ e \in Entries /\ e.id = head[w]
        /\ dlq'[agent[w]] = Append(dlq[agent[w]], e)
    BY AppendDlqMoves
  <2> HIDE DEF e
  <2> QED BY <2>1, AppendIds
<1>3. FilesOwned'
  BY <1>1, <1>2 DEF FileInv, TaskFacts, FilesOwned
<1>4. CopiesFresh'
  <2>1. ASSUME NEW v \in Workers, pc'[v] = "dlqWrite"
        PROVE  doc'[v] = dlq'[agent'[v]]
    <3>1. v # w /\ pc[v] = "dlqWrite"
      BY <1>1, <2>1, Constants
    <3>2. agent[v] # agent[w] /\ agent[v] \in Agents
      BY <1>1, <3>1, WorkerServes DEF FileInv, ConsumeLocked, ConsumeLabels
    <3> QED BY <1>1, <3>1, <3>2 DEF FileInv, TaskFacts, CopiesFresh
  <2>2. \A v \in Workers : pc'[v] \in {"delWrite", "pfWrite"} => doc'[v] = tasks'[agent'[v]]
    BY <1>1, Constants DEF FileInv, TaskFacts, CopiesFresh
  <2>3. \A t \in Tasks : pc'[t] = "write" => doc'[t] = tasks'[AgentOf[t]]
    BY <1>1, Constants DEF FileInv, TaskFacts, CopiesFresh
  <2> QED BY <2>1, <2>2, <2>3 DEF CopiesFresh
<1>5. HeadsFirst'
  BY <1>1, Constants DEF FileInv, TaskFacts, HeadsFirst, HeadKept
<1>6. DeadTaken'
  <2>1. ASSUME NEW v \in Workers, dead'[v]
        PROVE  pc'[v] \in DeadLabels
    BY <1>1, <2>1, Constants DEF FileInv, TaskFacts, DeadTaken, DeadLabels
  <2>2. \A t \in Tasks : pc'[t] = pc[t]
    BY <1>1, Constants
  <2>3. ASSUME NEW v \in Workers, pc'[v] \in {"dlqRead", "dlqWrite"}
        PROVE  dead'[v]
    BY <1>1, <2>3, Constants DEF FileInv, TaskFacts, DeadTaken
  <2> QED BY <1>1, <2>1, <2>2, <2>3 DEF FileInv, TaskFacts, DeadTaken
<1>7. Unseen'
  BY <1>1, <1>2, Constants DEF FileInv, TaskFacts, Unseen
<1> QED BY <1>3, <1>4, <1>5, <1>6, <1>7 DEF TaskFacts

LEMMA FileInvInit == Init => FileInv /\ DownIsOff
<1> SUFFICES ASSUME Init PROVE FileInv /\ DownIsOff
  OBVIOUS
<1>1. HoldsMutex /\ HoldsExtractLock /\ DownIsOff
  BY Constants DEF Init, HoldsMutex, InCritical, TriggerCritical, ConsumeCritical,
     HoldsExtractLock, ConsumeLocked, ConsumeLabels, DownIsOff
<1>2. /\ \A a \in Agents : Ids(tasks[a]) = {} /\ Ids(dlq[a]) = {}
      /\ \A t \in Tasks : pc[t] = "new" /\ extracted[t] = 0 /\ AgentOf[t] \in Agents
      /\ \A w \in Workers : pc[w] = "off" /\ ~dead[w]
  BY Constants DEF Init, Ids
<1>3. TaskFacts
  BY <1>2 DEF TaskFacts, FilesOwned, CopiesFresh, HeadsFirst, DeadTaken, Unseen, HeadKept
<1> QED BY <1>1, <1>3, InitType DEF FileInv

LEMMA FileInvStep ==
  ASSUME LocksLast, FileInv, DownIsOff, [Next]_vars
  PROVE  FileInv' /\ DownIsOff'
<1>1. TypeOK' /\ HoldsMutex' /\ HoldsExtractLock' /\ DownIsOff'
  BY MutexInvStep, ExtractInvStep, DownStaysOff
  DEF LocksLast, FileInv, MutexInv, ExtractInv
<1>2. TaskFacts'
  BY PlainOrTelling, PlainKeeps, RegisterKeeps, ReadHeadKeeps, ExtractKeeps, TakeOutKeeps,
     CountRetryKeeps, AppendDlqKeeps
  DEF Telling
<1> QED BY <1>1, <1>2 DEF FileInv

-----------------------------------------------------------------------------
\* Only the head of its agent's task file is ever extracted: tasks are
\* extracted in the order of their registration, however often they have
\* failed, as long as no lock is lost under its holder.  Crashes, failing
\* commands and files, and ghosts do not change the order.
THEOREM OrderCorrect ==
  ASSUME LocksLast
  PROVE  Spec => InRegistrationOrder
<1> DEFINE InOrder == \A t \in Tasks :
             extracted'[t] # extracted[t] =>
               /\ tasks[AgentOf[t]] # <<>>
               /\ tasks[AgentOf[t]][1].id = t
<1>1. FileInv /\ DownIsOff /\ [Next]_vars => [InOrder]_vars
  <2> SUFFICES ASSUME FileInv, DownIsOff, [Next]_vars, NEW t \in Tasks,
                      extracted'[t] # extracted[t]
               PROVE  tasks[AgentOf[t]] # <<>> /\ tasks[AgentOf[t]][1].id = t
    OBVIOUS
  <2>1. PICK w \in Workers : Extract(w)
    <3>1. Telling
      BY PlainOrTelling DEF Plain
    <3>2. ASSUME NEW s \in Tasks, RegisterTask(s)
          PROVE  extracted' = extracted
      BY <3>2 DEF RegisterTask, histVars
    <3>3. ASSUME NEW w \in Workers,
                 \/ ReadHead(w) \/ DeleteTask(w) \/ CountRetry(w) \/ TakeDeadTask(w)
                 \/ AppendDlq(w)
          PROVE  extracted' = extracted
      BY <3>3 DEF ReadHead, DeleteTask, CountRetry, TakeDeadTask, AppendDlq, histVars
    <3> QED BY <3>1, <3>2, <3>3 DEF Telling
  <2>2. t = head[w] /\ pc[w] \in HeadKept
    BY <2>1, ExtractMoves
  <2>3. AgentOf[t] = agent[w]
    BY <2>2, HeadAtHand
  <2> QED BY <2>2, <2>3 DEF FileInv, TaskFacts, HeadsFirst
<1>2. FileInv /\ DownIsOff /\ [Next]_vars => (FileInv /\ DownIsOff)'
  BY FileInvStep
<1> QED BY <1>1, <1>2, FileInvInit, PTL DEF Spec, InRegistrationOrder

-----------------------------------------------------------------------------
(* A task is settled once. *)

Letters(t) == {i \in DOMAIN dlq[AgentOf[t]] : dlq[AgentOf[t]][i].id = t}

\* How often t has been settled.
Spent(t) == extracted[t] + Cardinality(Letters(t))

\* A worker is deleting t, which it has extracted or found to be a ghost.
IsSettling(w, t) == pc[w] \in Settling /\ head[w] = t

\* A worker is taking t to the dead-letter file.
IsBurying(w, t) == dead[w] /\ head[w] = t /\ pc[w] \in OnItsWay

\* Without a failure, t will be settled once more.
Open(t) ==
  \/ t \in Ids(tasks[AgentOf[t]]) /\ \A w \in Workers : ~IsSettling(w, t)
  \/ \E w \in Workers : IsBurying(w, t)

\* What has been settled, and what is still open, is paid for by the faults.
Budget == \A t \in Tasks : Spent(t) <= 1 + faults /\ (Open(t) => Spent(t) <= faults)

LettersFinal ==
  \A t \in Tasks : t \in Ids(dlq[AgentOf[t]]) => t \notin Ids(tasks[AgentOf[t]])

SettledInv == FileInv /\ DownIsOff /\ Budget /\ LettersFinal

LEMMA SpentType ==
  ASSUME FileInv, NEW t \in Tasks
  PROVE  /\ extracted[t] \in Nat /\ IsFiniteSet(Letters(t)) /\ Cardinality(Letters(t)) \in Nat
         /\ Spent(t) \in Nat /\ faults \in Nat
         /\ t \notin Ids(dlq[AgentOf[t]]) => Spent(t) = extracted[t]
<1>1. dlq[AgentOf[t]] \in Seq(Entries) /\ extracted[t] \in Nat /\ faults \in Nat
  BY Constants DEF FileInv, TypeOK, FilesTypeOK, HistoryTypeOK
<1>2. Letters(t) \subseteq 1..Len(dlq[AgentOf[t]]) /\ Len(dlq[AgentOf[t]]) \in Nat
  BY <1>1, LenProperties DEF Letters
<1>3. IsFiniteSet(Letters(t)) /\ Cardinality(Letters(t)) \in Nat
  BY <1>2, IntervalSize, FS_Subset, FS_CardinalityType
<1>4. ASSUME t \notin Ids(dlq[AgentOf[t]])
      PROVE  Spent(t) = extracted[t]
  <2>1. Letters(t) = {}
    BY <1>4 DEF Letters, Ids
  <2> QED BY <1>1, <2>1, FS_EmptySet DEF Spent
<1> QED BY <1>1, <1>3, <1>4 DEF Spent

\* The workers that have to do with a task serve its agent, so at most one of
\* them is at work.
LEMMA OneWorkerPerTask ==
  ASSUME FileInv, NEW t \in Tasks, NEW v \in Workers, NEW w \in Workers,
         IsSettling(v, t) \/ IsBurying(v, t),
         pc[w] \in ConsumeLocked, agent[w] = AgentOf[t]
  PROVE  v = w
<1>1. pc[v] \in ConsumeLocked
  BY DEF IsSettling, IsBurying, Settling, OnItsWay, Requeues, ConsumeLocked, ConsumeLabels
<1>2. CASE IsSettling(v, t)
  <2>1. agent[v] = AgentOf[t]
    BY <1>2, HeadAtHand DEF IsSettling, Settling, HeadKept
  <2> QED BY <1>1, <2>1, ExtractsAlone
<1>3. CASE IsBurying(v, t)
  <2>1. agent[v] = AgentOf[t]
    BY <1>3 DEF IsBurying, FileInv, TaskFacts, DeadTaken
  <2> QED BY <1>1, <2>1, ExtractsAlone
<1> QED BY <1>2, <1>3

\* A step that opens no task and spends nothing keeps the budget.
LEMMA NothingSpent ==
  ASSUME SettledInv, faults' = faults, UNCHANGED <<dlq, extracted>>, NEW t \in Tasks,
         Open(t)' => Open(t)
  PROVE  Spent(t)' <= 1 + faults' /\ (Open(t)' => Spent(t)' <= faults')
<1>1. Spent(t)' = Spent(t)
  BY DEF Spent, Letters
<1> QED BY <1>1 DEF SettledInv, Budget

LEMMA PlainBudget ==
  ASSUME SettledInv, Plain
  PROVE  Budget' /\ LettersFinal'
<1>1. ASSUME NEW t \in Tasks
      PROVE  Spent(t)' <= 1 + faults' /\ (Open(t)' => Spent(t)' <= faults')
  <2>1. CASE faults' = faults
    <3>1. ASSUME Open(t)'
          PROVE  Open(t)
      <4>1. ASSUME NEW w \in Workers, IsBurying(w, t)'
            PROVE  IsBurying(w, t)
        BY <4>1 DEF IsBurying, Plain, WorkerStep
      <4>2. ASSUME NEW w \in Workers, IsSettling(w, t)
            PROVE  IsSettling(w, t)'
        <5>1. pc'[w] \in Settling /\ pc'[w] \in HeadKept
          BY <2>1, <4>2 DEF IsSettling, Plain, WorkerStep, Settling, HeadKept
        <5>2. head'[w] = head[w]
          BY <5>1 DEF Plain, WorkerStep
        <5> QED BY <4>2, <5>1, <5>2 DEF IsSettling
      <4>3. UNCHANGED tasks
        BY DEF Plain
      <4> QED BY <3>1, <4>1, <4>2, <4>3 DEF Open
    <3> QED BY <2>1, <3>1, NothingSpent DEF Plain
  <2>2. CASE faults' = faults + 1
    <3>1. Spent(t)' = Spent(t)
      BY DEF Plain, Spent, Letters
    <3>2. Spent(t) \in Nat /\ faults \in Nat
      BY SpentType DEF SettledInv
    <3>3. Spent(t) <= 1 + faults
      BY DEF SettledInv, Budget
    <3> QED BY <2>2, <3>1, <3>2, <3>3
  <2> QED BY <2>1, <2>2 DEF Plain
<1>2. LettersFinal'
  BY DEF SettledInv, LettersFinal, Plain
<1> QED BY <1>1, <1>2 DEF Budget

LEMMA RegisterBudget ==
  ASSUME SettledInv, NEW t \in Tasks, RegisterTask(t)
  PROVE  Budget' /\ LettersFinal'
<1>1. PICK q \in Seq(Entries) :
        /\ TaskFileWritten(t, q, "sadd") /\ Ids(q) = Ids(tasks[AgentOf[t]]) \cup {t}
        /\ UNCHANGED <<dead, faults>>
  BY RegisterWrites DEF SettledInv
<1>2. /\ UNCHANGED <<dlq, doc, agent, head, extracted, dead, faults>>
      /\ \A w \in Workers : pc'[w] = pc[w]
      /\ \A s \in Tasks : s # t => (s \in Ids(tasks'[AgentOf[s]]) => s \in Ids(tasks[AgentOf[s]]))
      /\ t \notin Ids(dlq[AgentOf[t]]) /\ extracted[t] = 0
  <2>1. pc[t] \in Unregistered
    BY DEF RegisterTask, Unregistered
  <2>2. tasks \in [Agents -> Seq(Entries)] /\ Serves(t) = AgentOf[t]
    BY TriggerServes DEF SettledInv, FileInv, TypeOK, FilesTypeOK
  <2> QED BY <1>1, <2>1, <2>2, Constants
          DEF TaskFileWritten, Goto, SettledInv, FileInv, TypeOK, LabelsTypeOK, TaskFacts, Unseen
<1>3. ASSUME NEW s \in Tasks
      PROVE  Spent(s)' <= 1 + faults' /\ (Open(s)' => Spent(s)' <= faults')
  <2>1. CASE s = t
    <3>1. Spent(s)' = Spent(s) /\ Spent(s) = 0 /\ faults \in Nat /\ faults' = faults
      BY <1>2, <2>1, SpentType DEF SettledInv, Spent, Letters
    <3> QED BY <3>1
  <2>2. CASE s # t
    <3>1. Open(s)' => Open(s)
      BY <1>2, <2>2 DEF Open, IsSettling, IsBurying
    <3> QED BY <1>2, <3>1, NothingSpent
  <2> QED BY <2>1, <2>2
<1>4. LettersFinal'
  BY <1>2 DEF SettledInv, LettersFinal
<1> QED BY <1>3, <1>4 DEF Budget

LEMMA ReadHeadBudget ==
  ASSUME SettledInv, NEW w \in Workers, ReadHead(w)
  PROVE  Budget' /\ LettersFinal'
<1>1. /\ UNCHANGED <<tasks, dlq, extracted, dead, faults>>
      /\ ~dead[w] /\ pc[w] \notin Settling
      /\ \A v \in Workers : v # w => pc'[v] = pc[v] /\ head'[v] = head[v]
      /\ pc'[w] \notin Settling
  <2>1. /\ pc[w] = "headRead" /\ \E to \in {"headSrem", "headUnlock"} : Goto(w, to)
        /\ \E t : head' \in {head, [head EXCEPT ![w] = t]}
        /\ UNCHANGED <<tasks, dlq, extracted, dead, faults>>
    BY DEF ReadHead, fileVars, histVars
  <2> QED BY <2>1, DeadAt, Constants
          DEF SettledInv, Goto, Settling, DeadLabels, OnItsWay, Requeues
<1>2. \A t \in Tasks : Open(t)' => Open(t)
  BY <1>1 DEF Open, IsSettling, IsBurying
<1>3. LettersFinal'
  BY <1>1 DEF SettledInv, LettersFinal
<1> QED BY <1>1, <1>2, <1>3, NothingSpent DEF Budget

LEMMA ExtractBudget ==
  ASSUME SettledInv, NEW w \in Workers, Extract(w)
  PROVE  Budget' /\ LettersFinal'
<1>0. FileInv
  BY DEF SettledInv
<1>1. /\ UNCHANGED <<tasks, dlq, agent, head, doc, dead, faults>> /\ pc[w] = "extract"
      /\ pc'[w] = "delLock" /\ \A x \in Procs : x # w => pc'[x] = pc[x]
      /\ w \in Procs /\ ~dead[w] /\ pc[w] \in HeadKept
      /\ extracted'[head[w]] = extracted[head[w]] + 1
      /\ \A t \in Tasks : t # head[w] => extracted'[t] = extracted[t]
  BY <1>0, ExtractMoves
<1>2. /\ head[w] \in Tasks /\ head[w] \in Ids(tasks[agent[w]]) /\ AgentOf[head[w]] = agent[w]
      /\ pc[w] \in ConsumeLocked
  BY <1>0, <1>1, HeadAtHand
<1>3. ASSUME NEW t \in Tasks
      PROVE  Spent(t)' <= 1 + faults' /\ (Open(t)' => Spent(t)' <= faults')
  <2>1. CASE t = head[w]
    <3>1. \A v \in Workers : ~IsSettling(v, t) /\ ~IsBurying(v, t)
      <4>1. ~IsSettling(w, t) /\ ~IsBurying(w, t)
        BY <1>1 DEF IsSettling, IsBurying, Settling
      <4> QED BY <1>0, <1>2, <2>1, <4>1, OneWorkerPerTask
    <3>2. Open(t)
      BY <1>2, <2>1, <3>1 DEF Open
    <3>3. IsSettling(w, t)'
      BY <1>1, <2>1 DEF IsSettling, Settling
    <3>4. \A v \in Workers : ~IsBurying(v, t)'
      BY <1>1, <3>1, Constants DEF IsBurying
    <3>5. ~Open(t)'
      BY <3>3, <3>4 DEF Open
    <3>6. Spent(t) <= faults
      BY <3>2 DEF SettledInv, Budget
    <3>7. Spent(t)' = Spent(t) + 1
      <4>1. extracted'[t] = extracted[t] + 1 /\ Letters(t)' = Letters(t)
        BY <1>1, <2>1 DEF Letters
      <4> QED BY <1>0, <4>1, SpentType DEF Spent
    <3> QED BY <1>0, <1>1, <3>5, <3>6, <3>7, SpentType
  <2>2. CASE t # head[w]
    <3>1. Spent(t)' = Spent(t)
      BY <1>1, <2>2 DEF Spent, Letters
    <3>2. Open(t)' => Open(t)
      BY <1>1, <2>2, Constants DEF Open, IsSettling, IsBurying
    <3> QED BY <1>1, <3>1, <3>2 DEF SettledInv, Budget
  <2> QED BY <2>1, <2>2
<1>4. LettersFinal'
  BY <1>1 DEF SettledInv, LettersFinal
<1> QED BY <1>3, <1>4 DEF Budget

\* What a round that writes _tasks.json leaves of the tasks that are open: it
\* opens none but the one it may take to the dead-letter file.
LEMMA RoundBudget ==
  ASSUME SettledInv, NEW w \in Workers, NEW q, NEW to, TaskFileWritten(w, q, to),
         faults' = faults, Ids(q) \subseteq Ids(tasks[agent[w]]),
         pc[w] = "delWrite" => head[w] \notin Ids(q),
         dead'[w] => pc[w] = "pfWrite"
  PROVE  Budget' /\ LettersFinal'
<1>0. FileInv /\ pc[w] \in {"delWrite", "pfWrite"}
  <2>1. pc[w] # "write"
    BY DEF SettledInv, FileInv, TypeOK, LabelsTypeOK, WorkerLabels, PoolLabels, ConsumeLabels
  <2> QED BY <2>1 DEF SettledInv, TaskFileWritten
<1>1. /\ head[w] \in Tasks /\ head[w] \in Ids(tasks[agent[w]]) /\ AgentOf[head[w]] = agent[w]
      /\ agent[w] \in Agents /\ Serves(w) = agent[w] /\ w \in Procs /\ w \notin Tasks
      /\ ~dead[w]
  BY <1>0, RoundWrites
<1>2. /\ UNCHANGED <<dlq, agent, head, extracted>>
      /\ \A x \in Procs : x # w => pc'[x] = pc[x]
      /\ \A v \in Workers : v # w => dead'[v] = dead[v]
      /\ pc'[w] = to /\ to \notin Settling
      /\ tasks'[agent[w]] = q /\ \A a \in Agents : a # agent[w] => tasks'[a] = tasks[a]
  BY <1>0, <1>1 DEF TaskFileWritten, Goto, FileInv, TypeOK, LabelsTypeOK, FilesTypeOK, Settling
<1>3. ASSUME NEW t \in Tasks, t \in Ids(tasks'[AgentOf[t]])
      PROVE  t \in Ids(tasks[AgentOf[t]]) /\ (pc[w] = "delWrite" => t # head[w])
  BY <1>1, <1>2, <1>3, Constants
<1>4. ASSUME NEW t \in Tasks, Open(t)'
      PROVE  Open(t)
  <2>1. CASE t \in Ids(tasks'[AgentOf[t]]) /\ \A v \in Workers : ~IsSettling(v, t)'
    <3>1. ~IsSettling(w, t)
      BY <1>0, <1>3, <2>1 DEF IsSettling, Settling
    <3>2. \A v \in Workers : v # w => ~IsSettling(v, t)
      BY <1>2, <2>1, Constants DEF IsSettling
    <3> QED BY <1>3, <2>1, <3>1, <3>2 DEF Open
  <2>2. ASSUME NEW v \in Workers, IsBurying(v, t)'
        PROVE  Open(t)
    <3>1. CASE v # w
      BY <1>2, <2>2, <3>1, Constants DEF IsBurying, Open
    <3>2. CASE v = w
      <4>1. t = head[w] /\ pc[w] = "pfWrite"
        BY <1>2, <2>2, <3>2 DEF IsBurying
      <4>2. ~IsSettling(w, t)
        BY <4>1 DEF IsSettling, Settling
      <4>3. pc[w] \in ConsumeLocked
        BY <4>1 DEF ConsumeLocked, ConsumeLabels
      <4>4. \A u \in Workers : ~IsSettling(u, t)
        BY <1>0, <1>1, <4>1, <4>2, <4>3, OneWorkerPerTask
      <4> QED BY <1>1, <4>1, <4>4 DEF Open
    <3> QED BY <3>1, <3>2
  <2> QED BY <1>4, <2>1, <2>2 DEF Open
<1>5. LettersFinal'
  BY <1>2, <1>3 DEF SettledInv, LettersFinal
<1> QED BY <1>2, <1>4, <1>5, NothingSpent DEF Budget

LEMMA TakeOutBudget ==
  ASSUME SettledInv, NEW w \in Workers, DeleteTask(w) \/ TakeDeadTask(w)
  PROVE  Budget' /\ LettersFinal'
<1> DEFINE q == Without(tasks[agent[w]], head[w])
<1>1. PICK to \in {"roundUnlock", "keepSadd", "dropSrem"} : TaskFileWritten(w, q, to)
  BY TakeOutWrites DEF SettledInv
<1>2. pc[w] \in {"delWrite", "pfWrite"} /\ faults' = faults
  BY DEF DeleteTask, TakeDeadTask, histVars
<1>3. Ids(q) = Ids(tasks[agent[w]]) \ {head[w]}
  BY <1>2, RoundWrites, WithoutIds DEF SettledInv
<1>4. dead'[w] => pc[w] = "pfWrite"
  <2>1. ~dead[w]
    BY <1>2, RoundWrites DEF SettledInv
  <2> QED BY <2>1 DEF DeleteTask, TakeDeadTask, localVars
<1> QED BY <1>1, <1>2, <1>3, <1>4, RoundBudget

LEMMA CountRetryBudget ==
  ASSUME SettledInv, NEW w \in Workers, CountRetry(w)
  PROVE  Budget' /\ LettersFinal'
<1> DEFINE q == WithRetry(tasks[agent[w]], head[w])
<1>1. PICK to \in {"roundUnlock", "keepSadd", "dropSrem"} : TaskFileWritten(w, q, to)
  BY CountRetryWrites DEF SettledInv
<1>2. Ids(q) = Ids(tasks[agent[w]]) /\ faults' = faults /\ ~dead'[w] /\ pc[w] = "pfWrite"
  BY CountRetryWrites DEF SettledInv
<1> QED BY <1>1, <1>2, RoundBudget

LEMMA AppendDlqBudget ==
  ASSUME SettledInv, NEW w \in Workers, AppendDlq(w)
  PROVE  Budget' /\ LettersFinal'
<1> DEFINE e == [id |-> head[w], retry |-> PermanentMaxRetries]
           old == dlq[agent[w]]
<1>0. FileInv
  BY DEF SettledInv
<1>1. /\ UNCHANGED <<tasks, extracted, agent, head, doc, dead, faults>>
      /\ pc[w] = "dlqWrite" /\ pc'[w] = "release"
      /\ \A x \in Procs : x # w => pc'[x] = pc[x]
      /\ w \in Procs /\ dead[w] /\ agent[w] \in Agents
      /\ head[w] \in Tasks /\ AgentOf[head[w]] = agent[w]
      /\ head[w] \notin Ids(tasks[agent[w]])
      /\ \A a \in Agents : a # agent[w] => dlq'[a] = dlq[a]
  BY <1>0, AppendDlqMoves
<1>2. old \in Seq(Entries) /\ e \in Entries /\ e.id = head[w] /\ dlq'[agent[w]] = Append(old, e)
  BY <1>0, AppendDlqMoves
<1> HIDE DEF e, old
<1>3. /\ Len(old) \in Nat /\ DOMAIN old = 1..Len(old)
      /\ DOMAIN Append(old, e) = 1..(Len(old) + 1)
      /\ \A i \in 1..Len(old) : Append(old, e)[i] = old[i]
      /\ Append(old, e)[Len(old) + 1] = e
  BY <1>2, AppendProperties, LenProperties
<1>4. ASSUME NEW t \in Tasks
      PROVE  Letters(t)' = IF t = head[w] THEN Letters(t) \cup {Len(old) + 1} ELSE Letters(t)
  <2>1. CASE AgentOf[t] # agent[w]
    BY <1>1, <2>1, Constants DEF Letters
  <2>2. CASE AgentOf[t] = agent[w]
    <3>1. /\ Letters(t) = {i \in 1..Len(old) : old[i].id = t}
          /\ Letters(t)' = {i \in 1..(Len(old) + 1) : Append(old, e)[i].id = t}
      BY <1>2, <1>3, <2>2 DEF Letters, old
    <3>2. 1..(Len(old) + 1) = (1..Len(old)) \cup {Len(old) + 1} /\ Len(old) + 1 \notin 1..Len(old)
      BY <1>3
    <3> QED BY <1>2, <1>3, <3>1, <3>2
  <2> QED BY <2>1, <2>2
<1>5. ASSUME NEW t \in Tasks
      PROVE  Spent(t)' <= 1 + faults' /\ (Open(t)' => Spent(t)' <= faults')
  <2>1. CASE t = head[w]
    <3>1. IsBurying(w, t)
      BY <1>1, <2>1 DEF IsBurying, OnItsWay
    <3>2. Spent(t) <= faults
      BY <3>1 DEF Open, SettledInv, Budget
    <3>3. ~Open(t)'
      <4>1. pc[w] \in ConsumeLocked
        BY <1>1 DEF ConsumeLocked, ConsumeLabels
      <4>2. ASSUME NEW v \in Workers, IsBurying(v, t)'
            PROVE  FALSE
        <5>1. v # w
          BY <1>1, <4>2 DEF IsBurying, OnItsWay, Requeues
        <5>2. IsBurying(v, t)
          BY <1>1, <4>2, <5>1, Constants DEF IsBurying
        <5> QED BY <1>0, <1>1, <2>1, <4>1, <5>1, <5>2, OneWorkerPerTask
      <4> QED BY <1>1, <2>1, <4>2 DEF Open
    <3>4. Spent(t)' = Spent(t) + 1
      <4>1. Letters(t)' = Letters(t) \cup {Len(old) + 1} /\ extracted'[t] = extracted[t]
        BY <1>1, <1>4, <2>1
      <4>2. Len(old) + 1 \notin Letters(t)
        BY <1>1, <1>3, <2>1 DEF Letters, old
      <4>3. Cardinality(Letters(t)') = Cardinality(Letters(t)) + 1
        BY <1>0, <4>1, <4>2, SpentType, FS_AddElement
      <4> QED BY <1>0, <4>1, <4>3, SpentType DEF Spent
    <3> QED BY <1>0, <1>1, <3>2, <3>3, <3>4, SpentType
  <2>2. CASE t # head[w]
    <3>1. Spent(t)' = Spent(t)
      BY <1>1, <1>4, <2>2 DEF Spent
    <3>2. Open(t)' => Open(t)
      BY <1>1, <2>2, Constants DEF Open, IsSettling, IsBurying, Settling
    <3> QED BY <1>1, <3>1, <3>2 DEF SettledInv, Budget
  <2> QED BY <2>1, <2>2
<1>6. LettersFinal'
  <2>1. Ids(dlq'[agent[w]]) = Ids(old) \cup {head[w]}
    BY <1>2, AppendIds
  <2>2. ASSUME NEW t \in Tasks, t \in Ids(dlq'[AgentOf[t]])
        PROVE  t \notin Ids(tasks[AgentOf[t]])
    BY <1>1, <2>1, <2>2, Constants DEF SettledInv, LettersFinal, old
  <2> QED BY <1>1, <2>2 DEF LettersFinal
<1> QED BY <1>5, <1>6 DEF Budget

LEMMA SettledInvInit == Init => SettledInv
<1> SUFFICES ASSUME Init PROVE SettledInv
  OBVIOUS
<1>1. FileInv /\ DownIsOff
  BY FileInvInit
<1>2. ASSUME NEW t \in Tasks
      PROVE  Spent(t) = 0 /\ faults = 0 /\ t \notin Ids(tasks[AgentOf[t]])
  <2>1. t \notin Ids(dlq[AgentOf[t]]) /\ t \notin Ids(tasks[AgentOf[t]])
    BY Constants DEF Init, Ids
  <2> QED BY <1>1, <2>1, SpentType DEF Init
<1>3. Budget /\ LettersFinal
  BY <1>2 DEF Budget, LettersFinal
<1> QED BY <1>1, <1>3 DEF SettledInv

LEMMA SettledInvStep ==
  ASSUME LocksLast, SettledInv, [Next]_vars
  PROVE  SettledInv'
<1>1. FileInv' /\ DownIsOff'
  BY FileInvStep DEF SettledInv
<1>2. Plain \/ Telling
  BY PlainOrTelling DEF SettledInv
<1>3. Budget' /\ LettersFinal'
  BY <1>2, PlainBudget, RegisterBudget, ReadHeadBudget, ExtractBudget, TakeOutBudget,
     CountRetryBudget, AppendDlqBudget
  DEF Telling
<1> QED BY <1>1, <1>3 DEF SettledInv

\* Extractions and dead-letterings of a task are at most one more than the
\* faults, and a dead-lettered task is never in _tasks.json again, whatever
\* the number of pods, loops, calls and faults: retries, crashes between the
\* extraction and the deletion, and ghosts included.
THEOREM SettledCorrect ==
  ASSUME LocksLast
  PROVE  Spec => []SettledOnce
<1>1. SettledInv => SettledOnce
  <2> SUFFICES ASSUME SettledInv, NEW t \in Tasks
               PROVE  /\ extracted[t] + Cardinality(Letters(t)) <= 1 + faults
                      /\ Letters(t) # {} => t \notin Ids(tasks[AgentOf[t]])
    BY DEF SettledOnce, Letters
  <2>1. extracted[t] + Cardinality(Letters(t)) <= 1 + faults
    BY DEF SettledInv, Budget, Spent
  <2>2. Letters(t) # {} => t \in Ids(dlq[AgentOf[t]])
    BY DEF Letters, Ids
  <2> QED BY <2>1, <2>2 DEF SettledInv, LettersFinal
<1>2. SettledInv /\ [Next]_vars => SettledInv'
  BY SettledInvStep
<1> QED BY <1>1, <1>2, SettledInvInit, PTL DEF Spec

-----------------------------------------------------------------------------
(* Where the atomic strategies do not lead. *)

\* No queue object falls back to the downgraded strategy.
OnlyAtomic == ProbedStrategy = Atomic

\* Where only the downgraded strategy leads.
Detours == Requeues \cup {"contendSadd", "contendLpush", "retrySadd", "retryLpush"}

NeverDowngraded ==
  /\ \A p \in Pods : strategy[p] = Atomic
  /\ \A w \in Workers : pc[w] \notin Detours

\* A step that changes no strategy and moves one process off the detours.
OffDetours(p) ==
  /\ strategy' = strategy
  /\ pc' = pc \/ \E to : Goto(p, to) /\ (p \in Workers => to \notin Detours)

LEMMA OffDetoursKeeps ==
  ASSUME TypeOK, NeverDowngraded, NEW p \in Procs, OffDetours(p)
  PROVE  NeverDowngraded'
<1>1. pc \in [Procs -> TriggerLabels \cup WorkerLabels]
  BY DEF TypeOK, LabelsTypeOK
<1>2. \A w \in Workers : pc'[w] \notin Detours
  BY <1>1, Constants DEF NeverDowngraded, OffDetours, Goto
<1> QED BY <1>2 DEF NeverDowngraded, OffDetours

LEMMA CommandOffDetours ==
  ASSUME NEW p \in Procs, NEW from, NEW to,
         \/ SAdd(p, from, to) \/ LPush(p, from, to) \/ SRem(p, from, to)
         \/ LRem(p, from, to) \/ MutexAcquire(p, from, to) \/ MutexRelease(p, from, to)
         \/ ReadTasks(p, from, to),
         p \in Workers => to \notin Detours
  PROVE  OffDetours(p)
BY DEF SAdd, LPush, SRem, LRem, MutexAcquire, MutexRelease, ReadTasks, podVars, OffDetours

LEMMA CallOffDetours ==
  ASSUME NEW t \in Tasks, Trigger(t) \/ TriggerFails(t)
  PROVE  OffDetours(t)
<1>0. t \in Procs /\ t \notin Workers
  BY Constants
<1>1. CASE WriteArchive(t) \/ RegisterTask(t) \/ EnqueueSAdd(t)
  BY <1>0, <1>1 DEF WriteArchive, RegisterTask, EnqueueSAdd, podVars, OffDetours
<1>2. CASE TriggerFails(t)
  BY <1>0, <1>2 DEF TriggerFails, Reject, podVars, OffDetours
<1>3. CASE \/ MutexAcquire(t, "lock", "read") \/ ReadTasks(t, "read", "write")
           \/ LPush(t, "lpush", "ackUnlock") \/ MutexRelease(t, "ackUnlock", "acked")
           \/ MutexRelease(t, "failUnlock", "failed")
  BY <1>0, <1>3, CommandOffDetours
<1> QED BY <1>1, <1>2, <1>3 DEF Trigger

LEMMA WorkerOffDetours ==
  ASSUME NeverDowngraded, NEW w \in Workers,
         \/ Loop(w) \/ PoolFails(w) \/ Consume(w) \/ TransientFailure(w) \/ WorkerFails(w)
         \/ SuppressExpires(w)
  PROVE  OffDetours(w)
<1>0. ~Downgraded(w) /\ pc[w] \notin Detours /\ w \in Procs
  BY Constants DEF NeverDowngraded, Downgraded, Atomic, Downgrade
<1> USE DEF Detours, Requeues
<1>1. CASE \/ AcquireExtractLock(w) \/ LockContended(w) \/ ReadHead(w) \/ ReadArchive(w)
           \/ Extract(w) \/ PermanentFailure(w) \/ ReadDlq(w) \/ AppendDlq(w)
  BY <1>0, <1>1
  DEF AcquireExtractLock, LockContended, ReadHead, ReadArchive, Extract, PermanentFailure,
      ReadDlq, AppendDlq, podVars, OffDetours
<1>2. CASE DeleteTask(w) \/ FailedTaskGone(w) \/ CountRetry(w) \/ TakeDeadTask(w)
  <2>1. strategy' = strategy /\ Goto(w, "roundUnlock")
    BY <1>0, <1>2
    DEF DeleteTask, FailedTaskGone, CountRetry, TakeDeadTask, QueueFollows, podVars
  <2> QED BY <2>1 DEF OffDetours
<1>3. CASE \/ SRem(w, "headSrem", "headLrem") \/ LRem(w, "headLrem", "emptyUnlock")
           \/ LPush(w, "contendLpush", "contended") \/ LPush(w, "retryLpush", "release")
           \/ LPush(w, "keepLpush", "roundUnlock") \/ LRem(w, "dropLrem", "roundUnlock")
           \/ MutexAcquire(w, "headLock", "headRead") \/ MutexAcquire(w, "delLock", "delRead")
           \/ MutexAcquire(w, "pfLock", "pfRead")
           \/ ReadTasks(w, "delRead", "delWrite") \/ ReadTasks(w, "pfRead", "pfWrite")
           \/ MutexRelease(w, "emptyUnlock", "release")
           \/ MutexRelease(w, "headUnlock", "readArchive")
           \/ MutexRelease(w, "roundUnlock", IF dead[w] THEN "dlqRead" ELSE "release")
           \/ MutexRelease(w, "errUnlock", "abort")
           \/ SRem(w, "purgeSrem", "purgeLrem") \/ LRem(w, "purgeLrem", "purged")
  BY <1>0, <1>3, CommandOffDetours
<1>4. CASE \/ SAdd(w, "contendSadd", "contendLpush") \/ SAdd(w, "retrySadd", "retryLpush")
           \/ SAdd(w, "keepSadd", "keepLpush") \/ SRem(w, "dropSrem", "dropLrem")
  BY <1>0, <1>4 DEF SAdd, SRem
<1>5. CASE LeaveAgent(w, "contended") \/ LeaveAgent(w, "release") \/ LeaveAgent(w, "abort")
  BY <1>5 DEF LeaveAgent, podVars, OffDetours
<1>6. CASE TransientFailure(w) \/ WorkerFails(w) \/ PoolFails(w)
  BY <1>0, <1>6 DEF TransientFailure, WorkerFails, PoolFails, Reject, podVars, OffDetours
<1>7. CASE \/ \E a \in Agents : Peek(w, a)
           \/ LeaveLegacy(w) \/ ResolveResources(w) \/ SuppressExpires(w)
  BY <1>7 DEF Peek, LeaveLegacy, ResolveResources, SuppressExpires, podVars, OffDetours
<1> QED BY <1>1, <1>2, <1>3, <1>4, <1>5, <1>6, <1>7 DEF Loop, Consume

\* With atomic strategies only, no loop ever takes a detour.
LEMMA NeverDowngradedStep ==
  ASSUME OnlyAtomic, TypeOK, NeverDowngraded, [Next]_vars
  PROVE  NeverDowngraded'
<1>1. CASE \E t \in Tasks : Trigger(t) \/ TriggerFails(t)
  BY <1>1, CallOffDetours, OffDetoursKeeps, Constants
<1>2. CASE \E w \in Workers :
             \/ Loop(w) \/ PoolFails(w) \/ Consume(w) \/ TransientFailure(w)
             \/ WorkerFails(w) \/ SuppressExpires(w)
  BY <1>2, WorkerOffDetours, OffDetoursKeeps, Constants
<1>3. ASSUME NEW p \in Pods,
             PoolStart(p) \/ ProbePeekStrategy(p) \/ Scan(p)
      PROVE  NeverDowngraded'
  <2>1. \/ strategy' = strategy
        \/ strategy' = [strategy EXCEPT ![p] = Atomic]
    BY <1>3 DEF PoolStart, ProbePeekStrategy, Scan, ScanMembers, ScanCheck, ScanSRem, ScanLRem,
       ScanLPush, ScanEnd, OnlyAtomic
  <2>2. \A w \in Workers : pc'[w] = pc[w] \/ pc'[w] = "idle"
    BY <1>3, Constants
    DEF PoolStart, ProbePeekStrategy, Scan, ScanMembers, ScanCheck, ScanSRem, ScanLRem,
        ScanLPush, ScanEnd, WorkersOf
  <2>3. strategy \in [Pods -> Strategies]
    BY DEF TypeOK, PodsTypeOK
  <2> QED BY <2>1, <2>2, <2>3 DEF NeverDowngraded, Detours, Requeues
<1>4. CASE Environment
  <2>1. ASSUME NEW p \in Pods, Crash(p)
        PROVE  NeverDowngraded'
    <3>1. strategy' = [strategy EXCEPT ![p] = Atomic]
      BY <2>1 DEF Crash, OnlyAtomic
    <3>2. \A w \in Workers : pc'[w] = pc[w] \/ pc'[w] = "off"
      BY <2>1, Constants DEF Crash
    <3>3. strategy \in [Pods -> Strategies]
      BY DEF TypeOK, PodsTypeOK
    <3> QED BY <3>1, <3>2, <3>3 DEF NeverDowngraded, Detours, Requeues
  <2>2. CASE \/ \E a \in Agents : MutexExpires(a) \/ ExtractLockExpires(a)
             \/ \E t \in Tasks : ArchiveCollected(t)
    BY <2>2 DEF MutexExpires, ExtractLockExpires, ArchiveCollected, podVars, NeverDowngraded
  <2> QED BY <1>4, <2>1, <2>2 DEF Environment
<1>5. CASE UNCHANGED vars
  BY <1>5 DEF vars, podVars, NeverDowngraded
<1> QED BY <1>1, <1>2, <1>3, <1>4, <1>5 DEF Next

-----------------------------------------------------------------------------
(* The delivery of an acknowledged task. *)

\* Nothing happens that the pipeline does not recover from without losing a
\* task: no lock, archive or process is lost, the object store answers, and
\* Redis may fail only where the downgraded strategy is not in use.
Recoverable ==
  /\ LocksLast
  /\ {"storage", "crash", "gc"} \cap FaultKinds = {}
  /\ "redis" \in FaultKinds => OnlyAtomic

\* t has been dead-lettered, or is about to be.
Buried(t) ==
  \/ t \in Ids(dlq[AgentOf[t]])
  \/ \E w \in Workers : dead[w] /\ head[w] = t

\* A registered task is in a file, delivered, or on its way between the files.
RegisteredKept == \A t \in Tasks : pc[t] \in Enqueued =>
  t \in Ids(tasks[AgentOf[t]]) \/ extracted[t] > 0 \/ Buried(t)

\* Only a delivered task is deleted.
DeliveredFirst == \A w \in Workers : pc[w] \in Settling => extracted[head[w]] > 0

\* A worker that has taken a dead task does not fail on its way to the
\* dead-letter file, and leaves the agent only when it has been there.
Interred == \A w \in Workers : dead[w] =>
  /\ pc[w] \notin {"errUnlock", "abort"}
  /\ pc[w] = "release" => head[w] \in Ids(dlq[agent[w]])

Handled == RegisteredKept /\ DeliveredFirst /\ Interred

DeliveryInv ==
  /\ SettledInv /\ ArchiveInv /\ Handled
  /\ "redis" \in FaultKinds => NeverDowngraded

\* What the status of a task says.
StatusTold(t) ==
  /\ extracted[t] > 0 => Status(t) = "delivered"
  /\ ~(extracted[t] > 0) /\ Buried(t) => Status(t) = "dead"
  /\ ~(extracted[t] > 0) /\ ~Buried(t) /\ t \in Ids(tasks[AgentOf[t]])
       => Status(t) = "pending"
  /\ ~(extracted[t] > 0) /\ ~Buried(t) /\ t \notin Ids(tasks[AgentOf[t]])
       => Status(t) = "absent"

LEMMA StatusIs ==
  ASSUME NEW t \in Tasks
  PROVE  (FileInv => StatusTold(t)) /\ (FileInv' => StatusTold(t)')
<1>1. ASSUME FileInv
      PROVE  StatusTold(t)
  <2>1. extracted[t] \in Nat
    BY <1>1 DEF FileInv, TypeOK, HistoryTypeOK
  <2>2. ~(extracted[t] > 0) <=> extracted[t] = 0
    BY <2>1
  <2> QED BY <2>2 DEF StatusTold, Status, Buried
<1>2. ASSUME FileInv'
      PROVE  StatusTold(t)'
  <2>1. extracted'[t] \in Nat
    BY <1>2 DEF FileInv, TypeOK, HistoryTypeOK
  <2>2. ~(extracted'[t] > 0) <=> extracted'[t] = 0
    BY <2>1
  <2> QED BY <2>2 DEF StatusTold, Status, Buried
<1> QED BY <1>1, <1>2

\* A step that leaves these three facts about a task alone leaves its status.
SameFate(t) ==
  /\ (extracted[t] > 0)' <=> extracted[t] > 0
  /\ Buried(t)' <=> Buried(t)
  /\ (t \in Ids(tasks[AgentOf[t]]))' <=> t \in Ids(tasks[AgentOf[t]])

LEMMA StatusKept ==
  ASSUME FileInv, FileInv', NEW t \in Tasks, SameFate(t) \/ (extracted[t] > 0 /\ extracted'[t] > 0)
  PROVE  Status(t)' = Status(t)
BY StatusIs DEF SameFate, StatusTold

\* What a step does to the promise: nothing, or one task takes one of its steps.
Moves(t, old, new) ==
  /\ Status(t) = old /\ Status(t)' = new
  /\ \A s \in Tasks : s # t => Status(s)' = Status(s)

Promised ==
  \/ \A t \in Tasks : Status(t)' = Status(t)
  \/ \E t \in Tasks : \/ Moves(t, "absent", "pending")
                      \/ Moves(t, "pending", "delivered")
                      \/ Moves(t, "pending", "dead")

\* A task that somebody works on is not buried yet.
LEMMA NotBuried ==
  ASSUME SettledInv, NEW t \in Tasks, t \in Ids(tasks[AgentOf[t]]) \/ pc[t] \in Unregistered
  PROVE  ~Buried(t)
<1>1. t \notin Ids(dlq[AgentOf[t]])
  BY DEF SettledInv, LettersFinal, FileInv, TaskFacts, Unseen
<1>2. ASSUME NEW w \in Workers, dead[w], head[w] = t
      PROVE  FALSE
  BY <1>2 DEF SettledInv, FileInv, TaskFacts, DeadTaken
<1> QED BY <1>1, <1>2 DEF Buried

LEMMA PlainDelivers ==
  ASSUME Recoverable, DeliveryInv, FileInv', Plain
  PROVE  Handled' /\ Promised
<1>0. FileInv /\ NoGhost
  BY ArchiveInvImpliesNoGhost DEF DeliveryInv, SettledInv
<1>1. ASSUME NEW w \in Workers, dead'[w]
      PROVE  dead[w] /\ head'[w] = head[w] /\ agent'[w] = agent[w]
  BY <1>1 DEF Plain, WorkerStep
<1>2. ASSUME NEW w \in Workers, dead[w], ~dead'[w]
      PROVE  head[w] \in Tasks /\ head[w] \in Ids(dlq[AgentOf[head[w]]])
  <2>1. pc[w] \in {"release", "abort"}
    BY <1>2 DEF Plain, WorkerStep, Recoverable
  <2>2. head[w] \in Ids(dlq[agent[w]])
    BY <1>2, <2>1 DEF DeliveryInv, Handled, Interred
  <2> QED BY <1>0, <1>2, <2>2 DEF FileInv, TaskFacts, DeadTaken
<1>3. ASSUME NEW t \in Tasks
      PROVE  SameFate(t)
  <2>1. Buried(t)' <=> Buried(t)
    BY <1>1, <1>2 DEF Buried, Plain
  <2> QED BY <2>1 DEF SameFate, Plain
<1>4. RegisteredKept'
  BY <1>3 DEF DeliveryInv, Handled, RegisteredKept, SameFate, Plain, CallStep
<1>5. DeliveredFirst'
  <2>1. ASSUME NEW w \in Workers, pc'[w] \in Settling
        PROVE  extracted'[head'[w]] > 0
    <3>1. pc[w] \in Settling
      BY <1>0, <2>1 DEF Plain, WorkerStep, NoGhost
    <3>2. head'[w] = head[w]
      BY <2>1 DEF Plain, WorkerStep, Settling, HeadKept
    <3> QED BY <3>1, <3>2 DEF DeliveryInv, Handled, DeliveredFirst, Plain
  <2> QED BY <2>1 DEF DeliveredFirst
<1>6. Interred'
  <2>1. ASSUME NEW w \in Workers, dead'[w]
        PROVE  /\ pc'[w] \notin {"errUnlock", "abort"}
               /\ pc'[w] = "release" => head'[w] \in Ids(dlq'[agent'[w]])
    <3>1. pc'[w] \notin {"errUnlock", "abort"}
      <4>1. pc[w] \notin {"errUnlock", "abort"}
        BY <1>1, <2>1 DEF DeliveryInv, Handled, Interred
      <4>2. "redis" \in FaultKinds => pc[w] \notin Requeues
        BY DEF DeliveryInv, NeverDowngraded, Detours
      <4> QED BY <2>1, <4>1, <4>2 DEF Plain, WorkerStep
    <3>2. pc'[w] = "release" => pc[w] = "release"
      BY <2>1 DEF Plain, WorkerStep, Recoverable
    <3> QED BY <1>1, <2>1, <3>1, <3>2 DEF DeliveryInv, Handled, Interred, Plain
  <2> QED BY <2>1 DEF Interred
<1> QED BY <1>0, <1>3, <1>4, <1>5, <1>6, StatusKept DEF Handled, Promised

\* What the steps that write a task file do to the others' tasks.
LEMMA WriteDelivers ==
  ASSUME DeliveryInv, FileInv', NEW p \in Procs, NEW q, NEW to, TaskFileWritten(p, q, to),
         Serves(p) \in Agents, p \in Tasks => Serves(p) = AgentOf[p],
         NEW id \in Tasks, AgentOf[id] = Serves(p),
         \A t : t # id => (t \in Ids(q) <=> t \in Ids(tasks[Serves(p)])),
         id \in Ids(q) \/ extracted[id] > 0 \/ Buried(id)',
         p \in Tasks => id = p,
         \A w \in Workers : dead[w] => dead'[w],
         \A w \in Workers : dead'[w] => dead[w] \/ (w = p /\ head[w] = id)
  PROVE  /\ Handled'
         /\ \A t \in Tasks : t # id => Status(t)' = Status(t)
<1> USE DEF TaskFileWritten
<1>0. FileInv
  BY DEF DeliveryInv, SettledInv
<1>1. /\ UNCHANGED <<dlq, doc, agent, head, extracted>>
      /\ \A x \in Procs : x # p => pc'[x] = pc[x]
      /\ pc'[p] = to /\ to \notin Settling /\ to \notin {"errUnlock", "abort", "release"}
      /\ tasks'[Serves(p)] = q /\ \A a \in Agents : a # Serves(p) => tasks'[a] = tasks[a]
  BY <1>0 DEF Goto, FileInv, TypeOK, LabelsTypeOK, FilesTypeOK, Settling
<1>2. ASSUME NEW t \in Tasks, t # id
      PROVE  SameFate(t)
  <2>1. Buried(t)' <=> Buried(t)
    BY <1>1, <1>2 DEF Buried
  <2>2. (t \in Ids(tasks[AgentOf[t]]))' <=> t \in Ids(tasks[AgentOf[t]])
    BY <1>1, <1>2, Constants
  <2> QED BY <1>1, <2>1, <2>2 DEF SameFate
<1>3. RegisteredKept'
  <2>1. ASSUME NEW t \in Tasks, pc'[t] \in Enqueued
        PROVE  (t \in Ids(tasks[AgentOf[t]]) \/ extracted[t] > 0 \/ Buried(t))'
    <3>1. CASE t = id
      BY <1>1, <3>1
    <3>2. CASE t # id
      <4>1. pc[t] \in Enqueued
        BY <1>1, <2>1, <3>2, Constants
      <4> QED BY <1>2, <3>2, <4>1 DEF DeliveryInv, Handled, RegisteredKept, SameFate
    <3> QED BY <3>1, <3>2
  <2> QED BY <2>1 DEF RegisteredKept
<1>4. DeliveredFirst'
  BY <1>1, Constants DEF DeliveryInv, Handled, DeliveredFirst
<1>5. Interred'
  <2>1. ASSUME NEW w \in Workers, dead'[w]
        PROVE  /\ pc'[w] \notin {"errUnlock", "abort"}
               /\ pc'[w] = "release" => head'[w] \in Ids(dlq'[agent'[w]])
    <3>1. CASE w = p
      BY <1>1, <3>1
    <3>2. CASE w # p
      BY <1>1, <2>1, <3>2, Constants DEF DeliveryInv, Handled, Interred
    <3> QED BY <3>1, <3>2
  <2> QED BY <2>1 DEF Interred
<1> QED BY <1>0, <1>2, <1>3, <1>4, <1>5, StatusKept DEF Handled

LEMMA RegisterDelivers ==
  ASSUME DeliveryInv, FileInv', NEW t \in Tasks, RegisterTask(t)
  PROVE  Handled' /\ Promised
<1>0. SettledInv /\ FileInv
  BY DEF DeliveryInv, SettledInv
<1>1. PICK q \in Seq(Entries) :
        /\ TaskFileWritten(t, q, "sadd") /\ Ids(q) = Ids(tasks[AgentOf[t]]) \cup {t}
        /\ UNCHANGED <<dead, faults>>
  BY <1>0, RegisterWrites
<1>2. /\ t \in Procs /\ Serves(t) \in Agents /\ Serves(t) = AgentOf[t]
      /\ pc[t] \in Unregistered
  BY TriggerServes DEF RegisterTask, Unregistered
<1>3. Handled' /\ \A s \in Tasks : s # t => Status(s)' = Status(s)
  BY <1>1, <1>2, WriteDelivers
<1>4. Moves(t, "absent", "pending")
  <2>1. ~Buried(t) /\ t \notin Ids(tasks[AgentOf[t]]) /\ extracted[t] = 0
    BY <1>0, <1>2, NotBuried DEF FileInv, TaskFacts, Unseen
  <2>2. Status(t) = "absent"
    BY <1>0, <2>1, StatusIs DEF StatusTold
  <2>3. ~Buried(t)' /\ extracted'[t] = 0
    BY <1>1, <2>1 DEF TaskFileWritten, Buried
  <2>4. t \in Ids(tasks'[AgentOf[t]])
    BY <1>0, <1>1, <1>2 DEF TaskFileWritten, FileInv, TypeOK, FilesTypeOK
  <2>5. Status(t)' = "pending"
    BY <2>3, <2>4, StatusIs DEF StatusTold
  <2> QED BY <1>3, <2>2, <2>5 DEF Moves
<1> QED BY <1>3, <1>4 DEF Promised

LEMMA ReadHeadDelivers ==
  ASSUME DeliveryInv, FileInv', NEW w \in Workers, ReadHead(w)
  PROVE  Handled' /\ Promised
<1>0. FileInv
  BY DEF DeliveryInv, SettledInv
<1>1. /\ UNCHANGED <<tasks, dlq, extracted, dead, agent, faults>>
      /\ pc[w] = "headRead" /\ \E to \in {"headSrem", "headUnlock"} : Goto(w, to)
      /\ \E t : head' \in {head, [head EXCEPT ![w] = t]}
  BY DEF ReadHead, fileVars, histVars
<1>2. /\ ~dead[w] /\ w \in Procs /\ w \notin Tasks
      /\ \A x \in Procs : x # w => pc'[x] = pc[x]
      /\ \A v \in Workers : v # w => head'[v] = head[v]
      /\ pc'[w] \in {"headSrem", "headUnlock"}
  BY <1>0, <1>1, DeadAt DEF Goto, DeadLabels, OnItsWay, Requeues
<1>3. \A t \in Tasks : SameFate(t) /\ pc'[t] = pc[t]
  BY <1>1, <1>2, Constants DEF SameFate, Buried
<1>4. RegisteredKept'
  BY <1>1, <1>3 DEF DeliveryInv, Handled, RegisteredKept, SameFate
<1>5. DeliveredFirst'
  BY <1>1, <1>2, Constants DEF DeliveryInv, Handled, DeliveredFirst, Settling
<1>6. Interred'
  BY <1>1, <1>2, Constants DEF DeliveryInv, Handled, Interred
<1> QED BY <1>0, <1>3, <1>4, <1>5, <1>6, StatusKept DEF Handled, Promised

LEMMA ExtractDelivers ==
  ASSUME DeliveryInv, FileInv', NEW w \in Workers, Extract(w)
  PROVE  Handled' /\ Promised
<1>0. FileInv /\ SettledInv
  BY DEF DeliveryInv, SettledInv
<1>1. /\ UNCHANGED <<tasks, dlq, agent, head, doc, dead, faults>> /\ pc[w] = "extract"
      /\ pc'[w] = "delLock" /\ \A x \in Procs : x # w => pc'[x] = pc[x]
      /\ w \in Procs /\ ~dead[w] /\ pc[w] \in HeadKept
      /\ extracted'[head[w]] = extracted[head[w]] + 1
      /\ \A t \in Tasks : t # head[w] => extracted'[t] = extracted[t]
  BY <1>0, ExtractMoves
<1>2. head[w] \in Tasks /\ head[w] \in Ids(tasks[AgentOf[head[w]]])
  BY <1>0, <1>1, HeadAtHand
<1>3. extracted[head[w]] \in Nat /\ extracted'[head[w]] > 0
  BY <1>0, <1>1, <1>2, SpentType
<1>4. \A t \in Tasks : (extracted[t] > 0 => extracted'[t] > 0) /\ pc'[t] = pc[t]
                       /\ (Buried(t)' <=> Buried(t))
  BY <1>1, <1>3, Constants DEF Buried
<1>5. RegisteredKept'
  BY <1>1, <1>4 DEF DeliveryInv, Handled, RegisteredKept
<1>6. DeliveredFirst'
  <2>1. ASSUME NEW v \in Workers, pc'[v] \in Settling
        PROVE  extracted'[head[v]] > 0
    <3>1. CASE v = w
      BY <1>3, <3>1
    <3>2. CASE v # w
      <4>1. pc[v] \in Settling /\ pc[v] \in HeadKept
        BY <1>1, <2>1, <3>2, Constants DEF Settling, HeadKept
      <4>2. head[v] \in Tasks
        BY <1>0, <4>1, HeadAtHand
      <4> QED BY <1>4, <4>1, <4>2 DEF DeliveryInv, Handled, DeliveredFirst
    <3> QED BY <3>1, <3>2
  <2> QED BY <1>1, <2>1 DEF DeliveredFirst
<1>7. Interred'
  BY <1>1, Constants DEF DeliveryInv, Handled, Interred
<1>8. Promised
  <2>1. PICK t \in Tasks : t = head[w]
    BY <1>2
  <2>2. ASSUME NEW s \in Tasks, s # t
        PROVE  Status(s)' = Status(s)
    BY <1>0, <1>1, <1>4, <2>1, <2>2, StatusKept DEF SameFate
  <2>3. CASE extracted[t] > 0
    BY <1>0, <1>3, <2>1, <2>2, <2>3, StatusKept DEF Promised
  <2>4. CASE ~(extracted[t] > 0)
    <3>1. Status(t) = "pending"
      BY <1>0, <1>2, <2>1, <2>4, NotBuried, StatusIs DEF StatusTold
    <3>2. Status(t)' = "delivered"
      BY <1>3, <2>1, StatusIs DEF StatusTold
    <3>3. Moves(t, "pending", "delivered")
      BY <2>2, <3>1, <3>2 DEF Moves
    <3> QED BY <3>3 DEF Promised
  <2> QED BY <2>3, <2>4
<1> QED BY <1>5, <1>6, <1>7, <1>8 DEF Handled

LEMMA DeleteDelivers ==
  ASSUME DeliveryInv, FileInv', NEW w \in Workers, DeleteTask(w) \/ CountRetry(w)
  PROVE  Handled' /\ Promised
<1>0. FileInv /\ SettledInv
  BY DEF DeliveryInv, SettledInv
<1>1. pc[w] \in {"delWrite", "pfWrite"}
  BY DEF DeleteTask, CountRetry
<1>2. /\ w \in Procs /\ w \notin Tasks /\ Serves(w) = agent[w] /\ agent[w] \in Agents
      /\ tasks[agent[w]] \in Seq(Entries) /\ head[w] \in Ids(tasks[agent[w]])
  BY <1>0, <1>1, RoundWrites
<1>3. PICK t \in Tasks : t = head[w] /\ AgentOf[t] = agent[w]
  BY <1>0, <1>1, RoundWrites
<1>4. CASE DeleteTask(w)
  <2>1. PICK to \in {"roundUnlock", "keepSadd", "dropSrem"} :
          TaskFileWritten(w, Without(tasks[agent[w]], head[w]), to)
    BY <1>0, <1>4, TakeOutWrites
  <2>2. dead' = dead /\ extracted' = extracted /\ pc[w] \in Settling
    BY <1>4 DEF DeleteTask, localVars, histVars, Settling
  <2>3. extracted[t] > 0
    BY <1>3, <2>2 DEF DeliveryInv, Handled, DeliveredFirst
  <2>4. Ids(Without(tasks[agent[w]], head[w])) = Ids(tasks[agent[w]]) \ {head[w]}
    BY <1>2, WithoutIds
  <2>5. Handled' /\ \A s \in Tasks : s # t => Status(s)' = Status(s)
    BY <1>2, <1>3, <2>1, <2>2, <2>3, <2>4, WriteDelivers
  <2>6. Status(t)' = Status(t)
    BY <1>0, <2>2, <2>3, StatusKept
  <2> QED BY <2>5, <2>6 DEF Promised
<1>5. CASE CountRetry(w)
  <2>1. PICK to \in {"roundUnlock", "keepSadd", "dropSrem"} :
          TaskFileWritten(w, WithRetry(tasks[agent[w]], head[w]), to)
    BY <1>0, <1>5, CountRetryWrites
  <2>2. /\ Ids(WithRetry(tasks[agent[w]], head[w])) = Ids(tasks[agent[w]])
        /\ UNCHANGED dead
    BY <1>0, <1>5, CountRetryWrites
  <2>3. Handled' /\ \A s \in Tasks : s # t => Status(s)' = Status(s)
    BY <1>2, <1>3, <2>1, <2>2, WriteDelivers
  <2>4. SameFate(t)
    <3>1. UNCHANGED <<dlq, head, extracted>> /\ Ids(tasks'[agent[w]]) = Ids(tasks[agent[w]])
      BY <1>0, <1>2, <2>1, <2>2 DEF TaskFileWritten, FileInv, TypeOK, FilesTypeOK
    <3> QED BY <1>3, <2>2, <3>1 DEF SameFate, Buried
  <2>5. Status(t)' = Status(t)
    BY <1>0, <2>4, StatusKept
  <2> QED BY <2>3, <2>5 DEF Promised
<1> QED BY <1>4, <1>5

LEMMA TakeDeadDelivers ==
  ASSUME DeliveryInv, FileInv', NEW w \in Workers, TakeDeadTask(w)
  PROVE  Handled' /\ Promised
<1>0. FileInv /\ SettledInv
  BY DEF DeliveryInv, SettledInv
<1>1. pc[w] \in {"delWrite", "pfWrite"}
  BY DEF TakeDeadTask
<1>2. /\ w \in Procs /\ w \notin Tasks /\ Serves(w) = agent[w] /\ agent[w] \in Agents
      /\ tasks[agent[w]] \in Seq(Entries) /\ head[w] \in Ids(tasks[agent[w]])
  BY <1>0, <1>1, RoundWrites
<1>3. PICK t \in Tasks : t = head[w] /\ AgentOf[t] = agent[w]
  BY <1>0, <1>1, RoundWrites
<1>4. PICK to \in {"roundUnlock", "keepSadd", "dropSrem"} :
        TaskFileWritten(w, Without(tasks[agent[w]], head[w]), to)
  BY <1>0, TakeOutWrites
<1>5. /\ dead'[w] /\ \A v \in Workers : v # w => dead'[v] = dead[v]
      /\ UNCHANGED <<extracted, head>>
  BY <1>0, DeadAt DEF TakeDeadTask, histVars
<1>6. Ids(Without(tasks[agent[w]], head[w])) = Ids(tasks[agent[w]]) \ {head[w]}
  BY <1>2, WithoutIds
<1>7. Buried(t)'
  BY <1>3, <1>5 DEF Buried
<1>8. Handled' /\ \A s \in Tasks : s # t => Status(s)' = Status(s)
  BY <1>2, <1>3, <1>4, <1>5, <1>6, <1>7, WriteDelivers
<1>9. Promised
  <2>1. CASE extracted[t] > 0
    BY <1>0, <1>5, <1>8, <2>1, StatusKept DEF Promised
  <2>2. CASE ~(extracted[t] > 0)
    <3>1. Status(t) = "pending"
      BY <1>0, <1>2, <1>3, <2>2, NotBuried, StatusIs DEF StatusTold
    <3>2. Status(t)' = "dead"
      BY <1>5, <1>7, <2>2, StatusIs DEF StatusTold
    <3> QED BY <1>8, <3>1, <3>2 DEF Moves, Promised
  <2> QED BY <2>1, <2>2
<1> QED BY <1>8, <1>9

LEMMA AppendDlqDelivers ==
  ASSUME DeliveryInv, FileInv', NEW w \in Workers, AppendDlq(w)
  PROVE  Handled' /\ Promised
<1>0. FileInv
  BY DEF DeliveryInv, SettledInv
<1> DEFINE e == [id |-> head[w], retry |-> PermanentMaxRetries]
<1>1. /\ UNCHANGED <<tasks, extracted, agent, head, doc, dead>>
      /\ pc[w] = "dlqWrite" /\ pc'[w] = "release"
      /\ \A x \in Procs : x # w => pc'[x] = pc[x]
      /\ w \in Procs /\ dead[w] /\ agent[w] \in Agents
      /\ head[w] \in Tasks /\ AgentOf[head[w]] = agent[w]
      /\ \A a \in Agents : a # agent[w] => dlq'[a] = dlq[a]
  BY <1>0, AppendDlqMoves
<1>2. /\ dlq[agent[w]] \in Seq(Entries) /\ e \in Entries /\ e.id = head[w]
      /\ dlq'[agent[w]] = Append(dlq[agent[w]], e)
  BY <1>0, AppendDlqMoves
<1> HIDE DEF e
<1>3. Ids(dlq'[agent[w]]) = Ids(dlq[agent[w]]) \cup {head[w]}
  BY <1>2, AppendIds
<1>4. ASSUME NEW t \in Tasks
      PROVE  SameFate(t) /\ pc'[t] = pc[t]
  <2>1. pc'[t] = pc[t] /\ AgentOf[t] \in Agents
    BY <1>1, Constants
  <2>2. Buried(t)' <=> Buried(t)
    <3>1. CASE t = head[w]
      BY <1>1, <3>1 DEF Buried
    <3>2. CASE t # head[w]
      BY <1>1, <1>3, <2>1, <3>2 DEF Buried
    <3> QED BY <3>1, <3>2
  <2> QED BY <1>1, <2>1, <2>2 DEF SameFate
<1>5. RegisteredKept'
  BY <1>1, <1>4 DEF DeliveryInv, Handled, RegisteredKept, SameFate
<1>6. DeliveredFirst'
  BY <1>1, Constants DEF DeliveryInv, Handled, DeliveredFirst, Settling
<1>7. Interred'
  <2>1. ASSUME NEW v \in Workers, dead'[v]
        PROVE  /\ pc'[v] \notin {"errUnlock", "abort"}
               /\ pc'[v] = "release" => head'[v] \in Ids(dlq'[agent'[v]])
    <3>1. CASE v = w
      BY <1>1, <1>3, <3>1
    <3>2. CASE v # w
      <4>1. /\ pc'[v] = pc[v] /\ dead[v] /\ AgentOf[head[v]] = agent[v] /\ head[v] \in Tasks
        BY <1>0, <1>1, <2>1, <3>2, Constants DEF FileInv, TaskFacts, DeadTaken
      <4>2. agent[v] \in Agents
        BY <4>1, Constants
      <4> QED BY <1>1, <1>3, <4>1, <4>2 DEF DeliveryInv, Handled, Interred
    <3> QED BY <3>1, <3>2
  <2> QED BY <2>1 DEF Interred
<1> QED BY <1>0, <1>4, <1>5, <1>6, <1>7, StatusKept DEF Handled, Promised

LEMMA DeliveryInvInit == Recoverable /\ Init => DeliveryInv /\ \A t \in Tasks : Status(t) = "absent"
<1> SUFFICES ASSUME Recoverable, Init
             PROVE  DeliveryInv /\ \A t \in Tasks : Status(t) = "absent"
  OBVIOUS
<1>1. SettledInv /\ FileInv
  BY SettledInvInit DEF SettledInv
<1>2. /\ \A t \in Tasks : pc[t] = "new"
      /\ \A w \in Workers : pc[w] = "off" /\ ~dead[w]
      /\ \A p \in Pods : strategy[p] = Atomic
      /\ \A a \in Agents : tasks[a] = <<>> /\ dlq[a] = <<>>
  BY Constants DEF Init
<1>3. ArchiveInv
  BY <1>1, <1>2 DEF ArchiveInv, FileInv, DataArchived, CallsArchived, Archived, Init
<1>4. Handled
  BY <1>2 DEF Handled, RegisteredKept, DeliveredFirst, Interred, Enqueued, Settling
<1>5. "redis" \in FaultKinds => NeverDowngraded
  BY <1>2 DEF Recoverable, OnlyAtomic, NeverDowngraded, Detours, Requeues
<1>6. ASSUME NEW t \in Tasks
      PROVE  Status(t) = "absent"
  <2>1. ~Buried(t) /\ extracted[t] = 0
    BY <1>1, <1>2, NotBuried DEF Unregistered, Init
  <2>2. t \notin Ids(tasks[AgentOf[t]])
    BY <1>2, Constants DEF Ids
  <2> QED BY <1>1, <2>1, <2>2, StatusIs DEF StatusTold
<1> QED BY <1>1, <1>3, <1>4, <1>5, <1>6 DEF DeliveryInv

LEMMA DeliveryInvStep ==
  ASSUME Recoverable, DeliveryInv, [Next]_vars
  PROVE  DeliveryInv' /\ Promised
<1>1. LocksLast /\ "gc" \notin FaultKinds /\ SettledInv /\ ArchiveInv /\ FileInv /\ DownIsOff
  BY DEF Recoverable, DeliveryInv, SettledInv
<1>2. SettledInv' /\ FileInv'
  BY <1>1, SettledInvStep DEF SettledInv
<1>3. ArchiveInv'
  BY <1>1, ArchiveInvStep
<1>4. ("redis" \in FaultKinds => NeverDowngraded)'
  BY <1>1, NeverDowngradedStep DEF Recoverable, DeliveryInv, FileInv
<1>5. Plain \/ Telling
  BY <1>1, PlainOrTelling
<1>6. Handled' /\ Promised
  BY <1>2, <1>5, PlainDelivers, RegisterDelivers, ReadHeadDelivers, ExtractDelivers,
     DeleteDelivers, TakeDeadDelivers, AppendDlqDelivers
  DEF Telling
<1> QED BY <1>2, <1>3, <1>4, <1>6 DEF DeliveryInv

\* A task whose registering call has answered is in the task file, extracted,
\* dead-lettered or on its way to the dead-letter file: transient and
\* permanent failures, timeouts, failing resolvers and, with an atomic
\* strategy, failing Redis commands lose none, however they interleave.
THEOREM AcceptedCorrect ==
  ASSUME Recoverable
  PROVE  Spec => []NoAcceptedTaskVanishes
<1>1. DeliveryInv => NoAcceptedTaskVanishes
  BY DEF DeliveryInv, Handled, RegisteredKept, Enqueued, Buried, NoAcceptedTaskVanishes
<1>2. Init => DeliveryInv
  BY DeliveryInvInit
<1>3. DeliveryInv /\ [Next]_vars => DeliveryInv'
  BY DeliveryInvStep
<1> QED BY <1>1, <1>2, <1>3, PTL DEF Spec

\* The pipeline implements TaskDelivery: a registered task is pending, then
\* delivered or dead-lettered for good, one task at a time, under the same
\* failures.  Retries and second extractions are stutters of the promise.
THEOREM DeliveryCorrect ==
  ASSUME Recoverable
  PROVE  Spec => DeliversTasks
<1>1. Init => DeliveryInv /\ Delivery!Init
  BY DeliveryInvInit DEF Delivery!Init
<1>2. DeliveryInv /\ [Next]_vars => DeliveryInv' /\ [Delivery!Next]_([t \in Tasks |-> Status(t)])
  <2> SUFFICES ASSUME DeliveryInv, [Next]_vars
               PROVE  DeliveryInv' /\ [Delivery!Next]_([t \in Tasks |-> Status(t)])
    OBVIOUS
  <2>1. DeliveryInv' /\ Promised
    BY DeliveryInvStep
  <2>2. ASSUME NEW t \in Tasks, NEW old, NEW new, Moves(t, old, new)
        PROVE  Delivery!Becomes(t, old, new)
    BY <2>2 DEF Moves, Delivery!Becomes
  <2>3. CASE \A t \in Tasks : Status(t)' = Status(t)
    BY <2>1, <2>3
  <2>4. ASSUME NEW t \in Tasks,
               \/ Moves(t, "absent", "pending") \/ Moves(t, "pending", "delivered")
               \/ Moves(t, "pending", "dead")
        PROVE  Delivery!Next
    BY <2>2, <2>4 DEF Delivery!Next, Delivery!Register, Delivery!Deliver, Delivery!DeadLetter
  <2> QED BY <2>1, <2>3, <2>4 DEF Promised
<1> QED BY <1>1, <1>2, PTL DEF Spec, DeliversTasks, Delivery!Spec

-----------------------------------------------------------------------------
(* The queue: an agent with tasks can be peeked. *)

\* What a Redis command leaves in the list.
LEMMA PushRange ==
  ASSUME NEW q \in Seq(Agents), NEW a \in Agents
  PROVE  Range(<<a>> \o q) = {a} \cup Range(q)
<1>1. /\ Len(q) \in Nat /\ DOMAIN q = 1..Len(q) /\ <<a>> \in Seq(Agents) /\ Len(<<a>>) = 1
      /\ <<a>>[1] = a
  BY LenProperties
<1>2. /\ Len(<<a>> \o q) = Len(q) + 1 /\ <<a>> \o q \in Seq(Agents)
      /\ \A i \in 1..(Len(q) + 1) :
           (<<a>> \o q)[i] = IF i <= 1 THEN <<a>>[i] ELSE q[i - 1]
  BY <1>1, ConcatProperties
<1>3. DOMAIN (<<a>> \o q) = 1..(Len(q) + 1)
  BY <1>1, <1>2, LenProperties
<1>4. ASSUME NEW x \in Range(<<a>> \o q)
      PROVE  x \in {a} \cup Range(q)
  <2>1. PICK i \in 1..(Len(q) + 1) : x = (<<a>> \o q)[i]
    BY <1>3, <1>4 DEF Range
  <2>2. CASE i = 1
    BY <1>1, <1>2, <2>1, <2>2
  <2>3. CASE i # 1
    <3>1. i - 1 \in 1..Len(q) /\ x = q[i - 1]
      BY <1>1, <1>2, <2>1, <2>3
    <3> QED BY <1>1, <3>1 DEF Range
  <2> QED BY <2>2, <2>3
<1>5. a \in Range(<<a>> \o q)
  <2>1. 1 \in DOMAIN (<<a>> \o q) /\ (<<a>> \o q)[1] = a
    BY <1>1, <1>2, <1>3
  <2> QED BY <2>1 DEF Range
<1>6. ASSUME NEW x \in Range(q)
      PROVE  x \in Range(<<a>> \o q)
  <2>1. PICK i \in 1..Len(q) : x = q[i]
    BY <1>1, <1>6 DEF Range
  <2>2. i + 1 \in 1..(Len(q) + 1) /\ (<<a>> \o q)[i + 1] = x
    BY <1>1, <1>2, <2>1
  <2> QED BY <1>3, <2>2 DEF Range
<1> QED BY <1>4, <1>5, <1>6

\* The atomic rotation moves an agent, it loses none.
LEMMA RotationRange ==
  ASSUME list \in Seq(Agents), list # <<>>
  PROVE  Range(list) \subseteq Range(Peeked(Atomic))
<1> DEFINE n == Len(list)
           rest == SubSeq(list, 1, n - 1)
           last == list[n]
<1>1. n \in Nat /\ n > 0 /\ DOMAIN list = 1..n
  BY EmptySeq, LenProperties
<1>2. last \in Agents
  BY <1>1, ElementOfSeq
<1>3. /\ rest \in Seq(Agents) /\ Len(rest) = n - 1
      /\ \A i \in 1..(n - 1) : rest[i] = list[i]
  BY <1>1, ElementOfSeq, SubSeqProperties
<1>4. Peeked(Atomic) = <<last>> \o rest
  BY DEF Peeked, Atomic, Downgrade
<1>5. DOMAIN rest = 1..(n - 1)
  BY <1>3, LenProperties
<1> HIDE DEF rest, n
<1>6. ASSUME NEW x \in Range(list)
      PROVE  x = last \/ x \in Range(rest)
  <2>1. PICK i \in 1..n : x = list[i]
    BY <1>1, <1>6 DEF Range
  <2>2. CASE i = n
    BY <2>1, <2>2
  <2>3. CASE i # n
    <3>1. i \in 1..(n - 1)
      BY <1>1, <2>1, <2>3
    <3>2. rest[i] = x
      BY <1>3, <2>1, <3>1
    <3> QED BY <1>5, <3>1, <3>2 DEF Range
  <2> QED BY <2>2, <2>3
<1>7. Range(<<last>> \o rest) = {last} \cup Range(rest)
  BY <1>2, <1>3, PushRange
<1> QED BY <1>4, <1>6, <1>7

\* The resource labels of the loop and those of consumeAgent; the purge.
Working == ConsumeLabels \cup {"resolve"}
Purging == {"purgeSrem", "purgeLrem"}

\* Agents are worked on, legacy tuples are purged, by loops and scans alike.
PlacesRight ==
  /\ \A w \in Workers : /\ pc[w] \in Working => agent[w] \notin Legacy
                        /\ pc[w] \in Purging => agent[w] \in Legacy
  /\ \A p \in Pods : scanPc[p] \in {"srem", "lrem"} => scanAgent[p] \in Legacy

\* A legacy tuple has no tasks; an agent with tasks is in the set, or the call
\* that holds its mutex is about to add it; an agent in the set is in the
\* list, or the call that holds its mutex is about to push it.
Listed ==
  /\ \A a \in Legacy : tasks[a] = <<>>
  /\ \A a \in Agents : tasks[a] # <<>> =>
       a \in members \/ \E t \in Tasks : pc[t] = "sadd" /\ AgentOf[t] = a
  /\ \A a \in members \ Legacy :
       a \in Range(list) \/ \E t \in Tasks : pc[t] = "lpush" /\ AgentOf[t] = a

\* A worker takes only agents without tasks off the queue, the set first.
RemovedEmpty == \A w \in Workers :
  /\ pc[w] \in {"headSrem", "headLrem"} => tasks[agent[w]] = <<>>
  /\ pc[w] = "headLrem" => agent[w] \notin members

\* The worker that writes _tasks.json edits a copy that is up to date.
RoundsFresh == \A w \in Workers :
  pc[w] \in {"delWrite", "pfWrite"} => doc[w] = tasks[agent[w]]

QueueInv ==
  /\ TypeOK /\ HoldsMutex /\ NeverDowngraded
  /\ PlacesRight /\ Listed /\ RemovedEmpty /\ RoundsFresh

\* No critical section outlives its key, no process dies and no Redis command
\* fails inside a critical section.  Redis can rotate the list atomically.
QueueServed ==
  /\ {"slowHolder", "crash", "redis"} \cap FaultKinds = {}
  /\ OnlyAtomic

-----------------------------------------------------------------------------
(* Where loops and scans stand. *)

LEMMA CallPlaces ==
  ASSUME TypeOK, PlacesRight, NEW t \in Tasks, Trigger(t) \/ TriggerFails(t)
  PROVE  PlacesRight'
<1>1. \E to : Goto(t, to)
  BY DEF Trigger, TriggerFails, WriteArchive, MutexAcquire, ReadTasks, RegisterTask,
     EnqueueSAdd, LPush, MutexRelease, Reject
<1>2. UNCHANGED <<agent, scanPc, scanAgent>>
  BY DEF Trigger, TriggerFails, WriteArchive, MutexAcquire, ReadTasks, RegisterTask,
     EnqueueSAdd, LPush, MutexRelease, Reject, localVars, podVars
<1>3. \A w \in Workers : pc'[w] = pc[w]
  BY <1>1, Constants DEF Goto, TypeOK, LabelsTypeOK
<1> QED BY <1>2, <1>3 DEF PlacesRight

LEMMA WorkerPlaces ==
  ASSUME TypeOK, PlacesRight, NEW w \in Workers,
         \/ Loop(w) \/ PoolFails(w) \/ Consume(w) \/ TransientFailure(w) \/ WorkerFails(w)
         \/ SuppressExpires(w)
  PROVE  PlacesRight'
<1>0. /\ w \in Procs /\ pc \in [Procs -> TriggerLabels \cup WorkerLabels]
      /\ agent \in [Workers -> Agents \cup {NoAgent}]
  BY Constants DEF TypeOK, LabelsTypeOK, LocalsTypeOK
<1>1. UNCHANGED <<scanPc, scanAgent>>
  <2>1. CASE Consume(w)
    BY <2>1
    DEF Consume, AcquireExtractLock, LockContended, SAdd, LPush, SRem, LRem, MutexAcquire,
        MutexRelease, ReadTasks, ReadHead, ReadArchive, Extract, PermanentFailure, DeleteTask,
        FailedTaskGone, CountRetry, TakeDeadTask, ReadDlq, AppendDlq, LeaveAgent, podVars
  <2>2. CASE \/ Loop(w) \/ PoolFails(w) \/ TransientFailure(w) \/ WorkerFails(w)
             \/ SuppressExpires(w)
    BY <2>2 DEF Loop, PoolFails, TransientFailure, WorkerFails, SuppressExpires, Peek,
       ResolveResources, LeaveLegacy, SRem, LRem, Reject, podVars
  <2> QED BY <2>1, <2>2
<1>2. Working \cap Purging = {}
  BY DEF Working, Purging, ConsumeLabels
\* A worker moves inside its place, leaves it, or enters one by a peek.
<1>3. ASSUME NEW to, Goto(w, to), agent' = agent,
             \/ to \in Working /\ pc[w] \in Working
             \/ to \in Purging /\ pc[w] \in Purging
             \/ to \notin Working \cup Purging
      PROVE  PlacesRight'
  <2>1. pc' = [pc EXCEPT ![w] = to]
    BY <1>3 DEF Goto
  <2>2. pc'[w] = to /\ \A v \in Workers : v # w => pc'[v] = pc[v]
    BY <1>0, <2>1, Constants
  <2> QED BY <1>1, <1>2, <1>3, <2>2 DEF PlacesRight
<1>4. CASE Consume(w)
  <2>1. CASE LeaveAgent(w, "contended") \/ LeaveAgent(w, "release") \/ LeaveAgent(w, "abort")
    <3>1. pc' = [pc EXCEPT ![w] = "idle"] /\ agent' = [agent EXCEPT ![w] = NoAgent]
      BY <2>1 DEF LeaveAgent, Goto
    <3>2. pc'[w] = "idle" /\ \A v \in Workers : v # w => pc'[v] = pc[v] /\ agent'[v] = agent[v]
      BY <1>0, <3>1, Constants
    <3> QED BY <1>1, <3>2 DEF PlacesRight, Working, Purging, ConsumeLabels
  <2>2. CASE \/ DeleteTask(w) \/ FailedTaskGone(w) \/ CountRetry(w) \/ TakeDeadTask(w)
    <3>1. pc[w] \in Working /\ agent' = agent
      BY <2>2 DEF DeleteTask, FailedTaskGone, CountRetry, TakeDeadTask, Working, ConsumeLabels,
         localVars
    <3>2. PICK to \in {"roundUnlock", "keepSadd", "dropSrem"} : Goto(w, to)
      BY <2>2, QueueFollowsMoves DEF DeleteTask, FailedTaskGone, CountRetry, TakeDeadTask
    <3> QED BY <1>3, <3>1, <3>2 DEF Working, ConsumeLabels
  <2>3. CASE \/ AcquireExtractLock(w) \/ LockContended(w) \/ ReadHead(w) \/ ReadArchive(w)
             \/ Extract(w) \/ PermanentFailure(w) \/ ReadDlq(w) \/ AppendDlq(w)
    <3>1. pc[w] \in Working /\ agent' = agent
      BY <2>3
      DEF AcquireExtractLock, LockContended, ReadHead, ReadArchive, Extract, PermanentFailure,
          ReadDlq, AppendDlq, Working, ConsumeLabels, localVars
    <3>2. \E to \in Working : Goto(w, to)
      BY <2>3
      DEF AcquireExtractLock, LockContended, ReadHead, ReadArchive, Extract, PermanentFailure,
          ReadDlq, AppendDlq, Working, ConsumeLabels
    <3> QED BY <1>3, <3>1, <3>2
  <2>4. ASSUME NEW from \in Working, NEW to \in Working,
               \/ SAdd(w, from, to) \/ LPush(w, from, to) \/ SRem(w, from, to)
               \/ LRem(w, from, to) \/ MutexAcquire(w, from, to) \/ MutexRelease(w, from, to)
               \/ ReadTasks(w, from, to)
        PROVE  PlacesRight'
    BY <1>3, <2>4, CommandsMoveLabels
  <2>5. (IF dead[w] THEN "dlqRead" ELSE "release") \in Working
    BY DEF Working, ConsumeLabels
  <2>6. ConsumeLabels \subseteq Working
    BY DEF Working
  <2> QED BY <1>4, <2>1, <2>2, <2>3, <2>4, <2>5, <2>6 DEF Consume, ConsumeLabels
<1>5. CASE TransientFailure(w) \/ WorkerFails(w) \/ PoolFails(w)
  <2>1. agent' = agent
    BY <1>5 DEF TransientFailure, WorkerFails, PoolFails, Reject, localVars
  <2>2. \E to : /\ Goto(w, to)
                /\ (to \in Working /\ pc[w] \in Working) \/ to = "purged"
    BY <1>5 DEF TransientFailure, WorkerFails, PoolFails, Reject, Working, ConsumeLabels
  <2> QED BY <1>3, <2>1, <2>2 DEF Working, Purging, ConsumeLabels
<1>6. CASE Loop(w) \/ SuppressExpires(w)
  <2>1. ASSUME NEW a \in Agents, Peek(w, a)
        PROVE  PlacesRight'
    <3>1. CASE UNCHANGED <<pc, agent>>
      BY <1>1, <3>1 DEF PlacesRight
    <3>2. CASE Goto(w, IF a \in Legacy THEN "purgeSrem" ELSE "resolve")
               /\ agent' = [agent EXCEPT ![w] = a]
      <4>1. /\ pc'[w] = IF a \in Legacy THEN "purgeSrem" ELSE "resolve"
            /\ agent'[w] = a
            /\ \A v \in Workers : v # w => pc'[v] = pc[v] /\ agent'[v] = agent[v]
        BY <1>0, <3>2, Constants DEF Goto
      <4> QED BY <1>1, <4>1 DEF PlacesRight, Working, Purging, ConsumeLabels
    <3> QED BY <2>1, <3>1, <3>2 DEF Peek
  <2>2. CASE LeaveLegacy(w)
    <3>1. pc'[w] = "idle" /\ \A v \in Workers : v # w => pc'[v] = pc[v] /\ agent'[v] = agent[v]
      BY <1>0, <2>2, Constants DEF LeaveLegacy, Goto
    <3> QED BY <1>1, <3>1 DEF PlacesRight, Working, Purging, ConsumeLabels
  <2>3. CASE ResolveResources(w)
    <3>1. Goto(w, "acquire") /\ agent' = agent /\ pc[w] = "resolve"
      BY <2>3 DEF ResolveResources, localVars
    <3> QED BY <1>3, <3>1 DEF Working, ConsumeLabels
  <2>4. CASE SRem(w, "purgeSrem", "purgeLrem") \/ LRem(w, "purgeLrem", "purged")
    <3>1. /\ agent' = agent
          /\ \/ pc[w] = "purgeSrem" /\ Goto(w, "purgeLrem")
             \/ Goto(w, "purged")
      BY <2>4, CommandsMoveLabels
    <3> QED BY <1>3, <3>1 DEF Working, Purging, ConsumeLabels
  <2>5. CASE SuppressExpires(w)
    BY <1>1, <2>5 DEF SuppressExpires, PlacesRight
  <2> QED BY <1>6, <2>1, <2>2, <2>3, <2>4, <2>5 DEF Loop
<1> QED BY <1>4, <1>5, <1>6

LEMMA PodPlaces ==
  ASSUME TypeOK, PlacesRight, NEW p \in Pods,
         PoolStart(p) \/ ProbePeekStrategy(p) \/ Scan(p)
  PROVE  PlacesRight'
<1>0. scanPc \in [Pods -> {"none", "smembers", "check", "srem", "lrem", "lpush"}]
      /\ scanAgent \in [Pods -> Agents \cup {NoAgent}]
  BY DEF TypeOK, PodsTypeOK
<1>1. \A w \in Workers : (pc'[w] = pc[w] \/ pc'[w] = "idle") /\ agent'[w] = agent[w]
  BY Constants
  DEF PoolStart, ProbePeekStrategy, Scan, ScanMembers, ScanCheck, ScanSRem, ScanLRem,
      ScanLPush, ScanEnd, WorkersOf, localVars
<1>2. \A q \in Pods : q # p => scanPc'[q] = scanPc[q] /\ scanAgent'[q] = scanAgent[q]
  BY <1>0
  DEF PoolStart, ProbePeekStrategy, Scan, ScanMembers, ScanCheck, ScanSRem, ScanLRem,
      ScanLPush, ScanEnd, localVars
<1>3. scanPc'[p] \in {"srem", "lrem"} => scanAgent'[p] \in Legacy
  <2>1. CASE ScanCheck(p)
    BY <1>0, <2>1 DEF ScanCheck
  <2>2. CASE \/ PoolStart(p) \/ ScanMembers(p) \/ ScanSRem(p) \/ ScanLRem(p)
             \/ ScanLPush(p) \/ ScanEnd(p) \/ ProbePeekStrategy(p)
    <3>1. \/ scanPc'[p] \notin {"srem", "lrem"}
          \/ scanPc[p] \in {"srem", "lrem"} /\ scanAgent'[p] = scanAgent[p]
      BY <1>0, <2>2
      DEF PoolStart, ProbePeekStrategy, ScanMembers, ScanSRem, ScanLRem, ScanLPush, ScanEnd
    <3> QED BY <3>1 DEF PlacesRight
  <2> QED BY <2>1, <2>2 DEF Scan
<1> QED BY <1>1, <1>2, <1>3 DEF PlacesRight, Working, Purging, ConsumeLabels

LEMMA PlacesStep ==
  ASSUME TypeOK, PlacesRight, [Next]_vars
  PROVE  PlacesRight'
<1>1. CASE Environment
  <2>1. ASSUME NEW p \in Pods, Crash(p)
        PROVE  PlacesRight'
    <3>1. \A w \in Workers : pc'[w] = "off" \/ (pc'[w] = pc[w] /\ agent'[w] = agent[w])
      BY <2>1, Constants DEF Crash
    <3>2. \A q \in Pods : \/ scanPc'[q] = "none"
                          \/ scanPc'[q] = scanPc[q] /\ scanAgent'[q] = scanAgent[q]
      BY <2>1 DEF Crash, TypeOK, PodsTypeOK
    <3> QED BY <3>1, <3>2 DEF PlacesRight, Working, Purging, ConsumeLabels
  <2>2. CASE \/ \E a \in Agents : MutexExpires(a) \/ ExtractLockExpires(a)
             \/ \E t \in Tasks : ArchiveCollected(t)
    BY <2>2 DEF MutexExpires, ExtractLockExpires, ArchiveCollected, podVars, localVars, PlacesRight
  <2> QED BY <1>1, <2>1, <2>2 DEF Environment
<1>2. CASE UNCHANGED vars
  BY <1>2 DEF vars, podVars, localVars, PlacesRight
<1> QED BY <1>1, <1>2, CallPlaces, WorkerPlaces, PodPlaces DEF Next

-----------------------------------------------------------------------------
(* Steps that leave the queue, as far as it matters, and the task files. *)

\* No task file changes, and of the queue nothing but legacy tuples goes.
QueueKept ==
  /\ tasks' = tasks /\ members' \subseteq members
  /\ \A a \in members \ Legacy : a \in members'
  /\ \A a \in Range(list) \ Legacy : a \in Range(list')

CallStays(t) == pc[t] \in {"sadd", "lpush"} => pc'[t] = pc[t]

WorkerStays(w) ==
  /\ pc'[w] \in {"headSrem", "headLrem"} => pc'[w] = pc[w] /\ agent'[w] = agent[w]
  /\ pc'[w] \in {"delWrite", "pfWrite"} => agent'[w] = agent[w] /\ doc'[w] = tasks[agent[w]]

QueueStill ==
  /\ QueueKept
  /\ \A t \in Tasks : CallStays(t)
  /\ \A w \in Workers : WorkerStays(w)

QueueFacts == Listed /\ RemovedEmpty /\ RoundsFresh

LEMMA StillKeepsQueue ==
  ASSUME TypeOK, QueueFacts, QueueStill
  PROVE  QueueFacts'
<1>1. Listed'
  <2>1. \A a \in Legacy : tasks'[a] = <<>>
    BY DEF QueueFacts, Listed, QueueStill, QueueKept
  <2>2. ASSUME NEW a \in Agents, tasks'[a] # <<>>
        PROVE  a \in members' \/ \E t \in Tasks : pc'[t] = "sadd" /\ AgentOf[t] = a
    BY <2>2 DEF QueueFacts, Listed, QueueStill, QueueKept, CallStays
  <2>3. ASSUME NEW a \in members' \ Legacy
        PROVE  a \in Range(list') \/ \E t \in Tasks : pc'[t] = "lpush" /\ AgentOf[t] = a
    BY <2>3 DEF QueueFacts, Listed, QueueStill, QueueKept, CallStays
  <2> QED BY <2>1, <2>2, <2>3 DEF Listed
<1>2. RemovedEmpty'
  BY DEF QueueFacts, RemovedEmpty, QueueStill, QueueKept, WorkerStays
<1>3. RoundsFresh'
  BY DEF QueueFacts, RoundsFresh, QueueStill, QueueKept, WorkerStays
<1> QED BY <1>1, <1>2, <1>3 DEF QueueFacts

LEMMA Standing ==
  ASSUME QueueFacts
  PROVE  /\ \A t \in Tasks : pc'[t] = pc[t] => CallStays(t)
         /\ \A w \in Workers :
              pc'[w] = pc[w] /\ doc'[w] = doc[w] /\ agent'[w] = agent[w] => WorkerStays(w)
BY DEF QueueFacts, RoundsFresh, CallStays, WorkerStays

\* One process moves.
LEMMA OneStays ==
  ASSUME TypeOK, QueueFacts, QueueKept, NEW p \in Procs, NEW to, Goto(p, to), agent' = agent,
         \A x \in Procs : x # p => doc'[x] = doc[x],
         p \in Tasks => CallStays(p), p \in Workers => WorkerStays(p)
  PROVE  QueueStill
<1>1. \A x \in Procs : x # p => pc'[x] = pc[x]
  BY DEF Goto, TypeOK, LabelsTypeOK
<1>2. ASSUME NEW t \in Tasks
      PROVE  CallStays(t)
  BY <1>1, Standing, Constants
<1>3. ASSUME NEW w \in Workers
      PROVE  WorkerStays(w)
  BY <1>1, Standing, Constants
<1> QED BY <1>2, <1>3 DEF QueueStill

LEMMA CommandStays ==
  ASSUME TypeOK, QueueFacts, NEW p \in Procs, NEW from, NEW to,
         \/ MutexAcquire(p, from, to) \/ MutexRelease(p, from, to) \/ ReadTasks(p, from, to),
         p \in Tasks => CallStays(p), p \in Workers => WorkerStays(p)
  PROVE  QueueStill
<1>1. /\ Goto(p, to) /\ agent' = agent /\ UNCHANGED <<list, members, tasks>>
      /\ doc' = doc \/ \E q : doc' = [doc EXCEPT ![p] = q]
  BY DEF MutexAcquire, MutexRelease, ReadTasks, redisVars, fileVars, localVars
<1>2. \A x \in Procs : x # p => doc'[x] = doc[x]
  BY <1>1 DEF TypeOK, LocalsTypeOK
<1>3. QueueKept
  BY <1>1 DEF QueueKept
<1> QED BY <1>1, <1>2, <1>3, OneStays

LEMMA RejectStays ==
  ASSUME TypeOK, QueueFacts, NEW p \in Procs, NEW kind, NEW from, NEW to,
         Reject(p, kind, from, to),
         p \in Tasks => CallStays(p), p \in Workers => WorkerStays(p)
  PROVE  QueueStill
<1>1. Goto(p, to) /\ UNCHANGED <<agent, doc, list, members, tasks>>
  BY DEF Reject, redisVars, fileVars, localVars
<1>2. QueueKept
  BY <1>1 DEF QueueKept
<1> QED BY <1>1, <1>2, OneStays

\* A legacy tuple is taken off the queue.
LEMMA LegacyRemoved ==
  ASSUME TypeOK, tasks' = tasks,
         \/ list' = list /\ \E a \in Legacy : members' = members \ {a}
         \/ members' = members /\ \E a \in Legacy : list' = Keep(list, Agents \ {a})
  PROVE  QueueKept
<1>1. list \in Seq(Agents)
  BY DEF TypeOK, QueueTypeOK
<1>2. \A S : Range(Keep(list, S)) = Range(list) \cap S
  BY <1>1, KeepProperties
<1>3. Range(list) \subseteq Agents
  <2>1. DOMAIN list = 1..Len(list) /\ Len(list) \in Nat
    BY <1>1, LenProperties
  <2> QED BY <1>1, <2>1, ElementOfSeq DEF Range
<1>4. CASE list' = list /\ \E a \in Legacy : members' = members \ {a}
  BY <1>4 DEF QueueKept
<1>5. CASE members' = members /\ \E a \in Legacy : list' = Keep(list, Agents \ {a})
  BY <1>2, <1>3, <1>5 DEF QueueKept
<1> QED BY <1>4, <1>5

LEMMA CallStill ==
  ASSUME QueueServed, TypeOK, QueueFacts, NEW t \in Tasks, Trigger(t) \/ TriggerFails(t),
         ~RegisterTask(t), ~EnqueueSAdd(t), ~LPush(t, "lpush", "ackUnlock")
  PROVE  QueueStill
<1>0. /\ t \in Procs /\ t \notin Workers
      /\ pc \in [Procs -> TriggerLabels \cup WorkerLabels]
  BY Constants DEF TypeOK, LabelsTypeOK
<1>1. pc[t] \notin {"sadd", "lpush"} => CallStays(t)
  BY DEF CallStays
<1>2. CASE WriteArchive(t)
  <2>1. /\ Goto(t, "lock") /\ pc[t] = "new"
        /\ UNCHANGED <<tasks, list, members, agent, doc>>
    BY <1>2 DEF WriteArchive, redisVars, localVars
  <2>2. QueueKept
    BY <2>1 DEF QueueKept
  <2> QED BY <1>0, <1>1, <2>1, <2>2, OneStays
<1>3. CASE \/ MutexAcquire(t, "lock", "read") \/ ReadTasks(t, "read", "write")
           \/ MutexRelease(t, "ackUnlock", "acked") \/ MutexRelease(t, "failUnlock", "failed")
  <2>1. pc[t] \notin {"sadd", "lpush"}
    BY <1>3 DEF MutexAcquire, ReadTasks, MutexRelease
  <2> QED BY <1>0, <1>1, <1>3, <2>1, CommandStays
<1>4. CASE TriggerFails(t)
  <2>1. pc[t] \notin {"sadd", "lpush"}
    BY <1>4 DEF TriggerFails, Reject, Fault, QueueServed
  <2> QED BY <1>0, <1>1, <1>4, <2>1, RejectStays DEF TriggerFails
<1> QED BY <1>2, <1>3, <1>4 DEF Trigger

LEMMA ConsumeStill ==
  ASSUME QueueServed, TypeOK, QueueFacts, NeverDowngraded, NEW w \in Workers,
         Consume(w) \/ TransientFailure(w) \/ WorkerFails(w),
         ~ReadHead(w), ~SRem(w, "headSrem", "headLrem"), ~LRem(w, "headLrem", "emptyUnlock"),
         ~DeleteTask(w), ~CountRetry(w), ~TakeDeadTask(w)
  PROVE  QueueStill
<1>0. /\ w \in Procs /\ w \notin Tasks /\ Serves(w) = agent[w] /\ pc[w] \notin Detours
      /\ pc \in [Procs -> TriggerLabels \cup WorkerLabels]
      /\ doc \in [Procs -> Seq(Entries)]
      /\ agent \in [Workers -> Agents \cup {NoAgent}]
  BY Constants DEF TypeOK, LabelsTypeOK, LocalsTypeOK, Serves, NeverDowngraded
<1>1. CASE \/ AcquireExtractLock(w) \/ LockContended(w) \/ ReadArchive(w) \/ Extract(w)
           \/ PermanentFailure(w) \/ FailedTaskGone(w) \/ AppendDlq(w)
  <2>1. UNCHANGED <<tasks, list, members, agent, doc>>
    BY <1>1
    DEF AcquireExtractLock, LockContended, ReadArchive, Extract, PermanentFailure,
        FailedTaskGone, AppendDlq, redisVars, fileVars, localVars
  <2>2. \E to \in {"headLock", "contendSadd", "contended", "extract", "delLock", "pfLock",
                   "roundUnlock", "keepSadd", "dropSrem", "release"} : Goto(w, to)
    BY <1>1, QueueFollowsMoves
    DEF AcquireExtractLock, LockContended, ReadArchive, Extract, PermanentFailure,
        FailedTaskGone, AppendDlq
  <2>3. WorkerStays(w)
    BY <1>0, <2>2 DEF WorkerStays, Goto
  <2>4. QueueKept
    BY <2>1 DEF QueueKept
  <2> QED BY <1>0, <2>1, <2>2, <2>3, <2>4, OneStays
<1>2. CASE ReadDlq(w)
  <2>1. /\ UNCHANGED <<tasks, list, members, agent>> /\ Goto(w, "dlqWrite")
        /\ doc' = [doc EXCEPT ![w] = dlq[agent[w]]]
    BY <1>2 DEF ReadDlq, redisVars, fileVars
  <2>2. WorkerStays(w) /\ QueueKept /\ \A x \in Procs : x # w => doc'[x] = doc[x]
    BY <1>0, <2>1 DEF WorkerStays, Goto, QueueKept
  <2> QED BY <1>0, <2>1, <2>2, OneStays
<1>3. CASE \/ MutexAcquire(w, "headLock", "headRead") \/ MutexAcquire(w, "delLock", "delRead")
           \/ MutexAcquire(w, "pfLock", "pfRead")
           \/ MutexRelease(w, "emptyUnlock", "release")
           \/ MutexRelease(w, "headUnlock", "readArchive")
           \/ MutexRelease(w, "roundUnlock", IF dead[w] THEN "dlqRead" ELSE "release")
           \/ MutexRelease(w, "errUnlock", "abort")
  <2>1. WorkerStays(w)
    BY <1>0, <1>3 DEF MutexAcquire, MutexRelease, Goto, WorkerStays
  <2> QED BY <1>0, <1>3, <2>1, CommandStays
<1>4. CASE ReadTasks(w, "delRead", "delWrite") \/ ReadTasks(w, "pfRead", "pfWrite")
  <2>1. WorkerStays(w)
    BY <1>0, <1>4 DEF ReadTasks, Goto, WorkerStays
  <2> QED BY <1>0, <1>4, <2>1, CommandStays
<1>5. CASE \/ SAdd(w, "contendSadd", "contendLpush") \/ LPush(w, "contendLpush", "contended")
           \/ SAdd(w, "retrySadd", "retryLpush") \/ LPush(w, "retryLpush", "release")
           \/ SAdd(w, "keepSadd", "keepLpush") \/ LPush(w, "keepLpush", "roundUnlock")
           \/ SRem(w, "dropSrem", "dropLrem") \/ LRem(w, "dropLrem", "roundUnlock")
  BY <1>0, <1>5 DEF SAdd, LPush, SRem, LRem, Detours, Requeues
<1>6. CASE LeaveAgent(w, "contended") \/ LeaveAgent(w, "release") \/ LeaveAgent(w, "abort")
  <2>1. /\ UNCHANGED <<tasks, list, members>> /\ pc' = [pc EXCEPT ![w] = "idle"]
        /\ agent' = [agent EXCEPT ![w] = NoAgent] /\ doc' = [doc EXCEPT ![w] = <<>>]
    BY <1>6 DEF LeaveAgent, Goto, fileVars
  <2>2. /\ pc'[w] = "idle"
        /\ \A x \in Procs : x # w => pc'[x] = pc[x] /\ doc'[x] = doc[x]
        /\ \A v \in Workers : v # w => agent'[v] = agent[v]
    BY <1>0, <2>1
  <2>3. QueueKept
    BY <2>1 DEF QueueKept
  <2>4. \A v \in Workers : WorkerStays(v)
    <3>1. WorkerStays(w)
      BY <2>2 DEF WorkerStays
    <3> QED BY <2>2, <3>1, Standing, Constants
  <2>5. \A t \in Tasks : CallStays(t)
    BY <1>0, <2>2, Standing, Constants
  <2> QED BY <2>3, <2>4, <2>5 DEF QueueStill
<1>7. CASE TransientFailure(w) \/ WorkerFails(w)
  <2>1. WorkerStays(w)
    BY <1>0, <1>7 DEF TransientFailure, WorkerFails, Reject, Goto, WorkerStays
  <2> QED BY <1>0, <1>7, <2>1, RejectStays DEF TransientFailure, WorkerFails
<1> QED BY <1>1, <1>2, <1>3, <1>4, <1>5, <1>6, <1>7 DEF Consume

LEMMA LoopStill ==
  ASSUME TypeOK, QueueFacts, NeverDowngraded, PlacesRight, NEW w \in Workers,
         Loop(w) \/ PoolFails(w) \/ SuppressExpires(w)
  PROVE  QueueStill
<1>0. /\ w \in Procs /\ w \notin Tasks /\ Serves(w) = agent[w]
      /\ pc \in [Procs -> TriggerLabels \cup WorkerLabels]
      /\ agent \in [Workers -> Agents \cup {NoAgent}]
      /\ list \in Seq(Agents)
  BY Constants DEF TypeOK, LabelsTypeOK, LocalsTypeOK, QueueTypeOK, Serves
<1>1. ASSUME NEW a \in Agents, Peek(w, a)
      PROVE  QueueStill
  <2>1. /\ UNCHANGED <<tasks, members, doc>> /\ list # <<>> /\ list' = Peeked(Atomic)
        /\ \/ UNCHANGED <<pc, agent>>
           \/ /\ pc' = [pc EXCEPT ![w] = IF a \in Legacy THEN "purgeSrem" ELSE "resolve"]
              /\ agent' = [agent EXCEPT ![w] = a]
    BY <1>1, Constants DEF Peek, NeverDowngraded, Goto, fileVars
  <2>2. Range(list) \subseteq Range(list')
    BY <1>0, <2>1, RotationRange
  <2>3. QueueKept
    BY <2>1, <2>2 DEF QueueKept
  <2>4. /\ \A x \in Procs : x # w => pc'[x] = pc[x]
        /\ \A v \in Workers : v # w => agent'[v] = agent[v]
        /\ (pc'[w] = pc[w] /\ agent'[w] = agent[w]) \/ pc'[w] \in {"purgeSrem", "resolve"}
    BY <1>0, <2>1
  <2>5. \A v \in Workers : WorkerStays(v)
    <3>1. WorkerStays(w)
      BY <2>1, <2>4, Standing DEF WorkerStays
    <3> QED BY <2>1, <2>4, <3>1, Standing, Constants
  <2>6. \A t \in Tasks : CallStays(t)
    BY <1>0, <2>4, Standing, Constants
  <2> QED BY <2>3, <2>5, <2>6 DEF QueueStill
<1>2. CASE ResolveResources(w)
  <2>1. UNCHANGED <<tasks, list, members, agent, doc>> /\ Goto(w, "acquire")
    BY <1>2 DEF ResolveResources, redisVars, fileVars, localVars
  <2>2. WorkerStays(w) /\ QueueKept
    BY <1>0, <2>1 DEF WorkerStays, Goto, QueueKept
  <2> QED BY <1>0, <2>1, <2>2, OneStays
<1>3. CASE SRem(w, "purgeSrem", "purgeLrem") \/ LRem(w, "purgeLrem", "purged")
  <2>1. pc[w] \in Purging /\ \E to \in {"purgeLrem", "purged"} : Goto(w, to)
    BY <1>3 DEF SRem, LRem, Purging
  <2>2. agent[w] \in Legacy
    BY <2>1 DEF PlacesRight
  <2>3. /\ UNCHANGED <<tasks, agent, doc>>
        /\ \/ list' = list /\ members' = members \ {agent[w]}
           \/ members' = members /\ list' = Keep(list, Agents \ {agent[w]})
    BY <1>0, <1>3 DEF SRem, LRem, fileVars, localVars
  <2>4. QueueKept
    BY <2>2, <2>3, LegacyRemoved
  <2>5. WorkerStays(w)
    BY <1>0, <2>1 DEF WorkerStays, Goto
  <2> QED BY <1>0, <2>1, <2>3, <2>4, <2>5, OneStays
<1>4. CASE LeaveLegacy(w)
  <2>1. /\ UNCHANGED <<tasks, list, members, doc>> /\ pc' = [pc EXCEPT ![w] = "idle"]
        /\ agent' = [agent EXCEPT ![w] = NoAgent]
    BY <1>4 DEF LeaveLegacy, Goto, redisVars, fileVars
  <2>2. /\ pc'[w] = "idle" /\ \A x \in Procs : x # w => pc'[x] = pc[x]
        /\ \A v \in Workers : v # w => agent'[v] = agent[v]
    BY <1>0, <2>1
  <2>3. QueueKept
    BY <2>1 DEF QueueKept
  <2>4. \A v \in Workers : WorkerStays(v)
    <3>1. WorkerStays(w)
      BY <2>2 DEF WorkerStays
    <3> QED BY <2>1, <2>2, <3>1, Standing, Constants
  <2>5. \A t \in Tasks : CallStays(t)
    BY <1>0, <2>2, Standing, Constants
  <2> QED BY <2>3, <2>4, <2>5 DEF QueueStill
<1>5. CASE SuppressExpires(w)
  <2>1. UNCHANGED <<tasks, list, members, doc, pc, agent>>
    BY <1>5 DEF SuppressExpires, redisVars, fileVars
  <2> QED BY <2>1, Standing DEF QueueStill, QueueKept
<1>6. CASE PoolFails(w)
  <2>1. WorkerStays(w)
    BY <1>0, <1>6 DEF PoolFails, Reject, Goto, WorkerStays
  <2> QED BY <1>0, <1>6, <2>1, RejectStays DEF PoolFails
<1> QED BY <1>1, <1>2, <1>3, <1>4, <1>5, <1>6 DEF Loop

LEMMA PodStill ==
  ASSUME QueueServed, TypeOK, QueueFacts, PlacesRight, NEW p \in Pods,
         PoolStart(p) \/ ProbePeekStrategy(p) \/ Scan(p)
  PROVE  QueueStill
<1>0. list \in Seq(Agents)
  BY DEF TypeOK, QueueTypeOK
<1>1. UNCHANGED <<tasks, agent, doc>>
  BY DEF PoolStart, ProbePeekStrategy, Scan, ScanMembers, ScanCheck, ScanSRem, ScanLRem,
     ScanLPush, ScanEnd, fileVars, localVars
<1>2. /\ \A t \in Tasks : pc'[t] = pc[t]
      /\ \A w \in Workers : pc'[w] = pc[w] \/ pc'[w] = "idle"
  BY Constants
  DEF PoolStart, ProbePeekStrategy, Scan, ScanMembers, ScanCheck, ScanSRem, ScanLRem,
      ScanLPush, ScanEnd, WorkersOf
<1>3. QueueKept
  <2>1. CASE PoolStart(p) \/ ScanMembers(p) \/ ScanCheck(p) \/ ScanEnd(p)
    BY <1>1, <2>1 DEF PoolStart, ScanMembers, ScanCheck, ScanEnd, redisVars,
       QueueKept
  <2>2. CASE ProbePeekStrategy(p)
    <3>1. list' = list \/ (list # <<>> /\ list' = Peeked(Atomic))
      BY <2>2 DEF ProbePeekStrategy
    <3>2. Range(list) \subseteq Range(list')
      BY <1>0, <3>1, RotationRange
    <3> QED BY <1>1, <2>2, <3>2 DEF ProbePeekStrategy, QueueKept
  <2>3. CASE ScanSRem(p) \/ ScanLRem(p)
    <3>1. scanAgent[p] \in Legacy
      BY <2>3 DEF ScanSRem, ScanLRem, PlacesRight
    <3>2. \/ list' = list /\ members' = members \ {scanAgent[p]}
          \/ members' = members /\ list' = Keep(list, Agents \ {scanAgent[p]})
      BY <2>3 DEF ScanSRem, ScanLRem
    <3> QED BY <1>1, <3>1, <3>2, LegacyRemoved
  <2>4. CASE ScanLPush(p)
    <3>1. list' = <<scanAgent[p]>> \o list /\ members' = members /\ scanAgent[p] \in Agents
      BY <2>4 DEF ScanLPush, TypeOK, PodsTypeOK
    <3>2. Range(list') = {scanAgent[p]} \cup Range(list)
      BY <1>0, <3>1, PushRange
    <3> QED BY <1>1, <3>1, <3>2 DEF QueueKept
  <2> QED BY <2>1, <2>2, <2>3, <2>4 DEF Scan
<1>4. ASSUME NEW w \in Workers
      PROVE  WorkerStays(w)
  <2>1. CASE pc'[w] = pc[w]
    BY <1>1, <2>1, Standing
  <2>2. CASE pc'[w] = "idle"
    BY <2>2 DEF WorkerStays
  <2> QED BY <1>2, <2>1, <2>2
<1> QED BY <1>2, <1>3, <1>4, Standing DEF QueueStill

LEMMA EnvironmentStill ==
  ASSUME QueueServed, QueueFacts, Environment
  PROVE  QueueStill
<1>1. ~\E p \in Pods : Crash(p)
  BY DEF Crash, Fault, QueueServed
<1>2. UNCHANGED <<list, members, tasks, pc, agent, doc>>
  BY <1>1 DEF Environment, MutexExpires, ExtractLockExpires, ArchiveCollected, redisVars,
     localVars, fileVars
<1> QED BY <1>2, Standing DEF QueueStill, QueueKept

-----------------------------------------------------------------------------
(* The steps that do change the queue or a task file. *)

\* Only one process is inside the mutex of an agent.
LEMMA AloneInside ==
  ASSUME HoldsMutex, NEW p \in Procs, InCritical(p), NEW q \in Procs, InCritical(q), p # q
  PROVE  Serves(p) # Serves(q)
BY DEF HoldsMutex

\* Hence a process inside the mutex meets nobody who removes its agent or
\* edits its file.
LEMMA MeetsNobody ==
  ASSUME TypeOK, HoldsMutex, NEW p \in Procs, InCritical(p), NEW w \in Workers, w # p,
         pc[w] \in {"headSrem", "headLrem", "delWrite", "pfWrite"}
  PROVE  agent[w] # Serves(p) /\ agent[w] \in Agents
<1>1. InCritical(w) /\ w \in Procs /\ Serves(w) = agent[w] /\ agent[w] \in Agents
  BY WorkerServes DEF InCritical, ConsumeCritical
<1> QED BY <1>1, AloneInside

LEMMA RegisterListed ==
  ASSUME QueueInv, NEW t \in Tasks, RegisterTask(t)
  PROVE  QueueFacts'
<1>1. /\ UNCHANGED <<list, members, agent, doc>> /\ pc[t] = "write" /\ pc'[t] = "sadd"
      /\ \A x \in Procs : x # t => pc'[x] = pc[x]
      /\ \A a \in Agents : a # AgentOf[t] => tasks'[a] = tasks[a]
      /\ t \in Procs /\ t \notin Workers /\ Serves(t) = AgentOf[t]
      /\ AgentOf[t] \in Agents \ Legacy
  BY Constants, ConstantsAssumption, TriggerServes
  DEF RegisterTask, Goto, redisVars, localVars, QueueInv, TypeOK, LabelsTypeOK, FilesTypeOK
<1>2. InCritical(t)
  BY <1>1 DEF InCritical, TriggerCritical
<1>3. ASSUME NEW w \in Workers, pc'[w] \in {"headSrem", "headLrem", "delWrite", "pfWrite"}
      PROVE  pc'[w] = pc[w] /\ tasks'[agent[w]] = tasks[agent[w]]
  <2>1. w # t /\ pc'[w] = pc[w]
    BY <1>1, Constants
  <2>2. agent[w] # AgentOf[t] /\ agent[w] \in Agents
    BY <1>1, <1>2, <1>3, <2>1, MeetsNobody DEF QueueInv
  <2> QED BY <1>1, <2>1, <2>2
<1>4. RemovedEmpty' /\ RoundsFresh'
  <2>1. RemovedEmpty'
    BY <1>1, <1>3 DEF QueueInv, RemovedEmpty
  <2>2. RoundsFresh'
    BY <1>1, <1>3 DEF QueueInv, RoundsFresh
  <2> QED BY <2>1, <2>2
<1>5. Listed'
  <2>1. \A a \in Legacy : tasks'[a] = <<>>
    BY <1>1, ConstantsAssumption DEF QueueInv, Listed
  <2>2. ASSUME NEW a \in Agents, tasks'[a] # <<>>
        PROVE  a \in members' \/ \E s \in Tasks : pc'[s] = "sadd" /\ AgentOf[s] = a
    <3>1. CASE a = AgentOf[t]
      BY <1>1, <3>1
    <3>2. CASE a # AgentOf[t]
      BY <1>1, <2>2, <3>2, Constants DEF QueueInv, Listed
    <3> QED BY <3>1, <3>2
  <2>3. ASSUME NEW a \in members' \ Legacy
        PROVE  a \in Range(list') \/ \E s \in Tasks : pc'[s] = "lpush" /\ AgentOf[s] = a
    BY <1>1, <2>3, Constants DEF QueueInv, Listed
  <2> QED BY <2>1, <2>2, <2>3 DEF Listed
<1> QED BY <1>4, <1>5 DEF QueueFacts

LEMMA EnqueueListed ==
  ASSUME QueueInv, NEW t \in Tasks, EnqueueSAdd(t) \/ LPush(t, "lpush", "ackUnlock")
  PROVE  QueueFacts'
<1>1. /\ UNCHANGED <<tasks, agent, doc>> /\ pc[t] \in {"sadd", "lpush"}
      /\ pc'[t] \in {"ackUnlock", "lpush"}
      /\ \A x \in Procs : x # t => pc'[x] = pc[x]
      /\ t \in Procs /\ t \notin Workers /\ Serves(t) = AgentOf[t] /\ AgentOf[t] \in Agents
  <2>1. pc \in [Procs -> TriggerLabels \cup WorkerLabels]
    BY DEF QueueInv, TypeOK, LabelsTypeOK
  <2>2. /\ UNCHANGED <<tasks, agent, doc>> /\ pc[t] \in {"sadd", "lpush"}
        /\ \E to \in {"ackUnlock", "lpush"} : Goto(t, to)
    BY DEF EnqueueSAdd, LPush, fileVars, localVars
  <2> QED BY <2>1, <2>2, Constants, TriggerServes DEF Goto
<1>2. InCritical(t)
  BY <1>1 DEF InCritical, TriggerCritical
<1>3. ASSUME NEW w \in Workers, pc'[w] \in {"headSrem", "headLrem", "delWrite", "pfWrite"}
      PROVE  pc'[w] = pc[w] /\ agent[w] # AgentOf[t]
  <2>1. w # t /\ pc'[w] = pc[w]
    BY <1>1, Constants
  <2> QED BY <1>1, <1>2, <1>3, <2>1, MeetsNobody DEF QueueInv
<1>4. members' \subseteq members \cup {AgentOf[t]}
  BY DEF EnqueueSAdd, LPush
<1>5. RemovedEmpty'
  BY <1>1, <1>3, <1>4 DEF QueueInv, RemovedEmpty
<1>6. RoundsFresh'
  BY <1>1, <1>3 DEF QueueInv, RoundsFresh
<1>7. CASE EnqueueSAdd(t)
  <2>1. /\ members' = members \cup {AgentOf[t]} /\ list' = list /\ pc[t] = "sadd"
        /\ pc'[t] = IF AgentOf[t] \in members THEN "ackUnlock" ELSE "lpush"
    BY <1>1, <1>7 DEF EnqueueSAdd, Goto, QueueInv, TypeOK, LabelsTypeOK
  <2>2. ASSUME NEW a \in Agents, tasks'[a] # <<>>
        PROVE  a \in members' \/ \E s \in Tasks : pc'[s] = "sadd" /\ AgentOf[s] = a
    <3>1. CASE a = AgentOf[t]
      BY <2>1, <3>1
    <3>2. CASE a # AgentOf[t]
      BY <1>1, <2>1, <2>2, <3>2, Constants DEF QueueInv, Listed
    <3> QED BY <3>1, <3>2
  <2>3. ASSUME NEW a \in members' \ Legacy
        PROVE  a \in Range(list') \/ \E s \in Tasks : pc'[s] = "lpush" /\ AgentOf[s] = a
    <3>1. CASE a \in members
      BY <1>1, <2>1, <2>3, <3>1, Constants DEF QueueInv, Listed
    <3>2. CASE a \notin members
      BY <2>1, <2>3, <3>2
    <3> QED BY <3>1, <3>2
  <2> QED BY <1>1, <1>5, <1>6, <2>2, <2>3 DEF QueueInv, Listed, QueueFacts
<1>8. CASE LPush(t, "lpush", "ackUnlock")
  <2>1. /\ members' = members /\ list' = <<AgentOf[t]>> \o list /\ pc[t] = "lpush"
    BY <1>1, <1>8 DEF LPush
  <2>2. Range(list') = {AgentOf[t]} \cup Range(list)
    BY <1>1, <2>1, PushRange DEF QueueInv, TypeOK, QueueTypeOK
  <2>3. ASSUME NEW a \in Agents, tasks'[a] # <<>>
        PROVE  a \in members' \/ \E s \in Tasks : pc'[s] = "sadd" /\ AgentOf[s] = a
    <3>1. CASE a \in members
      BY <2>1, <3>1
    <3>2. CASE a \notin members
      <4>1. PICK s \in Tasks : pc[s] = "sadd" /\ AgentOf[s] = a
        BY <1>1, <2>3, <3>2 DEF QueueInv, Listed
      <4>2. s # t /\ s \in Procs
        BY <2>1, <4>1, Constants
      <4> QED BY <1>1, <4>1, <4>2
    <3> QED BY <3>1, <3>2
  <2>4. ASSUME NEW a \in members' \ Legacy
        PROVE  a \in Range(list') \/ \E s \in Tasks : pc'[s] = "lpush" /\ AgentOf[s] = a
    <3>1. CASE a \in Range(list) \cup {AgentOf[t]}
      BY <2>2, <3>1
    <3>2. CASE a \notin Range(list) \cup {AgentOf[t]}
      <4>1. PICK s \in Tasks : pc[s] = "lpush" /\ AgentOf[s] = a
        BY <2>1, <2>4, <3>2 DEF QueueInv, Listed
      <4>2. s # t /\ s \in Procs
        BY <3>2, <4>1, Constants
      <4> QED BY <1>1, <4>1, <4>2
    <3> QED BY <3>1, <3>2
  <2> QED BY <1>1, <1>5, <1>6, <2>3, <2>4 DEF QueueInv, Listed, QueueFacts
<1> QED BY <1>7, <1>8

\* What the rounds that look at an empty file, or take its agent off the
\* queue, have in common.
LEMMA RemovalMoves ==
  ASSUME QueueInv, NEW w \in Workers,
         ReadHead(w) \/ SRem(w, "headSrem", "headLrem") \/ LRem(w, "headLrem", "emptyUnlock")
  PROVE  /\ UNCHANGED <<tasks, agent, doc>>
         /\ \A x \in Procs : x # w => pc'[x] = pc[x]
         /\ w \in Procs /\ w \notin Tasks /\ Serves(w) = agent[w] /\ agent[w] \in Agents
         /\ InCritical(w) /\ members' \subseteq members
         /\ \/ ReadHead(w) /\ UNCHANGED <<list, members>>
               /\ \/ pc'[w] = "headSrem" /\ tasks[agent[w]] = <<>>
                  \/ pc'[w] = "headUnlock"
            \/ /\ pc[w] = "headSrem" /\ pc'[w] = "headLrem" /\ list' = list
               /\ members' = members \ {agent[w]}
            \/ /\ pc[w] = "headLrem" /\ pc'[w] = "emptyUnlock" /\ members' = members
               /\ list' = Keep(list, Agents \ {agent[w]})
<1>1. pc[w] \in {"headRead", "headSrem", "headLrem"} /\ \E to : Goto(w, to)
  BY DEF ReadHead, SRem, LRem
<1>2. /\ w \in Procs /\ w \notin Tasks /\ Serves(w) = agent[w] /\ agent[w] \in Agents
      /\ InCritical(w) /\ pc \in [Procs -> TriggerLabels \cup WorkerLabels]
  BY <1>1, WorkerServes, Constants
  DEF InCritical, ConsumeCritical, QueueInv, TypeOK, LabelsTypeOK
<1>3. UNCHANGED <<tasks, agent, doc>>
  BY DEF ReadHead, SRem, LRem, fileVars, localVars
<1>4. \A x \in Procs : x # w => pc'[x] = pc[x]
  BY <1>1, <1>2 DEF Goto
<1>5. CASE ReadHead(w)
  BY <1>2, <1>3, <1>4, <1>5 DEF ReadHead, Goto, redisVars
<1>6. CASE SRem(w, "headSrem", "headLrem") \/ LRem(w, "headLrem", "emptyUnlock")
  BY <1>2, <1>3, <1>4, <1>6 DEF SRem, LRem, Goto
<1> QED BY <1>5, <1>6

LEMMA RemovalListed ==
  ASSUME QueueInv, NEW w \in Workers,
         ReadHead(w) \/ SRem(w, "headSrem", "headLrem") \/ LRem(w, "headLrem", "emptyUnlock")
  PROVE  QueueFacts'
<1>1. /\ UNCHANGED <<tasks, agent, doc>>
      /\ \A x \in Procs : x # w => pc'[x] = pc[x]
      /\ w \in Procs /\ w \notin Tasks /\ Serves(w) = agent[w] /\ agent[w] \in Agents
      /\ InCritical(w) /\ members' \subseteq members
      /\ \/ UNCHANGED <<list, members>>
            /\ \/ pc'[w] = "headSrem" /\ tasks[agent[w]] = <<>>
               \/ pc'[w] = "headUnlock"
         \/ /\ pc[w] = "headSrem" /\ pc'[w] = "headLrem" /\ list' = list
            /\ members' = members \ {agent[w]}
         \/ /\ pc[w] = "headLrem" /\ pc'[w] = "emptyUnlock" /\ members' = members
            /\ list' = Keep(list, Agents \ {agent[w]})
  BY RemovalMoves
<1>2. RoundsFresh'
  BY <1>1, Constants DEF QueueInv, RoundsFresh
<1>3. RemovedEmpty'
  BY <1>1, Constants DEF QueueInv, RemovedEmpty
<1>4. \A t \in Tasks : pc'[t] = pc[t]
  BY <1>1, Constants
<1>5. CASE UNCHANGED <<list, members>>
  BY <1>1, <1>2, <1>3, <1>4, <1>5 DEF QueueInv, Listed, QueueFacts
<1>6. CASE pc[w] = "headSrem" /\ list' = list /\ members' = members \ {agent[w]}
  <2>1. tasks[agent[w]] = <<>>
    BY <1>6 DEF QueueInv, RemovedEmpty
  <2>2. ASSUME NEW a \in Agents, tasks[a] # <<>>
        PROVE  a \in members' \/ \E t \in Tasks : pc'[t] = "sadd" /\ AgentOf[t] = a
    BY <1>4, <1>6, <2>1, <2>2 DEF QueueInv, Listed
  <2> QED BY <1>1, <1>2, <1>3, <1>4, <1>6, <2>2 DEF QueueInv, Listed, QueueFacts
<1>7. CASE /\ pc[w] = "headLrem" /\ members' = members
           /\ list' = Keep(list, Agents \ {agent[w]})
  <2>1. agent[w] \notin members
    BY <1>7 DEF QueueInv, RemovedEmpty
  <2>2. Range(list') = Range(list) \cap (Agents \ {agent[w]}) /\ members \subseteq Agents
    BY <1>7, KeepProperties DEF QueueInv, TypeOK, QueueTypeOK
  <2>3. ASSUME NEW a \in members \ Legacy
        PROVE  a \in Range(list') \/ \E t \in Tasks : pc'[t] = "lpush" /\ AgentOf[t] = a
    BY <1>4, <2>1, <2>2, <2>3 DEF QueueInv, Listed
  <2>4. /\ \A a \in Legacy : tasks'[a] = <<>>
        /\ \A a \in Agents :
             tasks'[a] # <<>> => a \in members' \/ \E t \in Tasks : pc'[t] = "sadd" /\ AgentOf[t] = a
    BY <1>1, <1>4, <1>7 DEF QueueInv, Listed
  <2>5. Listed'
    BY <1>7, <2>3, <2>4 DEF Listed
  <2> QED BY <1>2, <1>3, <2>5 DEF QueueFacts
<1> QED BY <1>1, <1>5, <1>6, <1>7

\* A round writes an empty file over an empty file.
LEMMA WithoutEmpty ==
  ASSUME NEW id
  PROVE  Without(<<>>, id) = <<>> /\ WithRetry(<<>>, id) = <<>>
<1>1. <<>> \in Seq(Entries) /\ DOMAIN <<>> = {}
  OBVIOUS
<1>2. Without(<<>>, id) = <<>>
  <2>1. Without(<<>>, id) \in Seq(Entries) /\ Ids(Without(<<>>, id)) = {}
    <3>1. Ids(<<>>) = {}
      BY <1>1 DEF Ids
    <3> QED BY <1>1, <3>1, WithoutType, WithoutIds
  <2> QED BY <2>1, HeadId
<1>3. WithRetry(<<>>, id) = <<>>
  <2>1. WithRetry(<<>>, id) \in Seq(Entries) /\ Ids(WithRetry(<<>>, id)) = {}
    <3>1. Ids(<<>>) = {}
      BY <1>1 DEF Ids
    <3> QED BY <1>1, <3>1, WithRetryType, WithRetryIds
  <2> QED BY <2>1, HeadId
<1> QED BY <1>2, <1>3

LEMMA RoundListed ==
  ASSUME QueueInv, NEW w \in Workers, DeleteTask(w) \/ CountRetry(w) \/ TakeDeadTask(w)
  PROVE  QueueFacts'
<1>1. pc[w] \in {"delWrite", "pfWrite"} /\ UNCHANGED <<list, members, agent, doc>>
  BY DEF DeleteTask, CountRetry, TakeDeadTask, redisVars, localVars
<1>2. /\ w \in Procs /\ w \notin Tasks /\ Serves(w) = agent[w] /\ agent[w] \in Agents
      /\ InCritical(w) /\ agent[w] \notin Legacy /\ doc[w] = tasks[agent[w]]
      /\ pc \in [Procs -> TriggerLabels \cup WorkerLabels]
      /\ tasks \in [Agents -> Seq(Entries)]
  BY <1>1, WorkerServes, Constants
  DEF QueueInv, InCritical, ConsumeCritical, PlacesRight, Working, ConsumeLabels, RoundsFresh,
      TypeOK, LabelsTypeOK, FilesTypeOK
<1>3. /\ \A x \in Procs : x # w => pc'[x] = pc[x]
      /\ pc'[w] \in {"roundUnlock", "keepSadd", "dropSrem"}
  <2>1. \E to \in {"roundUnlock", "keepSadd", "dropSrem"} : Goto(w, to)
    BY QueueFollowsMoves DEF DeleteTask, CountRetry, TakeDeadTask
  <2> QED BY <1>2, <2>1 DEF Goto
<1>4. /\ \A a \in Agents : a # agent[w] => tasks'[a] = tasks[a]
      /\ tasks[agent[w]] = <<>> => tasks'[agent[w]] = <<>>
  <2>1. \/ tasks' = tasks
        \/ tasks' = [tasks EXCEPT ![agent[w]] = Without(doc[w], head[w])]
        \/ tasks' = [tasks EXCEPT ![agent[w]] = WithRetry(doc[w], head[w])]
    BY DEF DeleteTask, CountRetry, TakeDeadTask
  <2> QED BY <1>2, <2>1, WithoutEmpty
<1>5. ASSUME NEW v \in Workers, pc'[v] \in {"headSrem", "headLrem", "delWrite", "pfWrite"}
      PROVE  pc'[v] = pc[v] /\ tasks'[agent[v]] = tasks[agent[v]]
  <2>1. v # w /\ pc'[v] = pc[v]
    BY <1>3, <1>5, Constants
  <2>2. agent[v] # agent[w] /\ agent[v] \in Agents
    BY <1>2, <1>5, <2>1, MeetsNobody DEF QueueInv
  <2> QED BY <1>4, <2>1, <2>2
<1>6. RemovedEmpty'
  BY <1>1, <1>5 DEF QueueInv, RemovedEmpty
<1>7. RoundsFresh'
  BY <1>1, <1>5 DEF QueueInv, RoundsFresh
<1>8. Listed'
  <2>1. \A t \in Tasks : pc'[t] = pc[t]
    BY <1>2, <1>3, Constants
  <2>2. \A a \in Legacy : tasks'[a] = <<>>
    BY <1>2, <1>4, ConstantsAssumption DEF QueueInv, Listed
  <2>3. \A a \in Agents : tasks'[a] # <<>> => tasks[a] # <<>>
    BY <1>4
  <2> QED BY <1>1, <2>1, <2>2, <2>3 DEF QueueInv, Listed
<1> QED BY <1>6, <1>7, <1>8 DEF QueueFacts

LEMMA QueueInvStep ==
  ASSUME QueueServed, QueueInv, [Next]_vars
  PROVE  QueueInv'
<1>1. /\ TypeOK /\ HoldsMutex /\ NeverDowngraded /\ PlacesRight /\ QueueFacts
      /\ "slowHolder" \notin FaultKinds /\ OnlyAtomic
  BY DEF QueueInv, QueueFacts, QueueServed
<1>2. TypeOK' /\ HoldsMutex' /\ NeverDowngraded' /\ PlacesRight'
  BY <1>1, MutexInvStep, NeverDowngradedStep, PlacesStep DEF MutexInv
<1>3. QueueFacts'
  <2>1. ASSUME NEW t \in Tasks, Trigger(t) \/ TriggerFails(t)
        PROVE  QueueFacts'
    BY <1>1, <2>1, CallStill, StillKeepsQueue, RegisterListed, EnqueueListed
  <2>2. ASSUME NEW w \in Workers, Consume(w) \/ TransientFailure(w) \/ WorkerFails(w)
        PROVE  QueueFacts'
    BY <1>1, <2>2, ConsumeStill, StillKeepsQueue, RemovalListed, RoundListed
  <2>3. ASSUME NEW w \in Workers, Loop(w) \/ PoolFails(w) \/ SuppressExpires(w)
        PROVE  QueueFacts'
    BY <1>1, <2>3, LoopStill, StillKeepsQueue
  <2>4. ASSUME NEW p \in Pods,
               PoolStart(p) \/ ProbePeekStrategy(p) \/ Scan(p)
        PROVE  QueueFacts'
    BY <1>1, <2>4, PodStill, StillKeepsQueue
  <2>5. CASE Environment
    BY <1>1, <2>5, EnvironmentStill, StillKeepsQueue
  <2>6. CASE UNCHANGED vars
    BY <1>1, <2>6, Standing, StillKeepsQueue
    DEF vars, redisVars, fileVars, localVars, QueueStill, QueueKept
  <2> QED BY <2>1, <2>2, <2>3, <2>4, <2>5, <2>6 DEF Next
<1> QED BY <1>2, <1>3 DEF QueueInv, QueueFacts

LEMMA QueueInvInit == OnlyAtomic /\ Init => QueueInv
<1> SUFFICES ASSUME OnlyAtomic, Init PROVE QueueInv
  OBVIOUS
<1>1. /\ \A t \in Tasks : pc[t] = "new"
      /\ \A w \in Workers : pc[w] = "off"
      /\ \A p \in Pods : strategy[p] = Atomic /\ scanPc[p] = "none"
      /\ \A a \in Agents : tasks[a] = <<>>
      /\ members = Legacy
  BY Constants DEF Init
<1>2. HoldsMutex
  BY FileInvInit DEF FileInv
<1>3. NeverDowngraded
  BY <1>1 DEF OnlyAtomic, NeverDowngraded, Detours, Requeues
<1>4. PlacesRight
  BY <1>1 DEF PlacesRight, Working, Purging, ConsumeLabels
<1>5. RemovedEmpty /\ RoundsFresh
  BY <1>1 DEF RemovedEmpty, RoundsFresh
<1>6. Listed
  BY <1>1, ConstantsAssumption DEF Listed
<1> QED BY <1>2, <1>3, <1>4, <1>5, <1>6, InitType DEF QueueInv

\* An agent with tasks that nobody is registering for or removing is in the
\* set and in the list, so its next call finds it and some worker peeks it:
\* the two commands of an enqueue, those of a removal, the purge of legacy
\* tuples and the repairs of selfHealScan interleave without losing it, and a
\* lost extract-lock or a failing object store does not matter.
THEOREM StrandedCorrect ==
  ASSUME QueueServed
  PROVE  Spec => []NoStrandedAgent
<1>1. QueueInv => NoStrandedAgent
  <2> SUFFICES ASSUME QueueInv, NEW a \in Agents, tasks[a] # <<>>, mutex[a] = Free
               PROVE  a \in members /\ a \in Range(list)
    BY DEF NoStrandedAgent
  <2>1. ASSUME NEW t \in Tasks, pc[t] \in {"sadd", "lpush"}
        PROVE  AgentOf[t] # a
    <3>1. InCritical(t)
      BY <2>1 DEF InCritical, TriggerCritical
    <3>2. mutex[AgentOf[t]] = t
      BY <3>1, TriggerServes DEF QueueInv, HoldsMutex
    <3> QED BY <3>2, Constants
  <2>2. a \in members /\ a \notin Legacy
    BY <2>1 DEF QueueInv, Listed
  <2> QED BY <2>1, <2>2 DEF QueueInv, Listed
<1>2. Init => QueueInv
  BY QueueInvInit DEF QueueServed
<1>3. QueueInv /\ [Next]_vars => QueueInv'
  BY QueueInvStep
<1> QED BY <1>1, <1>2, <1>3, PTL DEF Spec

=============================================================================
