------------------------ MODULE SkillPipelineProofs -------------------------
(***************************************************************************)
(* Theorems about SkillPipeline: its types; no worker meets a ghost, a task *)
(* that is visible, in a file or in the hands of a process, before its     *)
(* archive exists; the tasks-mutex and the extract-lock exclude as long as *)
(* no live holder's key expires; and, whatever expires, a key that names a *)
(* process is removed by that process only.                                *)
(***************************************************************************)
EXTENDS SkillPipeline, SequenceProofs

\* The part of TypeOK that does not mention pc.
DataTypeOK ==
  QueueTypeOK /\ FilesTypeOK /\ PodsTypeOK /\ LocalsTypeOK /\ HistoryTypeOK

\* Process p may stand at label to.
MayStandAt(p, to) ==
  /\ p \in Tasks => to \in TriggerLabels
  /\ p \in Workers =>
       /\ to \in WorkerLabels
       /\ to \notin {"off", "idle"} => agent[p] \in Agents
       /\ to \in HeadLabels => head[p] \in Tasks

\* What the model's constants are, as the proofs use it.
LEMMA Constants ==
  /\ \A p \in Procs : p \in Workers <=> p \notin Tasks
  /\ \A t \in Tasks : AgentOf[t] \in Agents
  /\ \A p \in Procs : PodOf[p] \in Pods
  /\ Free \notin Procs /\ Orphan \notin Procs /\ Free # Orphan
  /\ NoTask \notin Tasks /\ NoAgent \notin Agents
  /\ Tasks \subseteq Procs /\ Workers \subseteq Procs
  /\ ProbedStrategy \in Strategies
  BY ConstantsAssumption DEF Procs

\* A process that moves to a label that fits it keeps the labels right.
LEMMA GotoKeepsLabels ==
  ASSUME LabelsTypeOK, NEW p \in Procs, NEW to, MayStandAt(p, to), Goto(p, to),
         UNCHANGED <<agent, head>>
  PROVE  LabelsTypeOK'
<1>1. pc' = [pc EXCEPT ![p] = to]
  BY DEF Goto
<1>2. to \in TriggerLabels \cup WorkerLabels
  BY Constants DEF MayStandAt
<1>3. pc' \in [Procs -> TriggerLabels \cup WorkerLabels]
  BY <1>1, <1>2 DEF LabelsTypeOK
<1>4. ASSUME NEW t \in Tasks PROVE pc'[t] \in TriggerLabels
  BY <1>1, Constants DEF LabelsTypeOK, MayStandAt
<1>5. ASSUME NEW w \in Workers
      PROVE  /\ pc'[w] \in WorkerLabels
             /\ pc'[w] \notin {"off", "idle"} => agent'[w] \in Agents
             /\ pc'[w] \in HeadLabels => head'[w] \in Tasks
  BY <1>1, Constants DEF LabelsTypeOK, MayStandAt
<1> QED BY <1>3, <1>4, <1>5 DEF LabelsTypeOK

-----------------------------------------------------------------------------
(* The commands shared by calls and loops. *)

LEMMA SAddType ==
  ASSUME DataTypeOK, NEW p \in Procs, Serves(p) \in Agents, NEW from, NEW to,
         SAdd(p, from, to)
  PROVE  DataTypeOK'
BY DEF DataTypeOK, QueueTypeOK, FilesTypeOK, PodsTypeOK, LocalsTypeOK, HistoryTypeOK,
       SAdd, fileVars, podVars, localVars, histVars

LEMMA LPushType ==
  ASSUME DataTypeOK, NEW p \in Procs, Serves(p) \in Agents, NEW from, NEW to,
         LPush(p, from, to)
  PROVE  DataTypeOK'
BY DEF DataTypeOK, QueueTypeOK, FilesTypeOK, PodsTypeOK, LocalsTypeOK, HistoryTypeOK,
       LPush, fileVars, podVars, localVars, histVars

LEMMA SRemType ==
  ASSUME DataTypeOK, NEW p \in Procs, NEW from, NEW to, SRem(p, from, to)
  PROVE  DataTypeOK'
BY DEF DataTypeOK, QueueTypeOK, FilesTypeOK, PodsTypeOK, LocalsTypeOK, HistoryTypeOK,
       SRem, fileVars, podVars, localVars, histVars

LEMMA LRemType ==
  ASSUME DataTypeOK, NEW p \in Procs, NEW from, NEW to, LRem(p, from, to)
  PROVE  DataTypeOK'
<1>1. list' \in Seq(Agents)
  BY KeepProperties DEF DataTypeOK, QueueTypeOK, LRem
<1> QED
  BY <1>1 DEF DataTypeOK, QueueTypeOK, FilesTypeOK, PodsTypeOK, LocalsTypeOK,
              HistoryTypeOK, LRem, fileVars, podVars, localVars, histVars

LEMMA MutexAcquireType ==
  ASSUME DataTypeOK, NEW p \in Procs, NEW from, NEW to, MutexAcquire(p, from, to)
  PROVE  DataTypeOK'
BY DEF DataTypeOK, QueueTypeOK, FilesTypeOK, PodsTypeOK, LocalsTypeOK, HistoryTypeOK,
       MutexAcquire, fileVars, podVars, localVars, histVars

LEMMA MutexReleaseType ==
  ASSUME DataTypeOK, NEW p \in Procs, NEW from, NEW to, MutexRelease(p, from, to)
  PROVE  DataTypeOK'
<1>1. QueueTypeOK'
  BY DEF DataTypeOK, QueueTypeOK, MutexRelease
<1>2. LocalsTypeOK'
  BY DEF DataTypeOK, LocalsTypeOK, MutexRelease
<1>3. HistoryTypeOK'
  BY DEF DataTypeOK, HistoryTypeOK, MutexRelease, Fault
<1> QED
  BY <1>1, <1>2, <1>3 DEF DataTypeOK, FilesTypeOK, PodsTypeOK, MutexRelease, fileVars, podVars

LEMMA ReadTasksType ==
  ASSUME DataTypeOK, NEW p \in Procs, Serves(p) \in Agents, NEW from, NEW to,
         ReadTasks(p, from, to)
  PROVE  DataTypeOK'
BY DEF DataTypeOK, QueueTypeOK, FilesTypeOK, PodsTypeOK, LocalsTypeOK, HistoryTypeOK,
       ReadTasks, redisVars, fileVars, podVars, histVars

LEMMA RejectType ==
  ASSUME DataTypeOK, NEW p \in Procs, NEW kind, NEW from, NEW to, Reject(p, kind, from, to)
  PROVE  DataTypeOK'
BY DEF DataTypeOK, QueueTypeOK, FilesTypeOK, PodsTypeOK, LocalsTypeOK, HistoryTypeOK,
       Reject, Fault, redisVars, fileVars, podVars, localVars

\* Labels move by Goto, which leaves agent and head alone.
LEMMA CommandsMoveLabels ==
  ASSUME NEW p, NEW from, NEW to,
         \/ SAdd(p, from, to) \/ LPush(p, from, to) \/ SRem(p, from, to)
         \/ LRem(p, from, to) \/ MutexAcquire(p, from, to) \/ MutexRelease(p, from, to)
         \/ ReadTasks(p, from, to)
  PROVE  pc[p] = from /\ Goto(p, to) /\ UNCHANGED <<agent, head>>
BY DEF SAdd, LPush, SRem, LRem, MutexAcquire, MutexRelease, ReadTasks, localVars

LEMMA RejectMovesLabels ==
  ASSUME NEW p, NEW kind, NEW from, NEW to, Reject(p, kind, from, to)
  PROVE  pc[p] \in from /\ Goto(p, to) /\ UNCHANGED <<agent, head>>
BY DEF Reject, localVars

\* A command on an agent, from a label to one that fits, keeps the types.
LEMMA CommandType ==
  ASSUME DataTypeOK, LabelsTypeOK, NEW p \in Procs, NEW from, NEW to,
         pc[p] = from => Serves(p) \in Agents /\ MayStandAt(p, to),
         \/ SAdd(p, from, to) \/ LPush(p, from, to) \/ SRem(p, from, to)
         \/ LRem(p, from, to) \/ MutexAcquire(p, from, to) \/ MutexRelease(p, from, to)
         \/ ReadTasks(p, from, to)
  PROVE  TypeOK'
<1>1. pc[p] = from /\ Goto(p, to) /\ UNCHANGED <<agent, head>>
  BY CommandsMoveLabels
<1>2. LabelsTypeOK'
  BY <1>1, GotoKeepsLabels
<1>3. DataTypeOK'
  BY <1>1, SAddType, LPushType, SRemType, LRemType, MutexAcquireType, MutexReleaseType,
     ReadTasksType
<1> QED BY <1>2, <1>3 DEF TypeOK, DataTypeOK

LEMMA RejectKeepsType ==
  ASSUME DataTypeOK, LabelsTypeOK, NEW p \in Procs, NEW kind, NEW from, NEW to,
         pc[p] \in from => MayStandAt(p, to), Reject(p, kind, from, to)
  PROVE  TypeOK'
<1>1. pc[p] \in from /\ Goto(p, to) /\ UNCHANGED <<agent, head>>
  BY RejectMovesLabels
<1> QED BY <1>1, GotoKeepsLabels, RejectType DEF TypeOK, DataTypeOK

\* A step that moves p by Goto and otherwise keeps the data types is harmless.
LEMMA MoveType ==
  ASSUME DataTypeOK', LabelsTypeOK, NEW p \in Procs, NEW to, MayStandAt(p, to), Goto(p, to),
         UNCHANGED <<agent, head>>
  PROVE  TypeOK'
BY GotoKeepsLabels DEF TypeOK, DataTypeOK

-----------------------------------------------------------------------------
(* The calls of archive(). *)

LEMMA TriggerServes ==
  ASSUME NEW t \in Tasks
  PROVE  /\ t \in Procs /\ Serves(t) \in Agents /\ Serves(t) = AgentOf[t]
         /\ \A to \in TriggerLabels : MayStandAt(t, to)
BY Constants DEF Serves, MayStandAt

LEMMA TriggerType ==
  ASSUME TypeOK, NEW t \in Tasks, Trigger(t) \/ TriggerFails(t)
  PROVE  TypeOK'
<1> USE TriggerServes DEF TypeOK
<1>0. DataTypeOK
  BY DEF DataTypeOK
<1>1. CASE WriteArchive(t)
  <2>1. DataTypeOK'
    BY <1>0, <1>1 DEF DataTypeOK, QueueTypeOK, FilesTypeOK, PodsTypeOK, LocalsTypeOK,
       HistoryTypeOK, WriteArchive, redisVars, podVars, localVars, histVars
  <2> QED BY <1>1, <2>1, MoveType DEF WriteArchive, localVars, TriggerLabels
<1>2. CASE RegisterTask(t)
  <2>1. doc[t] \in Seq(Entries) /\ [id |-> t, retry |-> 0] \in Entries
    BY DEF LocalsTypeOK, Entries
  <2>2. DataTypeOK'
    BY <1>0, <1>2, <2>1, AppendProperties
    DEF DataTypeOK, QueueTypeOK, FilesTypeOK, PodsTypeOK, LocalsTypeOK, HistoryTypeOK,
        RegisterTask, redisVars, podVars, localVars, histVars
  <2> QED BY <1>2, <2>2, MoveType DEF RegisterTask, localVars, TriggerLabels
<1>3. CASE EnqueueSAdd(t)
  <2>1. DataTypeOK'
    BY <1>0, <1>3 DEF DataTypeOK, QueueTypeOK, FilesTypeOK, PodsTypeOK, LocalsTypeOK,
       HistoryTypeOK, EnqueueSAdd, fileVars, podVars, localVars, histVars
  <2> DEFINE to == IF AgentOf[t] \in members THEN "ackUnlock" ELSE "lpush"
  <2>2. Goto(t, to) /\ MayStandAt(t, to)
    BY <1>3 DEF EnqueueSAdd, TriggerLabels
  <2> QED BY <1>3, <2>1, <2>2, MoveType DEF EnqueueSAdd, localVars
<1>4. ASSUME NEW from, NEW to \in TriggerLabels,
             \/ MutexAcquire(t, from, to) \/ ReadTasks(t, from, to)
             \/ LPush(t, from, to) \/ MutexRelease(t, from, to)
      PROVE  TypeOK'
  BY <1>0, <1>4, CommandType
<1>5. ASSUME NEW kind, NEW from, NEW to \in TriggerLabels, Reject(t, kind, from, to)
      PROVE  TypeOK'
  BY <1>0, <1>5, RejectKeepsType
<1>6. {"lock", "read", "write", "sadd", "lpush", "ackUnlock", "failUnlock", "acked", "failed"}
        \subseteq TriggerLabels
  BY DEF TriggerLabels
<1>7. CASE Trigger(t)
  BY <1>1, <1>2, <1>3, <1>4, <1>6, <1>7 DEF Trigger
<1>8. CASE TriggerFails(t)
  BY <1>5, <1>6, <1>8 DEF TriggerFails
<1> QED BY <1>7, <1>8

-----------------------------------------------------------------------------
(* consumeAgent and handlePermanentFailure. *)

\* What stands behind the labels of a worker.
WorkerFits(w) ==
  /\ \A to \in WorkerLabels \ HeadLabels : MayStandAt(w, to)
  /\ head[w] \in Tasks => \A to \in WorkerLabels : MayStandAt(w, to)

LEMMA WorkerServes ==
  ASSUME TypeOK, NEW w \in Workers, pc[w] \notin {"off", "idle"}
  PROVE  /\ w \in Procs /\ Serves(w) \in Agents /\ Serves(w) = agent[w]
         /\ WorkerFits(w)
         /\ pc[w] \in HeadLabels => head[w] \in Tasks
BY Constants DEF Serves, MayStandAt, WorkerFits, TypeOK, LabelsTypeOK

\* The files after a task has left _tasks.json are still sequences of entries.
LEMMA WithoutType ==
  ASSUME NEW q \in Seq(Entries), NEW id
  PROVE  Without(q, id) \in Seq(Entries)
BY KeepProperties DEF Without

LEMMA WithRetryType ==
  ASSUME NEW q \in Seq(Entries), NEW id
  PROVE  WithRetry(q, id) \in Seq(Entries)
<1>1. Len(q) \in Nat /\ DOMAIN q = 1..Len(q)
  BY LenProperties
<1>2. ASSUME NEW i \in 1..Len(q)
      PROVE  (IF q[i].id = id THEN [q[i] EXCEPT !.retry = @ + 1] ELSE q[i]) \in Entries
  <2>1. q[i] \in Entries
    BY <1>2, ElementOfSeq
  <2> QED BY <2>1 DEF Entries
<1> QED BY <1>1, <1>2 DEF WithRetry

\* A round that has written _tasks.json only moves to labels after it.
LEMMA QueueFollowsMoves ==
  ASSUME NEW w, NEW q, QueueFollows(w, q)
  PROVE  \E to \in {"roundUnlock", "keepSadd", "dropSrem"} : Goto(w, to)
BY DEF QueueFollows

LEMMA ConsumeOwnSteps ==
  ASSUME TypeOK, NEW w \in Workers,
         \/ AcquireExtractLock(w) \/ LockContended(w) \/ ReadHead(w) \/ ReadArchive(w)
         \/ Extract(w) \/ PermanentFailure(w) \/ DeleteTask(w) \/ FailedTaskGone(w)
         \/ CountRetry(w) \/ TakeDeadTask(w) \/ ReadDlq(w) \/ AppendDlq(w)
  PROVE  TypeOK'
<1> USE DEF TypeOK
<1>0. DataTypeOK /\ pc[w] \notin {"off", "idle"}
  BY DEF DataTypeOK, AcquireExtractLock, LockContended, ReadHead, ReadArchive, Extract,
         PermanentFailure, DeleteTask, FailedTaskGone, CountRetry, TakeDeadTask, ReadDlq,
         AppendDlq
<1>a. /\ w \in Procs /\ agent[w] \in Agents /\ WorkerFits(w)
      /\ pc[w] \in HeadLabels => head[w] \in Tasks
  BY <1>0, WorkerServes
<1>b. doc[w] \in Seq(Entries)
  BY <1>a DEF LocalsTypeOK
<1> USE <1>a
<1>1. CASE AcquireExtractLock(w)
  <2>1. DataTypeOK'
    BY <1>0, <1>1
    DEF DataTypeOK, QueueTypeOK, FilesTypeOK, PodsTypeOK, LocalsTypeOK, HistoryTypeOK,
        AcquireExtractLock, redisVars, fileVars, podVars, localVars, histVars
  <2> QED
    BY <1>1, <2>1, MoveType
    DEF AcquireExtractLock, localVars, histVars, WorkerFits, WorkerLabels, PoolLabels, ConsumeLabels, HeadLabels
<1>2. CASE LockContended(w)
  <2>1. DataTypeOK'
    BY <1>0, <1>2
    DEF DataTypeOK, QueueTypeOK, FilesTypeOK, PodsTypeOK, LocalsTypeOK, HistoryTypeOK,
        LockContended, redisVars, fileVars, podVars, localVars, histVars
  <2> QED
    BY <1>2, <2>1, MoveType
    DEF LockContended, localVars, histVars, WorkerFits, WorkerLabels, PoolLabels, ConsumeLabels, HeadLabels
<1>3. CASE ReadHead(w)
  <2> DEFINE q == tasks[agent[w]]
  <2>1. q \in Seq(Entries)
    BY DEF FilesTypeOK
  <2>2. q # <<>> => q[1].id \in Tasks
    <3>1. q # <<>> => q[1] \in Entries
      BY <2>1, EmptySeq, ElementOfSeq
    <3> QED BY <3>1 DEF Entries
  <2>3. DataTypeOK'
    BY <1>0, <1>3, <2>2
    DEF DataTypeOK, QueueTypeOK, FilesTypeOK, PodsTypeOK, LocalsTypeOK, HistoryTypeOK,
        ReadHead, redisVars, fileVars, podVars, histVars
  <2>4. \/ Goto(w, "headSrem") /\ UNCHANGED head
        \/ Goto(w, "headUnlock") /\ head' = [head EXCEPT ![w] = q[1].id] /\ q[1].id \in Tasks
    BY <1>3, <2>2 DEF ReadHead
  <2>5. agent' = agent /\ {"headSrem", "headUnlock"} \subseteq WorkerLabels
    BY <1>3 DEF ReadHead, WorkerLabels, ConsumeLabels
  <2>6. CASE Goto(w, "headSrem") /\ UNCHANGED head
    BY <2>3, <2>5, <2>6, MoveType DEF WorkerFits, HeadLabels
  <2>7. CASE /\ Goto(w, "headUnlock") /\ q[1].id \in Tasks
             /\ head' = [head EXCEPT ![w] = q[1].id]
    <3>1. pc' = [pc EXCEPT ![w] = "headUnlock"]
      BY <2>7 DEF Goto
    <3>2. pc' \in [Procs -> TriggerLabels \cup WorkerLabels]
      BY <2>5, <3>1 DEF LabelsTypeOK
    <3>3. \A t \in Tasks : pc'[t] \in TriggerLabels
      BY <3>1, Constants DEF LabelsTypeOK
    <3>4. \A v \in Workers :
            /\ pc'[v] \in WorkerLabels
            /\ pc'[v] \notin {"off", "idle"} => agent'[v] \in Agents
            /\ pc'[v] \in HeadLabels => head'[v] \in Tasks
      BY <2>5, <2>7, <3>1, Constants DEF LabelsTypeOK, LocalsTypeOK
    <3> QED BY <2>3, <3>2, <3>3, <3>4 DEF LabelsTypeOK, DataTypeOK
  <2> QED BY <2>4, <2>6, <2>7
<1>4. CASE ReadArchive(w)
  <2>1. DataTypeOK'
    BY <1>0, <1>4
    DEF DataTypeOK, QueueTypeOK, FilesTypeOK, PodsTypeOK, LocalsTypeOK, HistoryTypeOK,
        ReadArchive, redisVars, fileVars, podVars, localVars, histVars
  <2>2. MayStandAt(w, "extract") /\ MayStandAt(w, "delLock")
    BY <1>4 DEF ReadArchive, WorkerFits, WorkerLabels, ConsumeLabels, HeadLabels
  <2> QED BY <1>4, <2>1, <2>2, MoveType DEF ReadArchive, localVars
<1>5. CASE Extract(w)
  <2>1. HistoryTypeOK'
    <3>1. head[w] \in Tasks
      BY <1>5 DEF Extract, HeadLabels
    <3>2. extracted[head[w]] + 1 \in Nat
      BY <3>1 DEF HistoryTypeOK
    <3> QED BY <1>5, <3>2 DEF HistoryTypeOK, Extract
  <2>2. DataTypeOK'
    BY <1>0, <1>5, <2>1
    DEF DataTypeOK, QueueTypeOK, FilesTypeOK, PodsTypeOK, LocalsTypeOK, Extract, redisVars,
        fileVars, podVars, localVars
  <2>3. MayStandAt(w, "delLock")
    BY <1>5 DEF Extract, WorkerFits, WorkerLabels, ConsumeLabels, HeadLabels
  <2> QED BY <1>5, <2>2, <2>3, MoveType DEF Extract, localVars
<1>6. CASE PermanentFailure(w)
  <2>1. DataTypeOK'
    BY <1>0, <1>6
    DEF DataTypeOK, QueueTypeOK, FilesTypeOK, PodsTypeOK, LocalsTypeOK, HistoryTypeOK,
        PermanentFailure, redisVars, fileVars, podVars, localVars, histVars
  <2> QED
    BY <1>6, <2>1, MoveType
    DEF PermanentFailure, localVars, histVars, WorkerFits, WorkerLabels, PoolLabels, ConsumeLabels, HeadLabels
<1>7. CASE DeleteTask(w)
  <2>1. DataTypeOK'
    BY <1>0, <1>7, <1>b, WithoutType
    DEF DataTypeOK, QueueTypeOK, FilesTypeOK, PodsTypeOK, LocalsTypeOK, HistoryTypeOK,
        DeleteTask, redisVars, fileVars, podVars, localVars, histVars
  <2>2. PICK to \in {"roundUnlock", "keepSadd", "dropSrem"} : Goto(w, to)
    BY <1>7, QueueFollowsMoves DEF DeleteTask
  <2>3. MayStandAt(w, to)
    BY <1>7 DEF DeleteTask, WorkerFits, WorkerLabels, ConsumeLabels, HeadLabels
  <2> QED BY <1>7, <2>1, <2>2, <2>3, MoveType DEF DeleteTask, localVars
<1>8. CASE FailedTaskGone(w)
  <2>1. DataTypeOK'
    BY <1>0, <1>8
    DEF DataTypeOK, QueueTypeOK, FilesTypeOK, PodsTypeOK, LocalsTypeOK, HistoryTypeOK,
        FailedTaskGone, redisVars, fileVars, podVars, localVars, histVars
  <2>2. PICK to \in {"roundUnlock", "keepSadd", "dropSrem"} : Goto(w, to)
    BY <1>8, QueueFollowsMoves DEF FailedTaskGone
  <2>3. MayStandAt(w, to)
    BY <1>8 DEF FailedTaskGone, WorkerFits, WorkerLabels, ConsumeLabels, HeadLabels
  <2> QED BY <1>8, <2>1, <2>2, <2>3, MoveType DEF FailedTaskGone, localVars
<1>9. CASE CountRetry(w)
  <2>1. DataTypeOK'
    BY <1>0, <1>9, <1>b, WithRetryType
    DEF DataTypeOK, QueueTypeOK, FilesTypeOK, PodsTypeOK, LocalsTypeOK, HistoryTypeOK,
        CountRetry, redisVars, fileVars, podVars, localVars, histVars
  <2>2. PICK to \in {"roundUnlock", "keepSadd", "dropSrem"} : Goto(w, to)
    BY <1>9, QueueFollowsMoves DEF CountRetry
  <2>3. MayStandAt(w, to)
    BY <1>9 DEF CountRetry, WorkerFits, WorkerLabels, ConsumeLabels, HeadLabels
  <2> QED BY <1>9, <2>1, <2>2, <2>3, MoveType DEF CountRetry, localVars
<1>10. CASE TakeDeadTask(w)
  <2>1. DataTypeOK'
    BY <1>0, <1>10, <1>b, WithoutType
    DEF DataTypeOK, QueueTypeOK, FilesTypeOK, PodsTypeOK, LocalsTypeOK, HistoryTypeOK,
        TakeDeadTask, redisVars, fileVars, podVars, localVars, histVars
  <2>2. PICK to \in {"roundUnlock", "keepSadd", "dropSrem"} : Goto(w, to)
    BY <1>10, QueueFollowsMoves DEF TakeDeadTask
  <2>3. MayStandAt(w, to)
    BY <1>10 DEF TakeDeadTask, WorkerFits, WorkerLabels, ConsumeLabels, HeadLabels
  <2> QED BY <1>10, <2>1, <2>2, <2>3, MoveType DEF TakeDeadTask, localVars
<1>11. CASE ReadDlq(w)
  <2>1. DataTypeOK'
    BY <1>0, <1>11
    DEF DataTypeOK, QueueTypeOK, FilesTypeOK, PodsTypeOK, LocalsTypeOK, HistoryTypeOK,
        ReadDlq, redisVars, fileVars, podVars, localVars, histVars
  <2> QED
    BY <1>11, <2>1, MoveType
    DEF ReadDlq, localVars, histVars, WorkerFits, WorkerLabels, PoolLabels, ConsumeLabels, HeadLabels
<1>12. CASE AppendDlq(w)
  <2>1. [id |-> head[w], retry |-> PermanentMaxRetries] \in Entries
    BY <1>12, ConstantsAssumption DEF Entries, AppendDlq, HeadLabels
  <2>2. DataTypeOK'
    BY <1>0, <1>12, <1>b, <2>1, AppendProperties
    DEF DataTypeOK, QueueTypeOK, FilesTypeOK, PodsTypeOK, LocalsTypeOK, HistoryTypeOK,
        AppendDlq, redisVars, podVars, localVars, histVars
  <2> QED
    BY <1>12, <2>2, MoveType
    DEF AppendDlq, localVars, WorkerFits, WorkerLabels, ConsumeLabels, HeadLabels
<1> QED BY <1>1, <1>2, <1>3, <1>4, <1>5, <1>6, <1>7, <1>8, <1>9, <1>10, <1>11, <1>12

\* The end of consumeAgent resets the locals and puts the loop back to idle.
LEMMA LeaveAgentType ==
  ASSUME TypeOK, NEW w \in Workers, NEW from, from \notin {"off", "idle"}, LeaveAgent(w, from)
  PROVE  TypeOK'
<1> USE DEF TypeOK
<1>1. w \in Procs /\ agent[w] \in Agents
  BY Constants DEF LeaveAgent, LabelsTypeOK
<1>2. QueueTypeOK'
  BY <1>1 DEF QueueTypeOK, LeaveAgent
<1>3. LocalsTypeOK'
  BY <1>1 DEF LocalsTypeOK, LeaveAgent
<1>4. HistoryTypeOK'
  BY DEF HistoryTypeOK, LeaveAgent, Fault
<1>5. FilesTypeOK' /\ PodsTypeOK'
  BY DEF FilesTypeOK, PodsTypeOK, LeaveAgent, fileVars, podVars
<1>6. LabelsTypeOK'
  <2>1. pc' = [pc EXCEPT ![w] = "idle"] /\ agent' = [agent EXCEPT ![w] = NoAgent]
        /\ head' = [head EXCEPT ![w] = NoTask]
    BY DEF LeaveAgent, Goto
  <2>2. "idle" \in WorkerLabels /\ "idle" \notin HeadLabels
    BY DEF WorkerLabels, PoolLabels, HeadLabels
  <2> QED BY <1>1, <2>1, <2>2, Constants DEF LabelsTypeOK, LocalsTypeOK
<1> QED BY <1>2, <1>3, <1>4, <1>5, <1>6

LEMMA ConsumeType ==
  ASSUME TypeOK, NEW w \in Workers, Consume(w) \/ TransientFailure(w) \/ WorkerFails(w)
  PROVE  TypeOK'
<1> DEFINE Lost == WorkerLabels \ HeadLabels
<1>0. w \in Procs /\ DataTypeOK /\ LabelsTypeOK
  BY Constants DEF TypeOK, DataTypeOK
<1>1. ASSUME NEW from \in WorkerLabels \ {"off", "idle"}, NEW to \in WorkerLabels,
             to \in HeadLabels => from \in HeadLabels,
             \/ SAdd(w, from, to) \/ LPush(w, from, to) \/ SRem(w, from, to)
             \/ LRem(w, from, to) \/ MutexAcquire(w, from, to) \/ MutexRelease(w, from, to)
             \/ ReadTasks(w, from, to)
      PROVE  TypeOK'
  <2>1. pc[w] = from => Serves(w) \in Agents /\ MayStandAt(w, to)
    BY <1>1, WorkerServes DEF WorkerFits
  <2> QED BY <1>0, <1>1, <2>1, CommandType
<1>2. ASSUME NEW kind, NEW from \in SUBSET (WorkerLabels \ {"off", "idle"}),
             NEW to \in WorkerLabels,
             to \in HeadLabels => from \subseteq HeadLabels, Reject(w, kind, from, to)
      PROVE  TypeOK'
  <2>1. pc[w] \in from => MayStandAt(w, to)
    BY <1>2, WorkerServes DEF WorkerFits
  <2> QED BY <1>0, <1>2, <2>1, RejectKeepsType
<1>3. CASE Consume(w)
  <2> USE DEF WorkerLabels, ConsumeLabels, HeadLabels
  <2>1. CASE \/ SAdd(w, "contendSadd", "contendLpush") \/ LPush(w, "contendLpush", "contended")
             \/ SAdd(w, "retrySadd", "retryLpush") \/ LPush(w, "retryLpush", "release")
             \/ SAdd(w, "keepSadd", "keepLpush") \/ LPush(w, "keepLpush", "roundUnlock")
    BY <1>1, <2>1
  <2>2. CASE \/ SRem(w, "headSrem", "headLrem") \/ LRem(w, "headLrem", "emptyUnlock")
             \/ SRem(w, "dropSrem", "dropLrem") \/ LRem(w, "dropLrem", "roundUnlock")
    BY <1>1, <2>2
  <2>3. CASE \/ MutexAcquire(w, "headLock", "headRead") \/ MutexAcquire(w, "delLock", "delRead")
             \/ MutexAcquire(w, "pfLock", "pfRead") \/ ReadTasks(w, "delRead", "delWrite")
             \/ ReadTasks(w, "pfRead", "pfWrite")
    BY <1>1, <2>3
  <2>4. CASE \/ MutexRelease(w, "emptyUnlock", "release")
             \/ MutexRelease(w, "headUnlock", "readArchive")
             \/ MutexRelease(w, "roundUnlock", IF dead[w] THEN "dlqRead" ELSE "release")
             \/ MutexRelease(w, "errUnlock", "abort")
    BY <1>1, <2>4
  <2>5. CASE \/ LeaveAgent(w, "contended") \/ LeaveAgent(w, "release") \/ LeaveAgent(w, "abort")
    BY <2>5, LeaveAgentType
  <2> QED BY <1>3, <2>1, <2>2, <2>3, <2>4, <2>5, ConsumeOwnSteps DEF Consume
<1>4. CASE TransientFailure(w)
  BY <1>2, <1>4 DEF TransientFailure, WorkerLabels, ConsumeLabels, HeadLabels
<1>5. CASE WorkerFails(w)
  BY <1>2, <1>5 DEF WorkerFails, WorkerLabels, ConsumeLabels, HeadLabels
<1> QED BY <1>3, <1>4, <1>5

-----------------------------------------------------------------------------
(* The worker loop, selfHealScan and the environment. *)

\* Rotating or popping the list leaves a sequence of agents.
LEMMA PeekedType ==
  ASSUME NEW s, list \in Seq(Agents), list # <<>>
  PROVE  Peeked(s) \in Seq(Agents)
<1>1. Len(list) \in Nat \ {0}
  BY EmptySeq
<1>2. list[Len(list)] \in Agents
  BY <1>1, ElementOfSeq
<1>3. SubSeq(list, 1, Len(list) - 1) \in Seq(Agents)
  BY <1>1, ElementOfSeq, SubSeqProperties
<1>4. <<list[Len(list)]>> \in Seq(Agents)
  BY <1>2
<1> QED BY <1>3, <1>4, ConcatProperties DEF Peeked

LEMMA LoopType ==
  ASSUME TypeOK, NEW w \in Workers, Loop(w) \/ PoolFails(w) \/ SuppressExpires(w)
  PROVE  TypeOK'
<1>0. w \in Procs /\ DataTypeOK /\ LabelsTypeOK
  BY Constants DEF TypeOK, DataTypeOK
<1>1. ASSUME NEW a \in Agents, Peek(w, a)
      PROVE  TypeOK'
  <2>1. list' \in Seq(Agents)
    BY <1>0, <1>1, PeekedType DEF Peek, DataTypeOK, QueueTypeOK
  <2>2. DataTypeOK'
    BY <1>0, <1>1, <2>1
    DEF DataTypeOK, QueueTypeOK, FilesTypeOK, PodsTypeOK, LocalsTypeOK, HistoryTypeOK,
        Peek, fileVars, podVars, histVars
  <2>3. CASE UNCHANGED <<pc, agent>>
    BY <1>0, <1>1, <2>2, <2>3 DEF Peek, LabelsTypeOK, TypeOK, DataTypeOK
  <2>4. CASE \E to \in {"purgeSrem", "resolve"} :
               Goto(w, to) /\ agent' = [agent EXCEPT ![w] = a]
    <3>1. PICK to \in {"purgeSrem", "resolve"} :
            pc' = [pc EXCEPT ![w] = to] /\ agent' = [agent EXCEPT ![w] = a]
      BY <2>4 DEF Goto
    <3>2. to \in WorkerLabels /\ to \notin HeadLabels /\ head' = head
      BY <1>1 DEF WorkerLabels, PoolLabels, HeadLabels, Peek
    <3>3. LabelsTypeOK'
      BY <1>0, <3>1, <3>2, Constants DEF LabelsTypeOK, DataTypeOK, LocalsTypeOK
    <3> QED BY <2>2, <3>3 DEF TypeOK, DataTypeOK
  <2> QED BY <1>1, <2>3, <2>4 DEF Peek
<1>2. CASE SuppressExpires(w)
  BY <1>0, <1>2 DEF SuppressExpires, TypeOK, DataTypeOK, QueueTypeOK, FilesTypeOK,
     PodsTypeOK, LocalsTypeOK, LabelsTypeOK, HistoryTypeOK, redisVars, fileVars, podVars,
     histVars
<1>3. CASE ResolveResources(w)
  <2>1. MayStandAt(w, "acquire")
    BY <1>3, WorkerServes
    DEF ResolveResources, WorkerFits, WorkerLabels, ConsumeLabels, HeadLabels
  <2>2. DataTypeOK'
    BY <1>0, <1>3
    DEF DataTypeOK, QueueTypeOK, FilesTypeOK, PodsTypeOK, LocalsTypeOK, HistoryTypeOK,
        ResolveResources, redisVars, fileVars, podVars, localVars, histVars
  <2> QED BY <1>0, <1>3, <2>1, <2>2, MoveType DEF ResolveResources, localVars
<1>4. CASE LeaveLegacy(w)
  <2>1. DataTypeOK'
    BY <1>0, <1>4
    DEF DataTypeOK, QueueTypeOK, FilesTypeOK, PodsTypeOK, LocalsTypeOK, HistoryTypeOK,
        LeaveLegacy, redisVars, fileVars, podVars, histVars
  <2>2. LabelsTypeOK'
    BY <1>0, <1>4, Constants
    DEF LeaveLegacy, Goto, LabelsTypeOK, DataTypeOK, LocalsTypeOK, WorkerLabels,
        PoolLabels, HeadLabels
  <2> QED BY <2>1, <2>2 DEF TypeOK, DataTypeOK
<1>5. CASE SRem(w, "purgeSrem", "purgeLrem") \/ LRem(w, "purgeLrem", "purged")
  <2>1. pc[w] \in {"purgeSrem", "purgeLrem"} =>
          Serves(w) \in Agents /\ MayStandAt(w, "purgeLrem") /\ MayStandAt(w, "purged")
    BY WorkerServes DEF WorkerFits, WorkerLabels, PoolLabels, HeadLabels
  <2> QED BY <1>0, <1>5, <2>1, CommandType
<1>6. CASE PoolFails(w)
  <2>1. pc[w] \in {"resolve", "purgeSrem", "purgeLrem"} =>
          MayStandAt(w, "abort") /\ MayStandAt(w, "purged")
    BY WorkerServes DEF WorkerFits, WorkerLabels, PoolLabels, ConsumeLabels, HeadLabels
  <2> QED BY <1>0, <1>6, <2>1, RejectKeepsType DEF PoolFails
<1> QED BY <1>1, <1>2, <1>3, <1>4, <1>5, <1>6 DEF Loop

LEMMA ScanType ==
  ASSUME TypeOK, NEW p \in Pods, Scan(p)
  PROVE  TypeOK'
<1> USE DEF TypeOK, QueueTypeOK, FilesTypeOK, PodsTypeOK, LocalsTypeOK, LabelsTypeOK,
            HistoryTypeOK, redisVars, fileVars, localVars, histVars
<1>1. CASE ScanMembers(p)
  BY <1>1 DEF ScanMembers
<1>2. CASE ScanCheck(p)
  BY <1>2 DEF ScanCheck
<1>3. CASE ScanSRem(p)
  BY <1>3 DEF ScanSRem
<1>4. CASE ScanLRem(p)
  <2>1. list' \in Seq(Agents)
    BY <1>4, KeepProperties DEF ScanLRem
  <2> QED BY <1>4, <2>1 DEF ScanLRem
<1>5. CASE ScanLPush(p)
  BY <1>5 DEF ScanLPush
<1>6. CASE ScanEnd(p)
  BY <1>6 DEF ScanEnd, Fault
<1> QED BY <1>1, <1>2, <1>3, <1>4, <1>5, <1>6 DEF Scan

LEMMA PodType ==
  ASSUME TypeOK, NEW p \in Pods, PoolStart(p) \/ ProbePeekStrategy(p)
  PROVE  TypeOK'
<1>1. CASE PoolStart(p)
  <2>1. {"idle", "off"} \subseteq WorkerLabels /\ "idle" \notin HeadLabels
    BY DEF WorkerLabels, PoolLabels, HeadLabels
  <2>2. LabelsTypeOK'
    BY <1>1, <2>1, Constants DEF PoolStart, WorkersOf, TypeOK, LabelsTypeOK, localVars
  <2> QED
    BY <1>1, <2>2
    DEF PoolStart, TypeOK, QueueTypeOK, FilesTypeOK, PodsTypeOK, LocalsTypeOK,
        HistoryTypeOK, redisVars, fileVars, localVars, histVars
<1>2. CASE ProbePeekStrategy(p)
  <2>1. list' \in Seq(Agents)
    BY <1>2, PeekedType DEF ProbePeekStrategy, TypeOK, QueueTypeOK
  <2> QED
    BY <1>2, <2>1, Constants
    DEF ProbePeekStrategy, TypeOK, QueueTypeOK, FilesTypeOK, PodsTypeOK, LocalsTypeOK,
        LabelsTypeOK, HistoryTypeOK, fileVars, localVars, histVars
<1> QED BY <1>1, <1>2

LEMMA CrashType ==
  ASSUME TypeOK, NEW p \in Pods, Crash(p)
  PROVE  TypeOK'
<1> USE DEF TypeOK
<1> DEFINE gone == {x \in Procs : PodOf[x] = p /\ pc[x] \notin {"new", "acked", "failed"}}
<1>1. "off" \in WorkerLabels /\ "off" \notin HeadLabels /\ "failed" \in TriggerLabels
  BY DEF WorkerLabels, PoolLabels, HeadLabels, TriggerLabels
<1>2. pc' = [x \in Procs |-> IF x \notin gone THEN pc[x]
                             ELSE IF x \in Workers THEN "off" ELSE "failed"]
  BY DEF Crash
<1>3. /\ agent' = [w \in Workers |-> IF w \in gone THEN NoAgent ELSE agent[w]]
      /\ head' = [w \in Workers |-> IF w \in gone THEN NoTask ELSE head[w]]
  BY DEF Crash
<1> HIDE DEF gone
<1>4. LabelsTypeOK'
  BY <1>1, <1>2, <1>3, Constants DEF LabelsTypeOK
<1>5. LocalsTypeOK'
  <2>1. /\ doc' = [x \in Procs |-> IF x \in gone THEN <<>> ELSE doc[x]]
        /\ dead' = [w \in Workers |-> IF w \in gone THEN FALSE ELSE dead[w]]
        /\ suppress' = [w \in Workers |-> IF w \in gone THEN {} ELSE suppress[w]]
    BY DEF Crash, gone
  <2>2. agent' \in [Workers -> Agents \cup {NoAgent}] /\ head' \in [Workers -> Tasks \cup {NoTask}]
    BY <1>3 DEF LocalsTypeOK
  <2>3. doc' \in [Procs -> Seq(Entries)]
    BY <2>1, EmptySeq DEF LocalsTypeOK
  <2>4. dead' \in [Workers -> BOOLEAN]
    BY <2>1, Zenon DEF LocalsTypeOK
  <2>5. suppress' \in [Workers -> SUBSET Agents]
    BY <2>1, Zenon DEF LocalsTypeOK
  <2> QED BY <2>2, <2>3, <2>4, <2>5 DEF LocalsTypeOK
<1>6. QueueTypeOK'
  BY DEF Crash, QueueTypeOK
<1>7. PodsTypeOK'
  BY Constants DEF Crash, PodsTypeOK, Strategies
<1>8. FilesTypeOK' /\ HistoryTypeOK'
  BY DEF Crash, Fault, FilesTypeOK, HistoryTypeOK, fileVars
<1> QED BY <1>4, <1>5, <1>6, <1>7, <1>8

LEMMA EnvironmentType ==
  ASSUME TypeOK, Environment
  PROVE  TypeOK'
<1> USE DEF TypeOK, QueueTypeOK, FilesTypeOK, PodsTypeOK, LocalsTypeOK, LabelsTypeOK,
            HistoryTypeOK, fileVars, redisVars, podVars, localVars, Fault
<1>1. ASSUME NEW a \in Agents, MutexExpires(a)
      PROVE  TypeOK'
  BY <1>1 DEF MutexExpires
<1>2. ASSUME NEW a \in Agents, ExtractLockExpires(a)
      PROVE  TypeOK'
  BY <1>2 DEF ExtractLockExpires
<1>3. ASSUME NEW t \in Tasks, ArchiveCollected(t)
      PROVE  TypeOK'
  BY <1>3 DEF ArchiveCollected
<1> QED BY <1>1, <1>2, <1>3, CrashType DEF Environment

LEMMA InitType == Init => TypeOK
<1> SUFFICES ASSUME Init PROVE TypeOK
  OBVIOUS
<1>1. "new" \in TriggerLabels /\ "off" \in WorkerLabels /\ "off" \notin HeadLabels
  BY DEF TriggerLabels, WorkerLabels, PoolLabels, HeadLabels
<1>2. list \in Seq(Agents)
  <2>1. Cardinality(Legacy) \in Nat
    BY ConstantsAssumption, FS_CardinalityType
  <2>2. list \in [1..Cardinality(Legacy) -> Legacy]
    BY DEF Init
  <2>3. list \in Seq(Legacy)
    BY <2>1, <2>2, SeqDef
  <2> QED BY <2>3, ConstantsAssumption, SeqMonotonic
<1>3. QueueTypeOK /\ FilesTypeOK /\ HistoryTypeOK
  BY <1>2, ConstantsAssumption DEF Init, QueueTypeOK, FilesTypeOK, HistoryTypeOK
<1>4. PodsTypeOK
  BY Constants DEF Init, PodsTypeOK, Strategies
<1>5. LocalsTypeOK
  BY DEF Init, LocalsTypeOK
<1>6. LabelsTypeOK
  BY <1>1, Constants DEF Init, LabelsTypeOK
<1> QED BY <1>3, <1>4, <1>5, <1>6 DEF TypeOK

LEMMA NextType == TypeOK /\ [Next]_vars => TypeOK'
<1> SUFFICES ASSUME TypeOK, [Next]_vars PROVE TypeOK'
  OBVIOUS
<1>1. ASSUME NEW t \in Tasks, Trigger(t) \/ TriggerFails(t)
      PROVE  TypeOK'
  BY <1>1, TriggerType
<1>2. ASSUME NEW w \in Workers,
             \/ Loop(w) \/ PoolFails(w) \/ Consume(w) \/ TransientFailure(w)
             \/ WorkerFails(w) \/ SuppressExpires(w)
      PROVE  TypeOK'
  BY <1>2, LoopType, ConsumeType
<1>3. ASSUME NEW p \in Pods,
             PoolStart(p) \/ ProbePeekStrategy(p) \/ Scan(p)
      PROVE  TypeOK'
  BY <1>3, PodType, ScanType
<1>4. CASE Environment
  BY <1>4, EnvironmentType
<1>5. CASE UNCHANGED vars
  BY <1>5 DEF TypeOK, QueueTypeOK, FilesTypeOK, PodsTypeOK, LocalsTypeOK, LabelsTypeOK,
     HistoryTypeOK, vars, redisVars, fileVars, podVars, localVars, histVars
<1> QED BY <1>1, <1>2, <1>3, <1>4, <1>5 DEF Next

\* Every state of the pipeline is well typed: locks hold tokens of processes,
\* files hold task entries, and no worker dereferences an unset agent or task,
\* whatever faults happen.
THEOREM TypeCorrect == Spec => []TypeOK
<1>1. Init => TypeOK
  BY InitType
<1>2. TypeOK /\ [Next]_vars => TypeOK'
  BY NextType
<1> QED BY <1>1, <1>2, PTL DEF Spec

-----------------------------------------------------------------------------

\* Every task in q has its archive.
Archived(q, stored) == \A i \in DOMAIN q : q[i].id \in stored

\* Tasks in files, in the copies processes edit, and at the workers' hands.
DataArchived ==
  /\ \A a \in Agents : Archived(tasks[a], archives) /\ Archived(dlq[a], archives)
  /\ \A x \in Procs : Archived(doc[x], archives)
  /\ \A w \in Workers : head[w] \in archives \cup {NoTask}

\* Calls about to register their task have written its archive.
CallsArchived == \A t \in Tasks : pc[t] \in {"lock", "read", "write"} => t \in archives

ArchiveInv == TypeOK /\ DataArchived /\ CallsArchived

LEMMA ArchiveInvImpliesNoGhost == ArchiveInv => NoGhost
<1> SUFFICES ASSUME ArchiveInv, NEW w \in Workers, pc[w] = "readArchive"
             PROVE  head[w] \in archives
  BY DEF NoGhost
<1>1. head[w] \in Tasks
  BY WorkerServes DEF ArchiveInv, HeadLabels
<1> QED BY <1>1, Constants DEF ArchiveInv, DataArchived

-----------------------------------------------------------------------------
LEMMA WithoutArchived ==
  ASSUME NEW q \in Seq(Entries), NEW id, NEW stored, Archived(q, stored)
  PROVE  Archived(Without(q, id), stored)
<1> DEFINE kept == {e \in Range(q) : e.id # id}
           r == Without(q, id)
<1>1. r \in Seq(Entries) /\ Range(r) \subseteq Range(q)
  BY KeepProperties DEF Without
<1>2. ASSUME NEW i \in DOMAIN r
      PROVE  r[i].id \in stored
  <2>1. r[i] \in Range(r)
    BY <1>2 DEF Range
  <2>2. PICK j \in DOMAIN q : q[j] = r[i]
    BY <1>1, <2>1 DEF Range
  <2> QED BY <2>2 DEF Archived
<1> QED BY <1>2 DEF Archived

LEMMA WithRetryArchived ==
  ASSUME NEW q \in Seq(Entries), NEW id, NEW stored, Archived(q, stored)
  PROVE  Archived(WithRetry(q, id), stored)
<1>1. ASSUME NEW i \in DOMAIN q
      PROVE  WithRetry(q, id)[i].id = q[i].id
  <2>1. q[i] \in Entries
    BY <1>1, ElementOfSeq, LenProperties
  <2> QED BY <2>1 DEF WithRetry, Entries
<1> QED BY <1>1 DEF Archived, WithRetry

LEMMA AppendArchived ==
  ASSUME NEW q \in Seq(Entries), NEW e \in Entries, NEW stored, Archived(q, stored),
         e.id \in stored
  PROVE  Archived(Append(q, e), stored)
BY AppendProperties DEF Archived

\* A step that changes no file, copy or head, and takes no call to a label
\* before its registration.
DataStill ==
  /\ UNCHANGED <<archives, tasks, dlq, doc, head>>
  /\ \A t \in Tasks : pc'[t] \in {"lock", "read", "write"} => pc[t] \in {"lock", "read", "write"}

LEMMA StillKeeps ==
  ASSUME ArchiveInv, DataStill
  PROVE  DataArchived' /\ CallsArchived'
BY DEF ArchiveInv, DataStill, DataArchived, CallsArchived

LEMMA MoveIsStill ==
  ASSUME TypeOK, NEW p \in Procs, NEW to, Goto(p, to),
         UNCHANGED <<archives, tasks, dlq, doc, head>>,
         p \in Tasks /\ to \in {"lock", "read", "write"} => pc[p] \in {"lock", "read", "write"}
  PROVE  DataStill
<1>1. pc' = [pc EXCEPT ![p] = to] /\ pc \in [Procs -> TriggerLabels \cup WorkerLabels]
  BY DEF Goto, TypeOK, LabelsTypeOK
<1> QED BY <1>1, Constants DEF DataStill

LEMMA CommandIsStill ==
  ASSUME TypeOK, NEW p \in Procs, NEW from, NEW to,
         p \in Tasks /\ to \in {"lock", "read", "write"} => from \in {"lock", "read", "write"},
         \/ SAdd(p, from, to) \/ LPush(p, from, to) \/ SRem(p, from, to)
         \/ LRem(p, from, to) \/ MutexAcquire(p, from, to)
  PROVE  DataStill
<1>1. pc[p] = from /\ Goto(p, to) /\ UNCHANGED <<archives, tasks, dlq, doc, head>>
  BY DEF SAdd, LPush, SRem, LRem, MutexAcquire, fileVars, localVars
<1> QED BY <1>1, MoveIsStill

LEMMA RejectIsStill ==
  ASSUME TypeOK, NEW p \in Procs, NEW kind, NEW from, NEW to,
         p \in Tasks => to \notin {"lock", "read", "write"}, Reject(p, kind, from, to)
  PROVE  DataStill
<1>1. Goto(p, to) /\ UNCHANGED <<archives, tasks, dlq, doc, head>>
  BY DEF Reject, fileVars, localVars
<1> QED BY <1>1, MoveIsStill

\* Steps that change one process's copy of a file, and nothing else of it.
LEMMA CopyKeeps ==
  ASSUME ArchiveInv, NEW p \in Procs, NEW to, NEW q, Goto(p, to), Archived(q, archives),
         doc' = [doc EXCEPT ![p] = q], UNCHANGED <<archives, tasks, dlq, head>>,
         p \in Tasks /\ to \in {"lock", "read", "write"} => pc[p] \in {"lock", "read", "write"}
  PROVE  DataArchived' /\ CallsArchived'
<1>1. /\ pc' = [pc EXCEPT ![p] = to] /\ pc \in [Procs -> TriggerLabels \cup WorkerLabels]
      /\ doc \in [Procs -> Seq(Entries)]
  BY DEF Goto, ArchiveInv, TypeOK, LabelsTypeOK, LocalsTypeOK
<1>2. DataArchived'
  BY <1>1 DEF ArchiveInv, DataArchived
<1>3. CallsArchived'
  BY <1>1, Constants DEF ArchiveInv, CallsArchived
<1> QED BY <1>2, <1>3

LEMMA ReadTasksKeeps ==
  ASSUME ArchiveInv, NEW p \in Procs, Serves(p) \in Agents, NEW from, NEW to,
         p \in Tasks /\ to \in {"lock", "read", "write"} => from \in {"lock", "read", "write"},
         ReadTasks(p, from, to)
  PROVE  DataArchived' /\ CallsArchived'
<1>1. Archived(tasks[Serves(p)], archives)
  BY DEF ArchiveInv, DataArchived
<1>2. /\ pc[p] = from /\ Goto(p, to) /\ doc' = [doc EXCEPT ![p] = tasks[Serves(p)]]
      /\ UNCHANGED <<archives, tasks, dlq, head>>
  BY DEF ReadTasks, fileVars
<1> QED BY <1>1, <1>2, CopyKeeps

LEMMA ReleaseKeeps ==
  ASSUME ArchiveInv, NEW p \in Procs, NEW from, NEW to,
         p \in Tasks => to \notin {"lock", "read", "write"}, MutexRelease(p, from, to)
  PROVE  DataArchived' /\ CallsArchived'
<1>1. Archived(<<>>, archives)
  BY DEF Archived
<1>2. /\ Goto(p, to) /\ doc' = [doc EXCEPT ![p] = <<>>]
      /\ UNCHANGED <<archives, tasks, dlq, head>>
  BY DEF MutexRelease, fileVars
<1> QED BY <1>1, <1>2, CopyKeeps

\* A step that replaces the task file, or the dead-letter file, of an agent.
LEMMA WriteKeeps ==
  ASSUME ArchiveInv, NEW p \in Procs, NEW a \in Agents, NEW q, NEW to, Goto(p, to),
         Archived(q, archives), to \notin {"lock", "read", "write"},
         \/ tasks' = [tasks EXCEPT ![a] = q] /\ dlq' = dlq
         \/ dlq' = [dlq EXCEPT ![a] = q] /\ tasks' = tasks,
         UNCHANGED <<archives, doc, head>>
  PROVE  DataArchived' /\ CallsArchived'
<1>1. /\ pc' = [pc EXCEPT ![p] = to] /\ pc \in [Procs -> TriggerLabels \cup WorkerLabels]
      /\ tasks \in [Agents -> Seq(Entries)] /\ dlq \in [Agents -> Seq(Entries)]
  BY DEF Goto, ArchiveInv, TypeOK, LabelsTypeOK, FilesTypeOK
<1>2. DataArchived'
  BY <1>1 DEF ArchiveInv, DataArchived
<1>3. CallsArchived'
  BY <1>1, Constants DEF ArchiveInv, CallsArchived
<1> QED BY <1>2, <1>3

-----------------------------------------------------------------------------
LEMMA TriggerKeeps ==
  ASSUME ArchiveInv, NEW t \in Tasks, Trigger(t) \/ TriggerFails(t)
  PROVE  DataArchived' /\ CallsArchived'
<1>0. /\ TypeOK /\ t \in Procs /\ Serves(t) = AgentOf[t] /\ AgentOf[t] \in Agents
      /\ doc[t] \in Seq(Entries) /\ Archived(doc[t], archives)
  BY Constants DEF ArchiveInv, Serves, TypeOK, LocalsTypeOK, DataArchived
<1>1. CASE WriteArchive(t)
  <2>1. /\ pc' = [pc EXCEPT ![t] = "lock"] /\ pc \in [Procs -> TriggerLabels \cup WorkerLabels]
        /\ archives' = archives \cup {t} /\ UNCHANGED <<tasks, dlq, doc, head>>
    BY <1>0, <1>1 DEF WriteArchive, Goto, TypeOK, LabelsTypeOK, localVars
  <2>2. DataArchived'
    BY <2>1 DEF ArchiveInv, DataArchived, Archived
  <2>3. CallsArchived'
    BY <2>1, Constants DEF ArchiveInv, CallsArchived
  <2> QED BY <2>2, <2>3
<1>2. CASE RegisterTask(t)
  <2> DEFINE e == [id |-> t, retry |-> 0]
  <2>1. t \in archives
    BY <1>2 DEF RegisterTask, ArchiveInv, CallsArchived
  <2>2. Archived(Append(doc[t], e), archives)
    <3>1. e \in Entries /\ e.id \in archives
      BY <2>1 DEF Entries
    <3> QED BY <1>0, <3>1, AppendArchived
  <2>3. /\ tasks' = [tasks EXCEPT ![AgentOf[t]] = Append(doc[t], e)]
        /\ Goto(t, "sadd") /\ UNCHANGED <<archives, dlq, doc, head>>
    BY <1>2 DEF RegisterTask, localVars
  <2> QED BY <1>0, <2>2, <2>3, WriteKeeps
<1>3. CASE EnqueueSAdd(t)
  <2>1. /\ UNCHANGED <<archives, tasks, dlq, doc, head>>
        /\ \E to \in {"ackUnlock", "lpush"} : Goto(t, to)
    BY <1>3 DEF EnqueueSAdd, fileVars, localVars
  <2> QED BY <1>0, <2>1, MoveIsStill, StillKeeps
<1>4. CASE LPush(t, "lpush", "ackUnlock") \/ MutexAcquire(t, "lock", "read")
  BY <1>0, <1>4, CommandIsStill, StillKeeps
<1>5. CASE ReadTasks(t, "read", "write")
  BY <1>0, <1>5, ReadTasksKeeps
<1>6. CASE MutexRelease(t, "ackUnlock", "acked") \/ MutexRelease(t, "failUnlock", "failed")
  BY <1>0, <1>6, ReleaseKeeps
<1>7. CASE TriggerFails(t)
  BY <1>0, <1>7, RejectIsStill, StillKeeps DEF TriggerFails
<1> QED BY <1>1, <1>2, <1>3, <1>4, <1>5, <1>6, <1>7 DEF Trigger

\* The steps of a round that write a file.
LEMMA SettleKeeps ==
  ASSUME ArchiveInv, NEW w \in Workers,
         DeleteTask(w) \/ CountRetry(w) \/ TakeDeadTask(w) \/ AppendDlq(w)
  PROVE  DataArchived' /\ CallsArchived'
<1>0. TypeOK /\ w \in Procs /\ doc[w] \in Seq(Entries) /\ Archived(doc[w], archives)
  BY Constants DEF ArchiveInv, TypeOK, LocalsTypeOK, DataArchived
<1>1. agent[w] \in Agents /\ head[w] \in Tasks
  BY <1>0, WorkerServes
  DEF DeleteTask, CountRetry, TakeDeadTask, AppendDlq, RetriesUsed, HeadLabels
<1>2. CASE DeleteTask(w) \/ TakeDeadTask(w)
  <2> DEFINE q == Without(doc[w], head[w])
  <2>1. Archived(q, archives)
    BY <1>0, WithoutArchived
  <2>2. /\ tasks' = [tasks EXCEPT ![agent[w]] = q] \/ tasks' = tasks
        /\ UNCHANGED <<archives, dlq, doc, head>>
        /\ QueueFollows(w, q)
    BY <1>2 DEF DeleteTask, TakeDeadTask, localVars
  <2>3. \E to \in {"roundUnlock", "keepSadd", "dropSrem"} : Goto(w, to)
    BY <2>2, QueueFollowsMoves
  <2> HIDE DEF q
  <2>4. CASE tasks' = [tasks EXCEPT ![agent[w]] = q]
    BY <1>0, <1>1, <2>1, <2>2, <2>3, <2>4, WriteKeeps
  <2>5. CASE tasks' = tasks
    BY <1>0, <2>2, <2>3, <2>5, MoveIsStill, StillKeeps
  <2> QED BY <2>2, <2>4, <2>5
<1>3. CASE CountRetry(w)
  <2>1. Archived(WithRetry(doc[w], head[w]), archives)
    BY <1>0, WithRetryArchived
  <2>2. /\ tasks' = [tasks EXCEPT ![agent[w]] = WithRetry(doc[w], head[w])]
        /\ UNCHANGED <<archives, dlq, doc, head>>
        /\ \E to \in {"roundUnlock", "keepSadd", "dropSrem"} : Goto(w, to)
    BY <1>3, QueueFollowsMoves DEF CountRetry, localVars
  <2> QED BY <1>0, <1>1, <2>1, <2>2, WriteKeeps
<1>4. CASE AppendDlq(w)
  <2> DEFINE e == [id |-> head[w], retry |-> PermanentMaxRetries]
  <2>1. e \in Entries /\ e.id \in archives
    BY <1>1, Constants, ConstantsAssumption DEF Entries, ArchiveInv, DataArchived
  <2>2. Archived(Append(doc[w], e), archives)
    BY <1>0, <2>1, AppendArchived
  <2>3. /\ dlq' = [dlq EXCEPT ![agent[w]] = Append(doc[w], e)]
        /\ Goto(w, "release") /\ UNCHANGED <<archives, tasks, doc, head>>
    BY <1>4 DEF AppendDlq, localVars
  <2> QED BY <1>0, <1>1, <2>2, <2>3, WriteKeeps
<1> QED BY <1>2, <1>3, <1>4

\* The steps of a round that read: the head of the task file, and the
\* dead-letter file; and the return from consumeAgent, which forgets both.
LEMMA LookKeeps ==
  ASSUME ArchiveInv, NEW w \in Workers,
         ReadHead(w) \/ ReadDlq(w) \/ \E from : LeaveAgent(w, from)
  PROVE  DataArchived' /\ CallsArchived'
<1>0. /\ TypeOK /\ w \in Procs /\ w \notin Tasks
      /\ pc \in [Procs -> TriggerLabels \cup WorkerLabels]
      /\ head \in [Workers -> Tasks \cup {NoTask}] /\ doc \in [Procs -> Seq(Entries)]
  BY Constants DEF ArchiveInv, TypeOK, LabelsTypeOK, LocalsTypeOK
<1>1. CASE ReadHead(w)
  <2> DEFINE q == tasks[agent[w]]
  <2>1. /\ UNCHANGED <<archives, tasks, dlq, doc>>
        /\ \E to \in {"headSrem", "headUnlock"} : pc' = [pc EXCEPT ![w] = to]
        /\ head' = head \/ (q # <<>> /\ head' = [head EXCEPT ![w] = q[1].id])
    BY <1>1 DEF ReadHead, Goto, fileVars
  <2>2. q \in Seq(Entries) /\ Archived(q, archives)
    BY <1>0, <1>1, WorkerServes
    DEF ReadHead, ArchiveInv, DataArchived, TypeOK, FilesTypeOK
  <2>3. q # <<>> => q[1].id \in archives
    BY <2>2, LenProperties, EmptySeq DEF Archived
  <2> HIDE DEF q
  <2>4. DataArchived'
    BY <1>0, <2>1, <2>3 DEF ArchiveInv, DataArchived
  <2>5. CallsArchived'
    BY <1>0, <2>1 DEF ArchiveInv, CallsArchived
  <2> QED BY <2>4, <2>5
<1>2. CASE ReadDlq(w)
  <2>1. agent[w] \in Agents
    BY <1>0, <1>2, WorkerServes DEF ReadDlq
  <2>2. Archived(dlq[agent[w]], archives)
    BY <2>1 DEF ArchiveInv, DataArchived
  <2>3. /\ Goto(w, "dlqWrite") /\ doc' = [doc EXCEPT ![w] = dlq[agent[w]]]
        /\ UNCHANGED <<archives, tasks, dlq, head>>
    BY <1>2 DEF ReadDlq, fileVars
  <2> QED BY <1>0, <2>2, <2>3, CopyKeeps
<1>3. CASE \E from : LeaveAgent(w, from)
  <2>1. /\ pc' = [pc EXCEPT ![w] = "idle"] /\ UNCHANGED <<archives, tasks, dlq>>
        /\ head' = [head EXCEPT ![w] = NoTask] /\ doc' = [doc EXCEPT ![w] = <<>>]
    BY <1>3 DEF LeaveAgent, Goto, fileVars
  <2>2. DataArchived'
    BY <1>0, <2>1 DEF ArchiveInv, DataArchived, Archived
  <2>3. CallsArchived'
    BY <1>0, <2>1 DEF ArchiveInv, CallsArchived
  <2> QED BY <2>2, <2>3
<1> QED BY <1>1, <1>2, <1>3

LEMMA ConsumeKeeps ==
  ASSUME ArchiveInv, NEW w \in Workers, Consume(w) \/ TransientFailure(w) \/ WorkerFails(w)
  PROVE  DataArchived' /\ CallsArchived'
<1>0. TypeOK /\ w \in Procs /\ w \notin Tasks
  BY Constants DEF ArchiveInv
<1>1. CASE \/ AcquireExtractLock(w) \/ LockContended(w) \/ ReadArchive(w) \/ Extract(w)
           \/ PermanentFailure(w) \/ FailedTaskGone(w)
  <2>1. UNCHANGED <<archives, tasks, dlq, doc, head>> /\ \E to : Goto(w, to)
    BY <1>1, QueueFollowsMoves
    DEF AcquireExtractLock, LockContended, ReadArchive, Extract, PermanentFailure,
        FailedTaskGone, fileVars, localVars
  <2> QED BY <1>0, <2>1, MoveIsStill, StillKeeps
<1>2. CASE \/ SAdd(w, "contendSadd", "contendLpush") \/ LPush(w, "contendLpush", "contended")
           \/ SAdd(w, "retrySadd", "retryLpush") \/ LPush(w, "retryLpush", "release")
           \/ SAdd(w, "keepSadd", "keepLpush") \/ LPush(w, "keepLpush", "roundUnlock")
           \/ SRem(w, "headSrem", "headLrem") \/ LRem(w, "headLrem", "emptyUnlock")
           \/ SRem(w, "dropSrem", "dropLrem") \/ LRem(w, "dropLrem", "roundUnlock")
           \/ MutexAcquire(w, "headLock", "headRead") \/ MutexAcquire(w, "delLock", "delRead")
           \/ MutexAcquire(w, "pfLock", "pfRead")
  BY <1>0, <1>2, CommandIsStill, StillKeeps
<1>3. CASE ReadTasks(w, "delRead", "delWrite") \/ ReadTasks(w, "pfRead", "pfWrite")
  <2>1. Serves(w) \in Agents
    BY <1>0, <1>3, WorkerServes DEF ReadTasks
  <2> QED BY <1>0, <1>3, <2>1, ReadTasksKeeps
<1>4. CASE \/ MutexRelease(w, "emptyUnlock", "release")
           \/ MutexRelease(w, "headUnlock", "readArchive")
           \/ MutexRelease(w, "roundUnlock", IF dead[w] THEN "dlqRead" ELSE "release")
           \/ MutexRelease(w, "errUnlock", "abort")
  BY <1>0, <1>4, ReleaseKeeps
<1>5. CASE DeleteTask(w) \/ CountRetry(w) \/ TakeDeadTask(w) \/ AppendDlq(w)
  BY <1>5, SettleKeeps
<1>6. CASE ReadHead(w) \/ ReadDlq(w) \/ \E from : LeaveAgent(w, from)
  BY <1>6, LookKeeps
<1>7. CASE TransientFailure(w) \/ WorkerFails(w)
  BY <1>0, <1>7, RejectIsStill, StillKeeps DEF TransientFailure, WorkerFails
<1> QED BY <1>1, <1>2, <1>3, <1>4, <1>5, <1>6, <1>7 DEF Consume

LEMMA LoopKeeps ==
  ASSUME ArchiveInv, NEW w \in Workers, Loop(w) \/ PoolFails(w) \/ SuppressExpires(w)
  PROVE  DataArchived' /\ CallsArchived'
<1>0. TypeOK /\ w \in Procs /\ w \notin Tasks
  BY Constants DEF ArchiveInv
<1>1. CASE \/ \E a \in Agents : Peek(w, a)
           \/ SuppressExpires(w) \/ ResolveResources(w) \/ LeaveLegacy(w)
  <2>1. /\ UNCHANGED <<archives, tasks, dlq, doc, head>>
        /\ pc' = pc \/ \E to : Goto(w, to)
    BY <1>1 DEF Peek, SuppressExpires, ResolveResources, LeaveLegacy, fileVars, localVars
  <2>2. CASE pc' = pc
    BY <2>1, <2>2, StillKeeps DEF DataStill
  <2>3. CASE \E to : Goto(w, to)
    BY <1>0, <2>1, <2>3, MoveIsStill, StillKeeps
  <2> QED BY <2>1, <2>2, <2>3
<1>2. CASE SRem(w, "purgeSrem", "purgeLrem") \/ LRem(w, "purgeLrem", "purged")
  BY <1>0, <1>2, CommandIsStill, StillKeeps
<1>3. CASE PoolFails(w)
  BY <1>0, <1>3, RejectIsStill, StillKeeps DEF PoolFails
<1> QED BY <1>1, <1>2, <1>3 DEF Loop

LEMMA PodKeeps ==
  ASSUME ArchiveInv, NEW p \in Pods,
         PoolStart(p) \/ ProbePeekStrategy(p) \/ Scan(p)
  PROVE  DataArchived' /\ CallsArchived'
<1>1. UNCHANGED <<archives, tasks, dlq, doc, head>>
  BY DEF PoolStart, ProbePeekStrategy, Scan, ScanMembers, ScanCheck, ScanSRem, ScanLRem,
     ScanLPush, ScanEnd, fileVars, localVars
<1>2. \A t \in Tasks : pc'[t] = pc[t]
  BY Constants
  DEF PoolStart, ProbePeekStrategy, Scan, ScanMembers, ScanCheck, ScanSRem, ScanLRem,
      ScanLPush, ScanEnd, WorkersOf
<1> QED BY <1>1, <1>2, StillKeeps DEF DataStill

LEMMA EnvironmentKeeps ==
  ASSUME ArchiveInv, "gc" \notin FaultKinds, Environment
  PROVE  DataArchived' /\ CallsArchived'
<1>1. ASSUME NEW p \in Pods, Crash(p)
      PROVE  DataArchived' /\ CallsArchived'
  <2> DEFINE gone == {x \in Procs : PodOf[x] = p /\ pc[x] \notin {"new", "acked", "failed"}}
  <2>1. /\ UNCHANGED <<archives, tasks, dlq>>
        /\ doc' = [x \in Procs |-> IF x \in gone THEN <<>> ELSE doc[x]]
        /\ head' = [w \in Workers |-> IF w \in gone THEN NoTask ELSE head[w]]
        /\ pc' = [x \in Procs |-> IF x \notin gone THEN pc[x]
                                  ELSE IF x \in Workers THEN "off" ELSE "failed"]
    BY <1>1 DEF Crash, fileVars
  <2> HIDE DEF gone
  <2>2. DataArchived'
    BY <2>1 DEF ArchiveInv, DataArchived, Archived
  <2>3. CallsArchived'
    BY <2>1, Constants DEF ArchiveInv, CallsArchived
  <2> QED BY <2>2, <2>3
<1>2. CASE \E a \in Agents : MutexExpires(a) \/ ExtractLockExpires(a)
  BY <1>2, StillKeeps DEF MutexExpires, ExtractLockExpires, DataStill, fileVars, localVars
<1>3. ASSUME NEW t \in Tasks, ArchiveCollected(t)
      PROVE  FALSE
  BY <1>3 DEF ArchiveCollected, Fault
<1> QED BY <1>1, <1>2, <1>3 DEF Environment

LEMMA ArchiveInvStep ==
  ASSUME "gc" \notin FaultKinds, ArchiveInv, [Next]_vars
  PROVE  ArchiveInv'
<1> SUFFICES DataArchived' /\ CallsArchived'
  BY NextType DEF ArchiveInv
<1>1. CASE \E t \in Tasks : Trigger(t) \/ TriggerFails(t)
  BY <1>1, TriggerKeeps
<1>2. CASE \E w \in Workers :
             \/ Loop(w) \/ PoolFails(w) \/ Consume(w) \/ TransientFailure(w)
             \/ WorkerFails(w) \/ SuppressExpires(w)
  BY <1>2, LoopKeeps, ConsumeKeeps
<1>3. CASE \E p \in Pods :
             PoolStart(p) \/ ProbePeekStrategy(p) \/ Scan(p)
  BY <1>3, PodKeeps
<1>4. CASE Environment
  BY <1>4, EnvironmentKeeps
<1>5. CASE UNCHANGED vars
  BY <1>5, StillKeeps DEF vars, fileVars, localVars, DataStill
<1> QED BY <1>1, <1>2, <1>3, <1>4, <1>5 DEF Next

\* Unless the object store removes archives, no worker takes a task for a
\* ghost and deletes it: neither lost locks, nor crashes, nor copies of a
\* task file that are out of date make a task visible without its archive.
THEOREM NoGhostCorrect ==
  ASSUME "gc" \notin FaultKinds
  PROVE  Spec => []NoGhost
<1>1. Init => ArchiveInv
  <2> SUFFICES ASSUME Init PROVE DataArchived /\ CallsArchived
    BY InitType DEF ArchiveInv
  <2> QED BY Constants DEF Init, DataArchived, CallsArchived, Archived
<1>2. ArchiveInv /\ [Next]_vars => ArchiveInv'
  BY ArchiveInvStep
<1> QED BY <1>1, <1>2, ArchiveInvImpliesNoGhost, PTL DEF Spec

-----------------------------------------------------------------------------
(* The tasks-mutex. *)

\* Whoever is in a critical section owns the mutex of the agent it serves.
HoldsMutex == \A p \in Procs : InCritical(p) => mutex[Serves(p)] = p

MutexInv == TypeOK /\ HoldsMutex

\* Label l of process p is inside a critical section.
CriticalAt(p, l) ==
  \/ p \in Tasks /\ l \in TriggerCritical
  \/ p \in Workers /\ l \in ConsumeCritical

LEMMA MutexInvImpliesExclusion == MutexInv => MutexExclusion
BY DEF MutexInv, HoldsMutex, MutexExclusion

\* Nobody enters a critical section and no mutex key changes.
Quiet ==
  /\ mutex' = mutex
  /\ \A p \in Procs : InCritical(p)' => InCritical(p) /\ Serves(p)' = Serves(p)

LEMMA QuietHolds ==
  ASSUME HoldsMutex, Quiet
  PROVE  HoldsMutex'
BY DEF HoldsMutex, Quiet

\* A process that moves without entering a critical section is quiet.
LEMMA MoveIsQuiet ==
  ASSUME TypeOK, NEW p \in Procs, NEW to, Goto(p, to), CriticalAt(p, to) => InCritical(p),
         UNCHANGED <<mutex, agent>>
  PROVE  Quiet
<1>1. pc' = [pc EXCEPT ![p] = to] /\ pc \in [Procs -> TriggerLabels \cup WorkerLabels]
  BY DEF Goto, TypeOK, LabelsTypeOK
<1>2. ASSUME NEW q \in Procs, InCritical(q)'
      PROVE  InCritical(q) /\ Serves(q)' = Serves(q)
  BY <1>1, <1>2 DEF InCritical, CriticalAt, Serves
<1> QED BY <1>2 DEF Quiet

LEMMA AcquireHolds ==
  ASSUME TypeOK, HoldsMutex, NEW p \in Procs, Serves(p) \in Agents, NEW from, NEW to,
         MutexAcquire(p, from, to)
  PROVE  HoldsMutex'
<1>1. /\ pc' = [pc EXCEPT ![p] = to] /\ pc \in [Procs -> TriggerLabels \cup WorkerLabels]
      /\ mutex[Serves(p)] = Free /\ mutex' = [mutex EXCEPT ![Serves(p)] = p]
      /\ agent' = agent
  BY DEF MutexAcquire, Goto, TypeOK, LabelsTypeOK, localVars
<1>2. mutex \in [Agents -> Procs \cup {Free, Orphan}]
  BY DEF TypeOK, QueueTypeOK
<1>3. ASSUME NEW q \in Procs, InCritical(q)'
      PROVE  mutex'[Serves(q)'] = q
  <2>1. Serves(q)' = Serves(q)
    BY <1>1 DEF Serves
  <2>2. CASE q = p
    BY <1>1, <1>2, <2>1, <2>2
  <2>3. CASE q # p
    <3>1. InCritical(q)
      BY <1>1, <1>3, <2>3 DEF InCritical
    <3>2. mutex[Serves(q)] = q /\ q # Free
      BY <3>1, Constants DEF HoldsMutex
    <3> QED BY <1>1, <1>2, <2>1, <3>2
  <2> QED BY <2>2, <2>3
<1> QED BY <1>3 DEF HoldsMutex

LEMMA ReleaseHolds ==
  ASSUME TypeOK, HoldsMutex, NEW p \in Procs, Serves(p) \in Agents, NEW from, NEW to,
         ~CriticalAt(p, to), MutexRelease(p, from, to)
  PROVE  HoldsMutex'
<1>1. /\ pc' = [pc EXCEPT ![p] = to] /\ pc \in [Procs -> TriggerLabels \cup WorkerLabels]
      /\ agent' = agent
  BY DEF MutexRelease, Goto, TypeOK, LabelsTypeOK
<1>2. /\ \A a \in Agents : a # Serves(p) => mutex'[a] = mutex[a]
      /\ mutex[Serves(p)] # p => mutex'[Serves(p)] = mutex[Serves(p)]
  BY DEF MutexRelease, TypeOK, QueueTypeOK
<1>3. ASSUME NEW q \in Procs, InCritical(q)'
      PROVE  mutex'[Serves(q)'] = q
  <2>1. Serves(q)' = Serves(q) /\ q # p
    BY <1>1, <1>3 DEF Serves, InCritical, CriticalAt
  <2>2. InCritical(q)
    BY <1>1, <1>3, <2>1 DEF InCritical
  <2>3. Serves(q) \in Agents
    BY <2>2, Constants, WorkerServes, TriggerServes
    DEF InCritical, ConsumeCritical, Procs
  <2> QED BY <1>2, <2>1, <2>2, <2>3 DEF HoldsMutex
<1> QED BY <1>3 DEF HoldsMutex

-----------------------------------------------------------------------------
LEMMA CommandIsQuiet ==
  ASSUME TypeOK, NEW p \in Procs, NEW from, NEW to, CriticalAt(p, to) => CriticalAt(p, from),
         \/ SAdd(p, from, to) \/ LPush(p, from, to) \/ SRem(p, from, to)
         \/ LRem(p, from, to) \/ ReadTasks(p, from, to)
  PROVE  Quiet
<1>1. pc[p] = from /\ Goto(p, to) /\ UNCHANGED <<agent, mutex>>
  BY CommandsMoveLabels DEF SAdd, LPush, SRem, LRem, ReadTasks, redisVars
<1> QED BY <1>1, MoveIsQuiet DEF InCritical, CriticalAt

LEMMA RejectIsQuiet ==
  ASSUME TypeOK, NEW p \in Procs, NEW kind, NEW from, NEW to,
         \A l \in from : CriticalAt(p, to) => CriticalAt(p, l), Reject(p, kind, from, to)
  PROVE  Quiet
<1>1. pc[p] \in from /\ Goto(p, to) /\ UNCHANGED <<agent, mutex>>
  BY DEF Reject, localVars, redisVars
<1> QED BY <1>1, MoveIsQuiet DEF InCritical, CriticalAt

LEMMA TriggerHolds ==
  ASSUME MutexInv, NEW t \in Tasks, Trigger(t) \/ TriggerFails(t)
  PROVE  HoldsMutex'
<1>0. /\ TypeOK /\ HoldsMutex /\ t \in Procs /\ Serves(t) \in Agents
      /\ t \notin Workers
  BY TriggerServes, Constants DEF MutexInv
<1> USE DEF CriticalAt, TriggerCritical
<1>1. CASE WriteArchive(t)
  BY <1>0, <1>1, MoveIsQuiet, QuietHolds DEF WriteArchive, redisVars, localVars
<1>2. CASE RegisterTask(t)
  <2>1. InCritical(t) /\ Goto(t, "sadd") /\ UNCHANGED <<mutex, agent>>
    BY <1>2 DEF RegisterTask, redisVars, localVars, InCritical
  <2> QED BY <1>0, <2>1, MoveIsQuiet, QuietHolds
<1>3. CASE EnqueueSAdd(t)
  <2>1. /\ InCritical(t) /\ UNCHANGED <<mutex, agent>>
        /\ Goto(t, IF AgentOf[t] \in members THEN "ackUnlock" ELSE "lpush")
    BY <1>3 DEF EnqueueSAdd, localVars, InCritical
  <2> QED BY <1>0, <2>1, MoveIsQuiet, QuietHolds
<1>4. CASE ReadTasks(t, "read", "write") \/ LPush(t, "lpush", "ackUnlock")
  BY <1>0, <1>4, CommandIsQuiet, QuietHolds
<1>5. CASE MutexAcquire(t, "lock", "read")
  BY <1>0, <1>5, AcquireHolds
<1>6. CASE MutexRelease(t, "ackUnlock", "acked") \/ MutexRelease(t, "failUnlock", "failed")
  BY <1>0, <1>6, ReleaseHolds
<1>7. CASE TriggerFails(t)
  BY <1>0, <1>7, RejectIsQuiet, QuietHolds DEF TriggerFails
<1> QED BY <1>1, <1>2, <1>3, <1>4, <1>5, <1>6, <1>7 DEF Trigger

LEMMA ConsumeHolds ==
  ASSUME MutexInv, NEW w \in Workers, Consume(w) \/ TransientFailure(w) \/ WorkerFails(w)
  PROVE  HoldsMutex'
<1>0. TypeOK /\ HoldsMutex /\ w \in Procs /\ w \notin Tasks
  BY Constants DEF MutexInv
<1> USE DEF CriticalAt, ConsumeCritical
<1>1. CASE \/ AcquireExtractLock(w) \/ LockContended(w) \/ ReadArchive(w)
           \/ Extract(w) \/ PermanentFailure(w) \/ ReadDlq(w) \/ AppendDlq(w)
  <2>1. /\ UNCHANGED <<mutex, agent>>
        /\ \E to \in {"headLock", "contendSadd", "contended", "extract", "delLock",
                      "pfLock", "dlqWrite", "release"} : Goto(w, to)
    BY <1>1 DEF AcquireExtractLock, LockContended, ReadArchive, Extract, PermanentFailure,
       ReadDlq, AppendDlq, redisVars, localVars
  <2> QED BY <1>0, <2>1, MoveIsQuiet, QuietHolds
<1>2. CASE \/ ReadHead(w) \/ DeleteTask(w) \/ FailedTaskGone(w) \/ CountRetry(w)
           \/ TakeDeadTask(w)
  <2>1. InCritical(w) /\ UNCHANGED <<mutex, agent>>
    BY <1>2 DEF ReadHead, DeleteTask, FailedTaskGone, CountRetry, TakeDeadTask, redisVars,
       localVars, InCritical
  <2>2. \E to : Goto(w, to)
    BY <1>2, QueueFollowsMoves DEF ReadHead, DeleteTask, FailedTaskGone, CountRetry, TakeDeadTask
  <2> QED BY <1>0, <2>1, <2>2, MoveIsQuiet, QuietHolds
<1>3. CASE \/ SAdd(w, "contendSadd", "contendLpush") \/ LPush(w, "contendLpush", "contended")
           \/ SAdd(w, "retrySadd", "retryLpush") \/ LPush(w, "retryLpush", "release")
           \/ SAdd(w, "keepSadd", "keepLpush") \/ LPush(w, "keepLpush", "roundUnlock")
           \/ SRem(w, "headSrem", "headLrem") \/ LRem(w, "headLrem", "emptyUnlock")
           \/ SRem(w, "dropSrem", "dropLrem") \/ LRem(w, "dropLrem", "roundUnlock")
           \/ ReadTasks(w, "delRead", "delWrite") \/ ReadTasks(w, "pfRead", "pfWrite")
  BY <1>0, <1>3, CommandIsQuiet, QuietHolds
<1>4. CASE \/ MutexAcquire(w, "headLock", "headRead") \/ MutexAcquire(w, "delLock", "delRead")
           \/ MutexAcquire(w, "pfLock", "pfRead")
  <2>1. Serves(w) \in Agents
    BY <1>0, <1>4, WorkerServes DEF MutexAcquire
  <2> QED BY <1>0, <1>4, <2>1, AcquireHolds
<1>5. CASE \/ MutexRelease(w, "emptyUnlock", "release")
           \/ MutexRelease(w, "headUnlock", "readArchive")
           \/ MutexRelease(w, "roundUnlock", IF dead[w] THEN "dlqRead" ELSE "release")
           \/ MutexRelease(w, "errUnlock", "abort")
  <2>1. Serves(w) \in Agents
    BY <1>0, <1>5, WorkerServes DEF MutexRelease
  <2> QED BY <1>0, <1>5, <2>1, ReleaseHolds
<1>6. ASSUME NEW from, LeaveAgent(w, from)
      PROVE  HoldsMutex'
  <2>1. /\ pc' = [pc EXCEPT ![w] = "idle"] /\ agent' = [agent EXCEPT ![w] = NoAgent]
        /\ mutex' = mutex
        /\ pc \in [Procs -> TriggerLabels \cup WorkerLabels]
        /\ agent \in [Workers -> Agents \cup {NoAgent}]
    BY <1>0, <1>6 DEF LeaveAgent, Goto, TypeOK, LabelsTypeOK, LocalsTypeOK
  <2>2. ASSUME NEW q \in Procs, InCritical(q)'
        PROVE  InCritical(q) /\ Serves(q)' = Serves(q)
    BY <1>0, <2>1, <2>2, Constants DEF InCritical, Serves
  <2> QED BY <1>0, <2>1, <2>2, QuietHolds DEF Quiet
<1>7. CASE TransientFailure(w)
  BY <1>0, <1>7, RejectIsQuiet, QuietHolds DEF TransientFailure
<1>8. CASE WorkerFails(w)
  BY <1>0, <1>8, RejectIsQuiet, QuietHolds DEF WorkerFails
<1> QED BY <1>1, <1>2, <1>3, <1>4, <1>5, <1>6, <1>7, <1>8 DEF Consume

LEMMA LoopHolds ==
  ASSUME MutexInv, NEW w \in Workers, Loop(w) \/ PoolFails(w) \/ SuppressExpires(w)
  PROVE  HoldsMutex'
<1>0. TypeOK /\ HoldsMutex /\ w \in Procs /\ w \notin Tasks
  BY Constants DEF MutexInv
<1> USE DEF CriticalAt, ConsumeCritical
<1>1. CASE (\E a \in Agents : Peek(w, a)) \/ LeaveLegacy(w)
  <2>1. mutex' = mutex
    BY <1>1 DEF Peek, LeaveLegacy, redisVars
  <2>2. \/ UNCHANGED <<pc, agent>>
        \/ \E to \in {"purgeSrem", "resolve", "idle"} :
             /\ pc' = [pc EXCEPT ![w] = to]
             /\ \A v \in Workers : v # w => agent'[v] = agent[v]
    BY <1>0, <1>1 DEF Peek, LeaveLegacy, Goto, TypeOK, LocalsTypeOK
  <2>3. pc \in [Procs -> TriggerLabels \cup WorkerLabels]
    BY <1>0 DEF TypeOK, LabelsTypeOK
  <2>4. ASSUME NEW q \in Procs, InCritical(q)'
        PROVE  InCritical(q) /\ Serves(q)' = Serves(q)
    BY <1>0, <2>2, <2>3, <2>4, Constants DEF InCritical, Serves
  <2> QED BY <1>0, <2>1, <2>4, QuietHolds DEF Quiet
<1>2. CASE SuppressExpires(w)
  BY <1>0, <1>2, QuietHolds DEF SuppressExpires, Quiet, InCritical, Serves, redisVars
<1>3. CASE ResolveResources(w)
  BY <1>0, <1>3, MoveIsQuiet, QuietHolds DEF ResolveResources, redisVars, localVars
<1>4. CASE SRem(w, "purgeSrem", "purgeLrem") \/ LRem(w, "purgeLrem", "purged")
  BY <1>0, <1>4, CommandIsQuiet, QuietHolds
<1>5. CASE PoolFails(w)
  BY <1>0, <1>5, RejectIsQuiet, QuietHolds DEF PoolFails
<1> QED BY <1>1, <1>2, <1>3, <1>4, <1>5 DEF Loop

LEMMA PodHolds ==
  ASSUME MutexInv, NEW p \in Pods,
         PoolStart(p) \/ ProbePeekStrategy(p) \/ Scan(p)
  PROVE  HoldsMutex'
<1>0. TypeOK /\ HoldsMutex
  BY DEF MutexInv
<1>1. CASE PoolStart(p)
  <2>1. /\ mutex' = mutex /\ agent' = agent
        /\ pc' = [x \in Procs |-> IF x \in WorkersOf(p) THEN "idle" ELSE pc[x]]
    BY <1>1 DEF PoolStart, redisVars, localVars
  <2>2. ASSUME NEW q \in Procs, InCritical(q)'
        PROVE  InCritical(q) /\ Serves(q)' = Serves(q)
    BY <2>1, <2>2, Constants
    DEF InCritical, Serves, WorkersOf, ConsumeCritical, TriggerCritical
  <2> QED BY <1>0, <2>1, <2>2, QuietHolds DEF Quiet
<1>2. CASE ProbePeekStrategy(p) \/ Scan(p)
  <2>1. UNCHANGED <<mutex, pc, agent>>
    BY <1>2 DEF ProbePeekStrategy, Scan, ScanMembers, ScanCheck, ScanSRem, ScanLRem,
       ScanLPush, ScanEnd, redisVars, localVars
  <2> QED BY <1>0, <2>1, QuietHolds DEF Quiet, InCritical, Serves
<1> QED BY <1>1, <1>2

LEMMA EnvironmentHolds ==
  ASSUME MutexInv, "slowHolder" \notin FaultKinds, Environment
  PROVE  HoldsMutex'
<1>0. TypeOK /\ HoldsMutex
  BY DEF MutexInv
<1>1. ASSUME NEW p \in Pods, Crash(p)
      PROVE  HoldsMutex'
  <2> DEFINE gone == {x \in Procs : PodOf[x] = p /\ pc[x] \notin {"new", "acked", "failed"}}
  <2>1. /\ mutex' = [a \in Agents |-> IF mutex[a] \in gone THEN Orphan ELSE mutex[a]]
        /\ pc' = [x \in Procs |-> IF x \notin gone THEN pc[x]
                                  ELSE IF x \in Workers THEN "off" ELSE "failed"]
        /\ agent' = [w \in Workers |-> IF w \in gone THEN NoAgent ELSE agent[w]]
    BY <1>1 DEF Crash
  <2> HIDE DEF gone
  <2>2. ASSUME NEW q \in Procs, InCritical(q)'
        PROVE  mutex'[Serves(q)'] = q
    <3>1. InCritical(q) /\ Serves(q)' = Serves(q) /\ q \notin gone
      BY <2>1, <2>2, Constants DEF InCritical, Serves, ConsumeCritical, TriggerCritical
    <3>2. Serves(q) \in Agents
      BY <1>0, <3>1, Constants, WorkerServes, TriggerServes
      DEF InCritical, ConsumeCritical, Procs
    <3> QED BY <1>0, <2>1, <3>1, <3>2 DEF HoldsMutex
  <2> QED BY <2>2 DEF HoldsMutex
<1>2. ASSUME NEW a \in Agents, MutexExpires(a)
      PROVE  HoldsMutex'
  <2>1. mutex[a] = Orphan /\ mutex' = [mutex EXCEPT ![a] = Free] /\ UNCHANGED <<pc, agent>>
    BY <1>2 DEF MutexExpires, Fault, localVars
  <2>2. mutex \in [Agents -> Procs \cup {Free, Orphan}]
    BY <1>0 DEF TypeOK, QueueTypeOK
  <2>3. ASSUME NEW q \in Procs, InCritical(q)
        PROVE  mutex'[Serves(q)] = q
    <3>1. mutex[Serves(q)] = q /\ q # Orphan
      BY <1>0, <2>3, Constants DEF HoldsMutex
    <3> QED BY <2>1, <2>2, <3>1
  <2> QED BY <2>1, <2>3 DEF HoldsMutex, InCritical, Serves
<1>3. CASE \/ \E a \in Agents : ExtractLockExpires(a)
           \/ \E t \in Tasks : ArchiveCollected(t)
  <2>1. UNCHANGED <<mutex, pc, agent>>
    BY <1>3 DEF ExtractLockExpires, ArchiveCollected, redisVars, localVars
  <2> QED BY <1>0, <2>1, QuietHolds DEF Quiet, InCritical, Serves
<1> QED BY <1>1, <1>2, <1>3 DEF Environment

LEMMA MutexInvStep ==
  ASSUME "slowHolder" \notin FaultKinds, MutexInv, [Next]_vars
  PROVE  MutexInv'
<1> SUFFICES HoldsMutex'
  BY NextType DEF MutexInv
<1>1. CASE \E t \in Tasks : Trigger(t) \/ TriggerFails(t)
  BY <1>1, TriggerHolds
<1>2. CASE \E w \in Workers :
             \/ Loop(w) \/ PoolFails(w) \/ Consume(w) \/ TransientFailure(w)
             \/ WorkerFails(w) \/ SuppressExpires(w)
  BY <1>2, LoopHolds, ConsumeHolds
<1>3. CASE \E p \in Pods :
             PoolStart(p) \/ ProbePeekStrategy(p) \/ Scan(p)
  BY <1>3, PodHolds
<1>4. CASE Environment
  BY <1>4, EnvironmentHolds
<1>5. CASE UNCHANGED vars
  BY <1>5, QuietHolds
  DEF vars, redisVars, localVars, Quiet, InCritical, Serves, MutexInv
<1> QED BY <1>1, <1>2, <1>3, <1>4, <1>5 DEF Next

\* Two processes are never inside the tasks-mutex of one agent, for any number
\* of pods, loops and calls and under every fault but a critical section that
\* outlives the mutex's TTL.
THEOREM MutexCorrect ==
  ASSUME "slowHolder" \notin FaultKinds
  PROVE  Spec => []MutexExclusion
<1>1. Init => MutexInv
  <2> SUFFICES ASSUME Init PROVE HoldsMutex
    BY InitType DEF MutexInv
  <2> QED BY DEF Init, HoldsMutex, InCritical, TriggerCritical, ConsumeCritical
<1>2. MutexInv /\ [Next]_vars => MutexInv'
  BY MutexInvStep
<1> QED BY <1>1, <1>2, MutexInvImpliesExclusion, PTL DEF Spec

-----------------------------------------------------------------------------
(* The extract-lock. *)

\* A worker that believes it holds the extract-lock does hold it.
HoldsExtractLock ==
  \A w \in Workers : pc[w] \in ConsumeLocked => xlock[agent[w]] = w

ExtractInv == TypeOK /\ HoldsExtractLock

\* No extract-lock changes and no worker starts to rely on one.
Unlocking ==
  /\ xlock' = xlock
  /\ \A w \in Workers :
       pc'[w] \in ConsumeLocked => pc[w] \in ConsumeLocked /\ agent'[w] = agent[w]

LEMMA UnlockingHolds ==
  ASSUME HoldsExtractLock, Unlocking
  PROVE  HoldsExtractLock'
BY DEF HoldsExtractLock, Unlocking

\* A process that moves and relies on the lock only if it did before.
LEMMA MoveIsUnlocking ==
  ASSUME TypeOK, NEW p \in Procs, NEW to, Goto(p, to), UNCHANGED <<xlock, agent>>,
         p \in Workers /\ to \in ConsumeLocked => pc[p] \in ConsumeLocked
  PROVE  Unlocking
<1>1. pc' = [pc EXCEPT ![p] = to] /\ pc \in [Procs -> TriggerLabels \cup WorkerLabels]
  BY DEF Goto, TypeOK, LabelsTypeOK
<1> QED BY <1>1, Constants DEF Unlocking

LEMMA CommandIsUnlocking ==
  ASSUME TypeOK, NEW p \in Procs, NEW from, NEW to,
         p \in Workers /\ to \in ConsumeLocked => from \in ConsumeLocked,
         \/ SAdd(p, from, to) \/ LPush(p, from, to) \/ SRem(p, from, to)
         \/ LRem(p, from, to) \/ ReadTasks(p, from, to)
         \/ MutexAcquire(p, from, to) \/ MutexRelease(p, from, to)
  PROVE  Unlocking
<1>1. pc[p] = from /\ Goto(p, to) /\ UNCHANGED <<xlock, agent>>
  BY DEF SAdd, LPush, SRem, LRem, ReadTasks, MutexAcquire, MutexRelease, redisVars, localVars
<1> QED BY <1>1, MoveIsUnlocking

LEMMA RejectIsUnlocking ==
  ASSUME TypeOK, NEW p \in Procs, NEW kind, NEW from, NEW to,
         p \in Workers /\ to \in ConsumeLocked => from \subseteq ConsumeLocked,
         Reject(p, kind, from, to)
  PROVE  Unlocking
<1>1. pc[p] \in from /\ Goto(p, to) /\ UNCHANGED <<xlock, agent>>
  BY DEF Reject, localVars, redisVars
<1> QED BY <1>1, MoveIsUnlocking

LEMMA TriggerHoldsExtract ==
  ASSUME ExtractInv, NEW t \in Tasks, Trigger(t) \/ TriggerFails(t)
  PROVE  HoldsExtractLock'
<1>0. TypeOK /\ HoldsExtractLock /\ t \in Procs /\ t \notin Workers
  BY Constants DEF ExtractInv
<1>1. CASE WriteArchive(t) \/ RegisterTask(t) \/ EnqueueSAdd(t)
  <2>1. UNCHANGED <<xlock, agent>> /\ \E to : Goto(t, to)
    BY <1>1 DEF WriteArchive, RegisterTask, EnqueueSAdd, redisVars, localVars
  <2> QED BY <1>0, <2>1, MoveIsUnlocking, UnlockingHolds
<1>2. CASE \/ ReadTasks(t, "read", "write") \/ LPush(t, "lpush", "ackUnlock")
           \/ MutexAcquire(t, "lock", "read") \/ MutexRelease(t, "ackUnlock", "acked")
           \/ MutexRelease(t, "failUnlock", "failed")
  BY <1>0, <1>2, CommandIsUnlocking, UnlockingHolds
<1>3. CASE TriggerFails(t)
  BY <1>0, <1>3, RejectIsUnlocking, UnlockingHolds DEF TriggerFails
<1> QED BY <1>1, <1>2, <1>3 DEF Trigger

LEMMA AcquireHoldsExtract ==
  ASSUME ExtractInv, NEW w \in Workers, AcquireExtractLock(w)
  PROVE  HoldsExtractLock'
<1>1. /\ pc' = [pc EXCEPT ![w] = "headLock"] /\ pc[w] = "acquire" /\ agent' = agent
      /\ xlock[agent[w]] = Free /\ xlock' = [xlock EXCEPT ![agent[w]] = w]
      /\ pc \in [Procs -> TriggerLabels \cup WorkerLabels]
      /\ xlock \in [Agents -> Workers \cup {Free, Orphan}]
  BY DEF AcquireExtractLock, Goto, localVars, ExtractInv, TypeOK, LabelsTypeOK, QueueTypeOK
<1>2. agent[w] \in Agents
  BY <1>1, WorkerServes, Constants DEF ExtractInv, Serves
<1>3. ASSUME NEW v \in Workers, pc'[v] \in ConsumeLocked
      PROVE  xlock'[agent'[v]] = v
  <2>1. CASE v = w
    BY <1>1, <1>2, <2>1
  <2>2. CASE v # w
    <3>1. xlock[agent[v]] = v /\ v # Free
      BY <1>1, <1>3, <2>2, Constants DEF ExtractInv, HoldsExtractLock
    <3> QED BY <1>1, <3>1
  <2> QED BY <2>1, <2>2
<1> QED BY <1>3 DEF HoldsExtractLock

LEMMA LeaveHoldsExtract ==
  ASSUME ExtractInv, NEW w \in Workers, NEW from, LeaveAgent(w, from)
  PROVE  HoldsExtractLock'
<1>1. /\ pc' = [pc EXCEPT ![w] = "idle"] /\ agent' = [agent EXCEPT ![w] = NoAgent]
      /\ pc \in [Procs -> TriggerLabels \cup WorkerLabels]
      /\ agent \in [Workers -> Agents \cup {NoAgent}]
      /\ xlock \in [Agents -> Workers \cup {Free, Orphan}]
  BY DEF LeaveAgent, Goto, ExtractInv, TypeOK, LabelsTypeOK, LocalsTypeOK, QueueTypeOK
<1>2. /\ \A a \in Agents : a # agent[w] => xlock'[a] = xlock[a]
      /\ xlock[agent[w]] # w => xlock' = xlock
  BY <1>1 DEF LeaveAgent
<1>3. ASSUME NEW v \in Workers, pc'[v] \in ConsumeLocked
      PROVE  xlock'[agent'[v]] = v
  <2>1. v # w /\ agent'[v] = agent[v] /\ pc[v] \in ConsumeLocked
    BY <1>1, <1>3, Constants DEF ConsumeLocked, ConsumeLabels
  <2>2. xlock[agent[v]] = v
    BY <2>1 DEF ExtractInv, HoldsExtractLock
  <2>3. agent[v] \in Agents
    BY <2>1, WorkerServes, Constants DEF ExtractInv, Serves, ConsumeLocked, ConsumeLabels
  <2> QED BY <1>2, <2>1, <2>2, <2>3
<1> QED BY <1>3 DEF HoldsExtractLock

LEMMA ConsumeHoldsExtract ==
  ASSUME ExtractInv, NEW w \in Workers, Consume(w) \/ TransientFailure(w) \/ WorkerFails(w)
  PROVE  HoldsExtractLock'
<1>0. TypeOK /\ HoldsExtractLock /\ w \in Procs
  BY Constants DEF ExtractInv
<1> USE DEF ConsumeLocked, ConsumeLabels
<1>1. CASE LockContended(w)
  <2>1. /\ UNCHANGED <<xlock, agent>>
        /\ \E to \in {"contendSadd", "contended"} : Goto(w, to)
    BY <1>1 DEF LockContended, redisVars, localVars
  <2> QED BY <1>0, <2>1, MoveIsUnlocking, UnlockingHolds
<1>2. CASE \/ ReadHead(w) \/ ReadArchive(w) \/ Extract(w) \/ PermanentFailure(w)
           \/ DeleteTask(w) \/ FailedTaskGone(w) \/ CountRetry(w) \/ TakeDeadTask(w)
           \/ ReadDlq(w) \/ AppendDlq(w)
  <2>1. /\ UNCHANGED <<xlock, agent>>
        /\ pc[w] \in {"headRead", "readArchive", "extract", "delWrite", "pfWrite", "dlqRead",
                      "dlqWrite"}
    BY <1>2 DEF ReadHead, ReadArchive, Extract, PermanentFailure, DeleteTask, FailedTaskGone,
       CountRetry, TakeDeadTask, ReadDlq, AppendDlq, redisVars, localVars
  <2>2. \E to : Goto(w, to)
    BY <1>2, QueueFollowsMoves
    DEF ReadHead, ReadArchive, Extract, PermanentFailure, DeleteTask, FailedTaskGone,
        CountRetry, TakeDeadTask, ReadDlq, AppendDlq
  <2> QED BY <1>0, <2>1, <2>2, MoveIsUnlocking, UnlockingHolds
<1>3. CASE \/ SAdd(w, "contendSadd", "contendLpush") \/ LPush(w, "contendLpush", "contended")
           \/ SAdd(w, "retrySadd", "retryLpush") \/ LPush(w, "retryLpush", "release")
           \/ SAdd(w, "keepSadd", "keepLpush") \/ LPush(w, "keepLpush", "roundUnlock")
           \/ SRem(w, "headSrem", "headLrem") \/ LRem(w, "headLrem", "emptyUnlock")
           \/ SRem(w, "dropSrem", "dropLrem") \/ LRem(w, "dropLrem", "roundUnlock")
           \/ ReadTasks(w, "delRead", "delWrite") \/ ReadTasks(w, "pfRead", "pfWrite")
  BY <1>0, <1>3, CommandIsUnlocking, UnlockingHolds
<1>4. CASE \/ MutexAcquire(w, "headLock", "headRead") \/ MutexAcquire(w, "delLock", "delRead")
           \/ MutexAcquire(w, "pfLock", "pfRead")
           \/ MutexRelease(w, "emptyUnlock", "release")
           \/ MutexRelease(w, "headUnlock", "readArchive")
           \/ MutexRelease(w, "roundUnlock", IF dead[w] THEN "dlqRead" ELSE "release")
           \/ MutexRelease(w, "errUnlock", "abort")
  BY <1>0, <1>4, CommandIsUnlocking, UnlockingHolds
<1>5. CASE TransientFailure(w) \/ WorkerFails(w)
  BY <1>0, <1>5, RejectIsUnlocking, UnlockingHolds DEF TransientFailure, WorkerFails
<1>6. CASE AcquireExtractLock(w) \/ \E from : LeaveAgent(w, from)
  BY <1>6, AcquireHoldsExtract, LeaveHoldsExtract
<1> QED BY <1>1, <1>2, <1>3, <1>4, <1>5, <1>6 DEF Consume

LEMMA LoopHoldsExtract ==
  ASSUME ExtractInv, NEW w \in Workers, Loop(w) \/ PoolFails(w) \/ SuppressExpires(w)
  PROVE  HoldsExtractLock'
<1>0. TypeOK /\ HoldsExtractLock /\ w \in Procs
  BY Constants DEF ExtractInv
<1> USE DEF ConsumeLocked, ConsumeLabels
<1>1. CASE (\E a \in Agents : Peek(w, a)) \/ LeaveLegacy(w)
  <2>1. xlock' = xlock
    BY <1>1 DEF Peek, LeaveLegacy, redisVars
  <2>2. \/ UNCHANGED <<pc, agent>>
        \/ \E to \in {"purgeSrem", "resolve", "idle"} :
             /\ pc' = [pc EXCEPT ![w] = to]
             /\ \A v \in Workers : v # w => agent'[v] = agent[v]
    BY <1>0, <1>1 DEF Peek, LeaveLegacy, Goto, TypeOK, LocalsTypeOK
  <2>3. pc \in [Procs -> TriggerLabels \cup WorkerLabels]
    BY <1>0 DEF TypeOK, LabelsTypeOK
  <2> QED BY <1>0, <2>1, <2>2, <2>3, UnlockingHolds, Constants DEF Unlocking
<1>2. CASE SuppressExpires(w)
  BY <1>0, <1>2, UnlockingHolds DEF SuppressExpires, Unlocking, redisVars
<1>3. CASE ResolveResources(w)
  BY <1>0, <1>3, MoveIsUnlocking, UnlockingHolds DEF ResolveResources, redisVars, localVars
<1>4. CASE SRem(w, "purgeSrem", "purgeLrem") \/ LRem(w, "purgeLrem", "purged")
  BY <1>0, <1>4, CommandIsUnlocking, UnlockingHolds
<1>5. CASE PoolFails(w)
  BY <1>0, <1>5, RejectIsUnlocking, UnlockingHolds DEF PoolFails
<1> QED BY <1>1, <1>2, <1>3, <1>4, <1>5 DEF Loop

LEMMA PodHoldsExtract ==
  ASSUME ExtractInv, NEW p \in Pods,
         PoolStart(p) \/ ProbePeekStrategy(p) \/ Scan(p)
  PROVE  HoldsExtractLock'
<1>0. HoldsExtractLock
  BY DEF ExtractInv
<1>1. CASE PoolStart(p)
  <2>1. /\ xlock' = xlock /\ agent' = agent
        /\ pc' = [x \in Procs |-> IF x \in WorkersOf(p) THEN "idle" ELSE pc[x]]
    BY <1>1 DEF PoolStart, redisVars, localVars
  <2> QED BY <1>0, <2>1, UnlockingHolds, Constants
          DEF Unlocking, WorkersOf, ConsumeLocked, ConsumeLabels
<1>2. CASE ProbePeekStrategy(p) \/ Scan(p)
  <2>1. UNCHANGED <<xlock, pc, agent>>
    BY <1>2 DEF ProbePeekStrategy, Scan, ScanMembers, ScanCheck, ScanSRem, ScanLRem,
       ScanLPush, ScanEnd, redisVars, localVars
  <2> QED BY <1>0, <2>1, UnlockingHolds DEF Unlocking
<1> QED BY <1>1, <1>2

LEMMA EnvironmentHoldsExtract ==
  ASSUME ExtractInv, "lockLoss" \notin FaultKinds, Environment
  PROVE  HoldsExtractLock'
<1>0. TypeOK /\ HoldsExtractLock
  BY DEF ExtractInv
<1>1. ASSUME NEW p \in Pods, Crash(p)
      PROVE  HoldsExtractLock'
  <2> DEFINE gone == {x \in Procs : PodOf[x] = p /\ pc[x] \notin {"new", "acked", "failed"}}
  <2>1. /\ xlock' = [a \in Agents |-> IF xlock[a] \in gone THEN Orphan ELSE xlock[a]]
        /\ pc' = [x \in Procs |-> IF x \notin gone THEN pc[x]
                                  ELSE IF x \in Workers THEN "off" ELSE "failed"]
        /\ agent' = [w \in Workers |-> IF w \in gone THEN NoAgent ELSE agent[w]]
    BY <1>1 DEF Crash
  <2> HIDE DEF gone
  <2>2. ASSUME NEW w \in Workers, pc'[w] \in ConsumeLocked
        PROVE  xlock'[agent'[w]] = w
    <3>1. pc[w] \in ConsumeLocked /\ agent'[w] = agent[w] /\ w \notin gone
      BY <2>1, <2>2, Constants DEF ConsumeLocked, ConsumeLabels
    <3>2. agent[w] \in Agents
      BY <1>0, <3>1, WorkerServes DEF ConsumeLocked, ConsumeLabels
    <3> QED BY <1>0, <2>1, <3>1, <3>2 DEF HoldsExtractLock
  <2> QED BY <2>2 DEF HoldsExtractLock
<1>2. ASSUME NEW a \in Agents, ExtractLockExpires(a)
      PROVE  HoldsExtractLock'
  <2>1. xlock[a] = Orphan /\ xlock' = [xlock EXCEPT ![a] = Free] /\ UNCHANGED <<pc, agent>>
    BY <1>2 DEF ExtractLockExpires, Fault, localVars
  <2>2. xlock \in [Agents -> Workers \cup {Free, Orphan}]
    BY <1>0 DEF TypeOK, QueueTypeOK
  <2>3. ASSUME NEW w \in Workers, pc[w] \in ConsumeLocked
        PROVE  xlock'[agent[w]] = w
    <3>1. xlock[agent[w]] = w /\ w # Orphan
      BY <1>0, <2>3, Constants DEF HoldsExtractLock
    <3> QED BY <2>1, <2>2, <3>1
  <2> QED BY <2>1, <2>3 DEF HoldsExtractLock
<1>3. CASE \/ \E a \in Agents : MutexExpires(a)
           \/ \E t \in Tasks : ArchiveCollected(t)
  <2>1. UNCHANGED <<xlock, pc, agent>>
    BY <1>3 DEF MutexExpires, ArchiveCollected, redisVars, localVars
  <2> QED BY <1>0, <2>1, UnlockingHolds DEF Unlocking
<1> QED BY <1>1, <1>2, <1>3 DEF Environment

LEMMA ExtractInvStep ==
  ASSUME "lockLoss" \notin FaultKinds, ExtractInv, [Next]_vars
  PROVE  ExtractInv'
<1> SUFFICES HoldsExtractLock'
  BY NextType DEF ExtractInv
<1>1. CASE \E t \in Tasks : Trigger(t) \/ TriggerFails(t)
  BY <1>1, TriggerHoldsExtract
<1>2. CASE \E w \in Workers :
             \/ Loop(w) \/ PoolFails(w) \/ Consume(w) \/ TransientFailure(w)
             \/ WorkerFails(w) \/ SuppressExpires(w)
  BY <1>2, LoopHoldsExtract, ConsumeHoldsExtract
<1>3. CASE \E p \in Pods :
             PoolStart(p) \/ ProbePeekStrategy(p) \/ Scan(p)
  BY <1>3, PodHoldsExtract
<1>4. CASE Environment
  BY <1>4, EnvironmentHoldsExtract
<1>5. CASE UNCHANGED vars
  BY <1>5, UnlockingHolds DEF vars, redisVars, localVars, Unlocking, ExtractInv
<1> QED BY <1>1, <1>2, <1>3, <1>4, <1>5 DEF Next

\* Two workers never extract one agent at the same time, for any number of
\* pods and loops and under every fault but a renewal that comes too late:
\* crashes, failing releases and expiring tasks-mutexes do not break it.
THEOREM ExtractCorrect ==
  ASSUME "lockLoss" \notin FaultKinds
  PROVE  Spec => []ExtractExclusion
<1>1. Init => ExtractInv
  <2> SUFFICES ASSUME Init PROVE HoldsExtractLock
    BY InitType DEF ExtractInv
  <2> QED BY Constants DEF Init, HoldsExtractLock, ConsumeLocked, ConsumeLabels
<1>2. ExtractInv /\ [Next]_vars => ExtractInv'
  BY ExtractInvStep
<1>3. ExtractInv => ExtractExclusion
  BY DEF ExtractInv, HoldsExtractLock, ExtractExclusion
<1> QED BY <1>1, <1>2, <1>3, PTL DEF Spec

-----------------------------------------------------------------------------
(* The converse: a key that names a process is that process's own, and only *)
(* the process takes it away again.                                         *)

\* Labels at which a worker may own an extract-lock.
MayOwn == ConsumeLocked \cup {"abort"}

KeysHeld ==
  /\ \A a \in Agents, p \in Procs : mutex[a] = p => InCritical(p) /\ Serves(p) = a
  /\ \A a \in Agents, w \in Workers : xlock[a] = w => pc[w] \in MayOwn /\ agent[w] = a

KeyInv == TypeOK /\ KeysHeld

\* No key changes and nobody leaves the labels at which it may own one.
KeysStill ==
  /\ UNCHANGED <<mutex, xlock>>
  /\ \A p \in Procs : InCritical(p) => InCritical(p)' /\ Serves(p)' = Serves(p)
  /\ \A w \in Workers : pc[w] \in MayOwn => pc'[w] \in MayOwn /\ agent'[w] = agent[w]

LEMMA StillKeys ==
  ASSUME KeysHeld, KeysStill
  PROVE  KeysHeld' /\ OwnKeyUnlocked
BY DEF KeysHeld, KeysStill, OwnKeyUnlocked

LEMMA MoveIsKeysStill ==
  ASSUME TypeOK, NEW p \in Procs, NEW to, Goto(p, to), UNCHANGED <<mutex, xlock, agent>>,
         InCritical(p) => CriticalAt(p, to),
         p \in Workers /\ pc[p] \in MayOwn => to \in MayOwn
  PROVE  KeysStill
<1>1. pc' = [pc EXCEPT ![p] = to] /\ pc \in [Procs -> TriggerLabels \cup WorkerLabels]
  BY DEF Goto, TypeOK, LabelsTypeOK
<1>2. ASSUME NEW q \in Procs, InCritical(q)
      PROVE  InCritical(q)' /\ Serves(q)' = Serves(q)
  BY <1>1, <1>2, Constants DEF InCritical, CriticalAt, Serves
<1>3. ASSUME NEW w \in Workers, pc[w] \in MayOwn
      PROVE  pc'[w] \in MayOwn /\ agent'[w] = agent[w]
  BY <1>1, <1>3, Constants
<1> QED BY <1>2, <1>3 DEF KeysStill

LEMMA CommandIsKeysStill ==
  ASSUME TypeOK, NEW p \in Procs, NEW from, NEW to, CriticalAt(p, from) => CriticalAt(p, to),
         p \in Workers /\ from \in MayOwn => to \in MayOwn,
         \/ SAdd(p, from, to) \/ LPush(p, from, to) \/ SRem(p, from, to)
         \/ LRem(p, from, to) \/ ReadTasks(p, from, to)
  PROVE  KeysStill
<1>1. pc[p] = from /\ Goto(p, to) /\ UNCHANGED <<mutex, xlock, agent>>
  BY DEF SAdd, LPush, SRem, LRem, ReadTasks, redisVars, localVars
<1> QED BY <1>1, MoveIsKeysStill DEF InCritical, CriticalAt

LEMMA RejectIsKeysStill ==
  ASSUME TypeOK, NEW p \in Procs, NEW kind, NEW from, NEW to,
         \A l \in from : CriticalAt(p, l) => CriticalAt(p, to),
         \A l \in from : p \in Workers /\ l \in MayOwn => to \in MayOwn,
         Reject(p, kind, from, to)
  PROVE  KeysStill
<1>1. pc[p] \in from /\ Goto(p, to) /\ UNCHANGED <<mutex, xlock, agent>>
  BY DEF Reject, redisVars, localVars
<1> QED BY <1>1, MoveIsKeysStill DEF InCritical, CriticalAt

LEMMA AcquireKeys ==
  ASSUME KeyInv, NEW p \in Procs, Serves(p) \in Agents, NEW from, NEW to,
         ~CriticalAt(p, from), CriticalAt(p, to),
         p \in Workers /\ from \in MayOwn => to \in MayOwn, MutexAcquire(p, from, to)
  PROVE  KeysHeld' /\ OwnKeyUnlocked
<1>1. /\ pc[p] = from /\ pc' = [pc EXCEPT ![p] = to]
      /\ mutex[Serves(p)] = Free /\ mutex' = [mutex EXCEPT ![Serves(p)] = p]
      /\ UNCHANGED <<xlock, agent>>
      /\ pc \in [Procs -> TriggerLabels \cup WorkerLabels]
      /\ mutex \in [Agents -> Procs \cup {Free, Orphan}]
  BY DEF MutexAcquire, Goto, localVars, KeyInv, TypeOK, LabelsTypeOK, QueueTypeOK
<1>2. ASSUME NEW a \in Agents, NEW q \in Procs, mutex'[a] = q
      PROVE  InCritical(q)' /\ Serves(q)' = a
  <2>1. Serves(q)' = Serves(q)
    BY <1>1 DEF Serves
  <2>2. CASE a = Serves(p)
    BY <1>1, <1>2, <2>1, <2>2 DEF InCritical, CriticalAt
  <2>3. CASE a # Serves(p)
    <3>1. InCritical(q) /\ Serves(q) = a
      BY <1>1, <1>2, <2>3 DEF KeyInv, KeysHeld
    <3>2. q # p
      BY <2>3, <3>1
    <3> QED BY <1>1, <2>1, <3>1, <3>2 DEF InCritical
  <2> QED BY <2>2, <2>3
<1>3. ASSUME NEW a \in Agents, NEW w \in Workers, xlock'[a] = w
      PROVE  pc'[w] \in MayOwn /\ agent'[w] = a
  BY <1>1, <1>3, Constants DEF KeyInv, KeysHeld
<1>4. OwnKeyUnlocked
  BY <1>1, Constants DEF OwnKeyUnlocked
<1> QED BY <1>2, <1>3, <1>4 DEF KeysHeld

LEMMA ReleaseKeys ==
  ASSUME KeyInv, NEW p \in Procs, Serves(p) \in Agents, NEW from, NEW to,
         CriticalAt(p, from), ~CriticalAt(p, to),
         p \in Workers => to \in MayOwn, MutexRelease(p, from, to)
  PROVE  KeysHeld' /\ OwnKeyUnlocked
<1>1. /\ pc[p] = from /\ pc' = [pc EXCEPT ![p] = to]
      /\ UNCHANGED <<xlock, agent>>
      /\ pc \in [Procs -> TriggerLabels \cup WorkerLabels]
  BY DEF MutexRelease, Goto, KeyInv, TypeOK, LabelsTypeOK
<1>2. /\ mutex \in [Agents -> Procs \cup {Free, Orphan}]
      /\ \A a \in Agents : a # Serves(p) => mutex'[a] = mutex[a]
      /\ mutex[Serves(p)] # p => mutex'[Serves(p)] = mutex[Serves(p)]
      /\ mutex[Serves(p)] = p => mutex'[Serves(p)] \in {Free, Orphan}
  BY DEF MutexRelease, KeyInv, TypeOK, QueueTypeOK
<1>3. ASSUME NEW a \in Agents, NEW q \in Procs, mutex'[a] = q
      PROVE  mutex[a] = q /\ q # p
  <2>1. mutex[a] = q
    BY <1>2, <1>3, Constants
  <2>2. q # p
    BY <1>2, <1>3, <2>1, Constants DEF KeyInv, KeysHeld
  <2> QED BY <2>1, <2>2
<1>4. ASSUME NEW a \in Agents, NEW q \in Procs, mutex'[a] = q
      PROVE  InCritical(q)' /\ Serves(q)' = a
  BY <1>1, <1>3, <1>4 DEF KeyInv, KeysHeld, InCritical, Serves
<1>5. ASSUME NEW a \in Agents, NEW w \in Workers, xlock'[a] = w
      PROVE  pc'[w] \in MayOwn /\ agent'[w] = a
  BY <1>1, <1>5, Constants DEF KeyInv, KeysHeld
<1>6. ASSUME NEW a \in Agents, NEW q \in Procs, mutex[a] = q, mutex'[a] # q
      PROVE  InCritical(q) /\ ~InCritical(q)'
  <2>1. q = p
    BY <1>2, <1>6
  <2> QED BY <1>1, <2>1 DEF InCritical, CriticalAt
<1>7. OwnKeyUnlocked
  BY <1>1, <1>6 DEF OwnKeyUnlocked
<1> QED BY <1>4, <1>5, <1>7 DEF KeysHeld

LEMMA TriggerKeys ==
  ASSUME KeyInv, NEW t \in Tasks, Trigger(t) \/ TriggerFails(t)
  PROVE  KeysHeld' /\ OwnKeyUnlocked
<1>0. /\ TypeOK /\ KeysHeld /\ t \in Procs /\ Serves(t) \in Agents
      /\ t \notin Workers
  BY TriggerServes, Constants DEF KeyInv
<1> USE DEF CriticalAt, TriggerCritical
<1>1. CASE WriteArchive(t) \/ RegisterTask(t) \/ EnqueueSAdd(t)
  <2>1. /\ UNCHANGED <<mutex, xlock, agent>>
        /\ \E to \in {"lock", "sadd", "lpush", "ackUnlock"} :
             Goto(t, to) /\ (InCritical(t) => to # "lock")
    BY <1>0, <1>1
    DEF WriteArchive, RegisterTask, EnqueueSAdd, redisVars, localVars, InCritical
  <2> QED BY <1>0, <2>1, MoveIsKeysStill, StillKeys
<1>2. CASE ReadTasks(t, "read", "write") \/ LPush(t, "lpush", "ackUnlock")
  BY <1>0, <1>2, CommandIsKeysStill, StillKeys
<1>3. CASE MutexAcquire(t, "lock", "read")
  BY <1>0, <1>3, AcquireKeys
<1>4. CASE MutexRelease(t, "ackUnlock", "acked") \/ MutexRelease(t, "failUnlock", "failed")
  BY <1>0, <1>4, ReleaseKeys
<1>5. CASE TriggerFails(t)
  BY <1>0, <1>5, RejectIsKeysStill, StillKeys DEF TriggerFails
<1> QED BY <1>1, <1>2, <1>3, <1>4, <1>5 DEF Trigger

LEMMA AcquireExtractKeys ==
  ASSUME KeyInv, NEW w \in Workers, AcquireExtractLock(w)
  PROVE  KeysHeld' /\ OwnKeyUnlocked
<1>1. /\ pc' = [pc EXCEPT ![w] = "headLock"] /\ pc[w] = "acquire"
      /\ UNCHANGED <<mutex, agent>>
      /\ xlock[agent[w]] = Free /\ xlock' = [xlock EXCEPT ![agent[w]] = w]
      /\ pc \in [Procs -> TriggerLabels \cup WorkerLabels]
      /\ xlock \in [Agents -> Workers \cup {Free, Orphan}]
  BY DEF AcquireExtractLock, Goto, localVars, KeyInv, TypeOK, LabelsTypeOK, QueueTypeOK
<1>2. agent[w] \in Agents /\ w \notin Tasks /\ w \in Procs
  BY <1>1, WorkerServes, Constants DEF KeyInv
<1>3. ASSUME NEW a \in Agents, NEW q \in Procs, mutex'[a] = q
      PROVE  InCritical(q)' /\ Serves(q)' = a
  BY <1>1, <1>2, <1>3 DEF KeyInv, KeysHeld, InCritical, Serves, ConsumeCritical
<1>4. ASSUME NEW a \in Agents, NEW v \in Workers, xlock'[a] = v
      PROVE  pc'[v] \in MayOwn /\ agent'[v] = a
  <2>1. CASE a = agent[w]
    BY <1>1, <1>2, <1>4, <2>1 DEF MayOwn, ConsumeLocked, ConsumeLabels
  <2>2. CASE a # agent[w]
    <3>1. pc[v] \in MayOwn /\ agent[v] = a
      BY <1>1, <1>4, <2>2 DEF KeyInv, KeysHeld
    <3> QED BY <1>1, <2>2, <3>1, Constants
  <2> QED BY <2>1, <2>2
<1>5. OwnKeyUnlocked
  BY <1>1, <1>2, Constants DEF OwnKeyUnlocked
<1> QED BY <1>3, <1>4, <1>5 DEF KeysHeld

LEMMA LeaveKeys ==
  ASSUME KeyInv, NEW w \in Workers, NEW from \in {"contended", "release", "abort"},
         LeaveAgent(w, from)
  PROVE  KeysHeld' /\ OwnKeyUnlocked
<1>1. /\ pc[w] = from /\ pc' = [pc EXCEPT ![w] = "idle"]
      /\ agent' = [agent EXCEPT ![w] = NoAgent] /\ mutex' = mutex
      /\ pc \in [Procs -> TriggerLabels \cup WorkerLabels]
      /\ agent \in [Workers -> Agents \cup {NoAgent}]
      /\ xlock \in [Agents -> Workers \cup {Free, Orphan}]
  BY DEF LeaveAgent, Goto, KeyInv, TypeOK, LabelsTypeOK, LocalsTypeOK, QueueTypeOK
<1>2. w \notin Tasks /\ w \in Procs /\ agent[w] \in Agents
  BY <1>1, Constants, WorkerServes DEF KeyInv
<1>3. /\ \A a \in Agents : a # agent[w] => xlock'[a] = xlock[a]
      /\ xlock[agent[w]] # w => xlock' = xlock
      /\ xlock[agent[w]] = w => xlock'[agent[w]] \in {Free, Orphan}
  BY <1>1, <1>2 DEF LeaveAgent
<1>4. ASSUME NEW a \in Agents, NEW q \in Procs, mutex'[a] = q
      PROVE  InCritical(q)' /\ Serves(q)' = a
  <2>1. InCritical(q) /\ Serves(q) = a /\ q # w
    BY <1>1, <1>2, <1>4 DEF KeyInv, KeysHeld, InCritical, ConsumeCritical
  <2> QED BY <1>1, <2>1 DEF InCritical, Serves
<1>5. ASSUME NEW a \in Agents, NEW v \in Workers, xlock'[a] = v
      PROVE  pc'[v] \in MayOwn /\ agent'[v] = a
  <2>1. xlock[a] = v /\ v # w
    BY <1>2, <1>3, <1>5, Constants DEF KeyInv, KeysHeld
  <2>2. pc[v] \in MayOwn /\ agent[v] = a
    BY <2>1 DEF KeyInv, KeysHeld
  <2> QED BY <1>1, <2>1, <2>2
<1>6. ASSUME NEW a \in Agents, NEW p \in Procs, xlock[a] = p, xlock'[a] # p
      PROVE  pc[p] # "idle" /\ pc'[p] = "idle"
  <2>1. a = agent[w] /\ p = w
    BY <1>3, <1>6
  <2> QED BY <1>1, <1>2, <2>1
<1>7. OwnKeyUnlocked
  BY <1>1, <1>6 DEF OwnKeyUnlocked
<1> QED BY <1>4, <1>5, <1>7 DEF KeysHeld

LEMMA ConsumeKeys ==
  ASSUME KeyInv, NEW w \in Workers, Consume(w) \/ TransientFailure(w) \/ WorkerFails(w)
  PROVE  KeysHeld' /\ OwnKeyUnlocked
<1>0. TypeOK /\ KeysHeld /\ w \in Procs /\ w \notin Tasks
  BY Constants DEF KeyInv
<1> USE DEF CriticalAt, ConsumeCritical, MayOwn, ConsumeLocked, ConsumeLabels
<1>1. CASE \/ LockContended(w) \/ ReadArchive(w) \/ Extract(w) \/ PermanentFailure(w)
           \/ ReadDlq(w) \/ AppendDlq(w)
  <2>1. /\ UNCHANGED <<mutex, xlock, agent>>
        /\ \/ pc[w] = "acquire" /\ \E to : Goto(w, to)
           \/ /\ pc[w] \in {"readArchive", "extract", "dlqRead", "dlqWrite"}
              /\ \E to \in {"extract", "delLock", "pfLock", "dlqWrite", "release"} : Goto(w, to)
    BY <1>1 DEF LockContended, ReadArchive, Extract, PermanentFailure, ReadDlq, AppendDlq,
       redisVars, localVars
  <2>2. ~InCritical(w)
    BY <1>0, <2>1 DEF InCritical
  <2> QED BY <1>0, <2>1, <2>2, MoveIsKeysStill, StillKeys
<1>2. CASE \/ ReadHead(w) \/ DeleteTask(w) \/ FailedTaskGone(w) \/ CountRetry(w)
           \/ TakeDeadTask(w)
  <2>1. UNCHANGED <<mutex, xlock, agent>>
    BY <1>2 DEF ReadHead, DeleteTask, FailedTaskGone, CountRetry, TakeDeadTask, redisVars,
       localVars
  <2>2. \E to \in {"headSrem", "headUnlock", "roundUnlock", "keepSadd", "dropSrem"} : Goto(w, to)
    BY <1>2, QueueFollowsMoves DEF ReadHead, DeleteTask, FailedTaskGone, CountRetry, TakeDeadTask
  <2> QED BY <1>0, <2>1, <2>2, MoveIsKeysStill, StillKeys
<1>3. CASE \/ SAdd(w, "contendSadd", "contendLpush") \/ LPush(w, "contendLpush", "contended")
           \/ SAdd(w, "retrySadd", "retryLpush") \/ LPush(w, "retryLpush", "release")
           \/ SAdd(w, "keepSadd", "keepLpush") \/ LPush(w, "keepLpush", "roundUnlock")
           \/ SRem(w, "headSrem", "headLrem") \/ LRem(w, "headLrem", "emptyUnlock")
           \/ SRem(w, "dropSrem", "dropLrem") \/ LRem(w, "dropLrem", "roundUnlock")
           \/ ReadTasks(w, "delRead", "delWrite") \/ ReadTasks(w, "pfRead", "pfWrite")
  BY <1>0, <1>3, CommandIsKeysStill, StillKeys
<1>4. CASE \/ MutexAcquire(w, "headLock", "headRead") \/ MutexAcquire(w, "delLock", "delRead")
           \/ MutexAcquire(w, "pfLock", "pfRead")
  <2>1. Serves(w) \in Agents
    BY <1>0, <1>4, WorkerServes DEF MutexAcquire
  <2> QED BY <1>0, <1>4, <2>1, AcquireKeys
<1>5. CASE \/ MutexRelease(w, "emptyUnlock", "release")
           \/ MutexRelease(w, "headUnlock", "readArchive")
           \/ MutexRelease(w, "roundUnlock", IF dead[w] THEN "dlqRead" ELSE "release")
           \/ MutexRelease(w, "errUnlock", "abort")
  <2>1. Serves(w) \in Agents
    BY <1>0, <1>5, WorkerServes DEF MutexRelease
  <2> QED BY <1>0, <1>5, <2>1, ReleaseKeys
<1>6. CASE AcquireExtractLock(w)
  BY <1>6, AcquireExtractKeys
<1>7. CASE LeaveAgent(w, "contended") \/ LeaveAgent(w, "release") \/ LeaveAgent(w, "abort")
  BY <1>7, LeaveKeys
<1>8. CASE TransientFailure(w) \/ WorkerFails(w)
  BY <1>0, <1>8, RejectIsKeysStill, StillKeys DEF TransientFailure, WorkerFails
<1> QED BY <1>1, <1>2, <1>3, <1>4, <1>5, <1>6, <1>7, <1>8 DEF Consume

LEMMA LoopKeys ==
  ASSUME KeyInv, NEW w \in Workers, Loop(w) \/ PoolFails(w) \/ SuppressExpires(w)
  PROVE  KeysHeld' /\ OwnKeyUnlocked
<1>0. TypeOK /\ KeysHeld /\ w \in Procs /\ w \notin Tasks
  BY Constants DEF KeyInv
<1> USE DEF CriticalAt, ConsumeCritical, MayOwn, ConsumeLocked, ConsumeLabels
<1>1. CASE (\E a \in Agents : Peek(w, a)) \/ LeaveLegacy(w)
  <2>1. UNCHANGED <<mutex, xlock>> /\ pc[w] \in {"idle", "purged"}
    BY <1>1 DEF Peek, LeaveLegacy, redisVars
  <2>2. /\ \A x \in Procs : x # w => pc'[x] = pc[x]
        /\ \A v \in Workers : v # w => agent'[v] = agent[v]
    BY <1>0, <1>1 DEF Peek, LeaveLegacy, Goto, TypeOK, LocalsTypeOK, LabelsTypeOK
  <2>3. ASSUME NEW q \in Procs, InCritical(q)
        PROVE  InCritical(q)' /\ Serves(q)' = Serves(q)
    BY <1>0, <2>1, <2>2, <2>3, Constants DEF InCritical, Serves
  <2>4. ASSUME NEW v \in Workers, pc[v] \in MayOwn
        PROVE  pc'[v] \in MayOwn /\ agent'[v] = agent[v]
    BY <2>1, <2>2, <2>4, Constants
  <2> QED BY <1>0, <2>1, <2>3, <2>4, StillKeys DEF KeysStill
<1>2. CASE SuppressExpires(w)
  BY <1>0, <1>2, StillKeys DEF SuppressExpires, KeysStill, InCritical, Serves, redisVars
<1>3. CASE ResolveResources(w)
  <2>1. pc[w] = "resolve" /\ Goto(w, "acquire") /\ UNCHANGED <<mutex, xlock, agent>>
    BY <1>3 DEF ResolveResources, redisVars, localVars
  <2> QED BY <1>0, <2>1, MoveIsKeysStill, StillKeys DEF InCritical
<1>4. CASE SRem(w, "purgeSrem", "purgeLrem") \/ LRem(w, "purgeLrem", "purged")
  BY <1>0, <1>4, CommandIsKeysStill, StillKeys
<1>5. CASE PoolFails(w)
  BY <1>0, <1>5, RejectIsKeysStill, StillKeys DEF PoolFails
<1> QED BY <1>1, <1>2, <1>3, <1>4, <1>5 DEF Loop

\* The loops of a pod that does not run are off: none of them owns a key that
\* a start of the pod could take from it.
DownIsOff == \A w \in Workers : PodOf[w] \notin up => pc[w] = "off"

LEMMA PodKeys ==
  ASSUME KeyInv, DownIsOff, NEW p \in Pods,
         PoolStart(p) \/ ProbePeekStrategy(p) \/ Scan(p)
  PROVE  KeysHeld' /\ OwnKeyUnlocked
<1>0. TypeOK /\ KeysHeld
  BY DEF KeyInv
<1>1. CASE PoolStart(p)
  <2>1. /\ UNCHANGED <<mutex, xlock, agent>>
        /\ pc' = [x \in Procs |-> IF x \in WorkersOf(p) THEN "idle" ELSE pc[x]]
        /\ \A w \in WorkersOf(p) : pc[w] = "off"
    BY <1>1 DEF PoolStart, redisVars, localVars, DownIsOff, WorkersOf
  <2> QED BY <1>0, <2>1, StillKeys, Constants
          DEF KeysStill, InCritical, Serves, WorkersOf, ConsumeCritical, MayOwn, ConsumeLocked,
              ConsumeLabels
<1>2. CASE ProbePeekStrategy(p) \/ Scan(p)
  <2>1. UNCHANGED <<mutex, xlock, pc, agent>>
    BY <1>2 DEF ProbePeekStrategy, Scan, ScanMembers, ScanCheck, ScanSRem, ScanLRem,
       ScanLPush, ScanEnd, redisVars, localVars
  <2> QED BY <1>0, <2>1, StillKeys DEF KeysStill, InCritical, Serves
<1> QED BY <1>1, <1>2

LEMMA EnvironmentKeys ==
  ASSUME KeyInv, Environment
  PROVE  KeysHeld' /\ OwnKeyUnlocked
<1>0. TypeOK /\ KeysHeld /\ faults \in Nat
  BY DEF KeyInv, TypeOK, HistoryTypeOK
<1>1. ASSUME NEW p \in Pods, Crash(p)
      PROVE  KeysHeld' /\ OwnKeyUnlocked
  <2> DEFINE gone == {x \in Procs : PodOf[x] = p /\ pc[x] \notin {"new", "acked", "failed"}}
  <2>1. /\ mutex' = [a \in Agents |-> IF mutex[a] \in gone THEN Orphan ELSE mutex[a]]
        /\ xlock' = [a \in Agents |-> IF xlock[a] \in gone THEN Orphan ELSE xlock[a]]
        /\ pc' = [x \in Procs |-> IF x \notin gone THEN pc[x]
                                  ELSE IF x \in Workers THEN "off" ELSE "failed"]
        /\ agent' = [w \in Workers |-> IF w \in gone THEN NoAgent ELSE agent[w]]
        /\ faults' = faults + 1
    BY <1>1 DEF Crash, Fault
  <2> HIDE DEF gone
  <2>2. ASSUME NEW a \in Agents, NEW q \in Procs, mutex'[a] = q
        PROVE  InCritical(q)' /\ Serves(q)' = a
    <3>1. mutex[a] = q /\ q \notin gone
      BY <2>1, <2>2, Constants
    <3> QED BY <1>0, <2>1, <3>1 DEF KeysHeld, InCritical, Serves
  <2>3. ASSUME NEW a \in Agents, NEW w \in Workers, xlock'[a] = w
        PROVE  pc'[w] \in MayOwn /\ agent'[w] = a
    <3>1. xlock[a] = w /\ w \notin gone
      BY <2>1, <2>3, Constants
    <3> QED BY <1>0, <2>1, <3>1, Constants DEF KeysHeld
  <2>4. OwnKeyUnlocked
    BY <1>0, <2>1 DEF OwnKeyUnlocked
  <2> QED BY <2>2, <2>3, <2>4 DEF KeysHeld
<1>2. ASSUME NEW a \in Agents, MutexExpires(a) \/ ExtractLockExpires(a)
      PROVE  KeysHeld' /\ OwnKeyUnlocked
  <2>1. /\ mutex' = mutex \/ mutex' = [mutex EXCEPT ![a] = Free]
        /\ xlock' = xlock \/ xlock' = [xlock EXCEPT ![a] = Free]
        /\ faults' = faults => mutex' = mutex \/ mutex[a] = Orphan
        /\ faults' = faults => xlock' = xlock \/ xlock[a] = Orphan
        /\ UNCHANGED <<pc, agent>>
    BY <1>0, <1>2 DEF MutexExpires, ExtractLockExpires, Fault, localVars
  <2>2. /\ mutex \in [Agents -> Procs \cup {Free, Orphan}]
        /\ xlock \in [Agents -> Workers \cup {Free, Orphan}]
    BY <1>0 DEF TypeOK, QueueTypeOK
  <2>3. KeysHeld'
    BY <1>0, <2>1, <2>2, Constants DEF KeysHeld, InCritical, Serves
  <2>4. ASSUME faults' = faults, NEW b \in Agents, NEW p \in Procs
        PROVE  ~(mutex[b] = p /\ mutex'[b] # p) /\ ~(xlock[b] = p /\ xlock'[b] # p)
    <3>1. CASE b = a
      <4>1. mutex' = mutex \/ mutex[b] \notin Procs
        BY <2>1, <2>4, <3>1, Constants
      <4>2. xlock' = xlock \/ xlock[b] \notin Procs
        BY <2>1, <2>4, <3>1, Constants
      <4> QED BY <2>4, <4>1, <4>2
    <3>2. CASE b # a
      BY <2>1, <2>2, <3>2
    <3> QED BY <3>1, <3>2
  <2> QED BY <2>3, <2>4 DEF OwnKeyUnlocked
<1>3. CASE \E t \in Tasks : ArchiveCollected(t)
  <2>1. UNCHANGED <<mutex, xlock, pc, agent>>
    BY <1>3 DEF ArchiveCollected, redisVars, localVars
  <2> QED BY <1>0, <2>1, StillKeys DEF KeysStill, InCritical, Serves
<1> QED BY <1>1, <1>2, <1>3 DEF Environment

\* Only a start brings a loop from "off" to life.
LEMMA DownStaysOff ==
  ASSUME TypeOK, DownIsOff, [Next]_vars
  PROVE  DownIsOff'
<1>0. pc \in [Procs -> TriggerLabels \cup WorkerLabels]
  BY DEF TypeOK, LabelsTypeOK
<1>1. ASSUME NEW t \in Tasks, Trigger(t) \/ TriggerFails(t)
      PROVE  DownIsOff'
  <2>1. up' = up
    <3>1. CASE WriteArchive(t) \/ RegisterTask(t) \/ EnqueueSAdd(t)
      BY <3>1 DEF WriteArchive, RegisterTask, EnqueueSAdd, podVars
    <3>2. CASE \/ MutexAcquire(t, "lock", "read") \/ ReadTasks(t, "read", "write")
               \/ LPush(t, "lpush", "ackUnlock")
      BY <3>2 DEF MutexAcquire, ReadTasks, LPush, podVars
    <3>3. CASE \/ MutexRelease(t, "ackUnlock", "acked")
               \/ MutexRelease(t, "failUnlock", "failed")
      BY <3>3 DEF MutexRelease, podVars
    <3>4. CASE TriggerFails(t)
      BY <3>4 DEF TriggerFails, Reject, podVars
    <3> QED BY <1>1, <3>1, <3>2, <3>3, <3>4 DEF Trigger
  <2>2. \A w \in Workers : pc'[w] = pc[w]
    <3>1. \E to : Goto(t, to)
      BY <1>1 DEF Trigger, TriggerFails, WriteArchive, MutexAcquire, ReadTasks, RegisterTask,
         EnqueueSAdd, LPush, MutexRelease, Reject
    <3> QED BY <1>0, <3>1, Constants DEF Goto
  <2> QED BY <2>1, <2>2 DEF DownIsOff
<1>2. ASSUME NEW w \in Workers,
             \/ Loop(w) \/ PoolFails(w) \/ Consume(w) \/ TransientFailure(w) \/ WorkerFails(w)
             \/ SuppressExpires(w)
      PROVE  DownIsOff'
  <2>1. CASE Loop(w) \/ PoolFails(w) \/ SuppressExpires(w)
    <3>1. CASE \/ \E a \in Agents : Peek(w, a)
               \/ ResolveResources(w) \/ LeaveLegacy(w)
      <4>1. up' = up /\ (pc' = pc \/ (pc[w] # "off" /\ \E to : Goto(w, to)))
        BY <3>1 DEF Peek, ResolveResources, LeaveLegacy, podVars
      <4> QED BY <1>0, <4>1, Constants DEF DownIsOff, Goto
    <3>2. CASE \/ SRem(w, "purgeSrem", "purgeLrem") \/ LRem(w, "purgeLrem", "purged")
               \/ PoolFails(w)
      <4>1. up' = up /\ pc[w] # "off" /\ \E to : Goto(w, to)
        BY <3>2 DEF SRem, LRem, PoolFails, Reject, podVars
      <4> QED BY <1>0, <4>1, Constants DEF DownIsOff, Goto
    <3>3. CASE SuppressExpires(w)
      BY <3>3 DEF SuppressExpires, podVars, DownIsOff
    <3> QED BY <2>1, <3>1, <3>2, <3>3 DEF Loop
  <2>2. CASE TransientFailure(w) \/ WorkerFails(w)
    <3>1. up' = up /\ pc[w] # "off" /\ \E to : Goto(w, to)
      BY <2>2 DEF TransientFailure, WorkerFails, Reject, podVars
    <3> QED BY <1>0, <3>1, Constants DEF DownIsOff, Goto
  <2>3. CASE Consume(w)
    <3>1. up' = up /\ pc[w] # "off" /\ \E to : Goto(w, to)
      BY <2>3, QueueFollowsMoves
      DEF Consume, AcquireExtractLock, LockContended, SAdd, LPush, SRem, LRem, MutexAcquire,
          MutexRelease, ReadTasks, ReadHead, ReadArchive, Extract, PermanentFailure, DeleteTask,
          FailedTaskGone, CountRetry, TakeDeadTask, ReadDlq, AppendDlq, LeaveAgent, podVars
    <3> QED BY <1>0, <3>1, Constants DEF DownIsOff, Goto
  <2> QED BY <1>2, <2>1, <2>2, <2>3
<1>3. ASSUME NEW p \in Pods,
             PoolStart(p) \/ ProbePeekStrategy(p) \/ Scan(p)
      PROVE  DownIsOff'
  <2>1. CASE PoolStart(p)
    BY <2>1, Constants DEF PoolStart, DownIsOff, WorkersOf
  <2>2. CASE ProbePeekStrategy(p) \/ Scan(p)
    BY <2>2 DEF ProbePeekStrategy, Scan, ScanMembers, ScanCheck, ScanSRem, ScanLRem,
       ScanLPush, ScanEnd, DownIsOff
  <2> QED BY <1>3, <2>1, <2>2
<1>4. CASE Environment
  <2>1. ASSUME NEW p \in Pods, Crash(p)
        PROVE  DownIsOff'
    <3>1. up' = up \ {p}
      BY <2>1 DEF Crash
    <3>2. ASSUME NEW w \in Workers
          PROVE  pc'[w] = IF PodOf[w] = p /\ pc[w] \notin {"new", "acked", "failed"}
                          THEN "off" ELSE pc[w]
      BY <2>1, <3>2, Constants DEF Crash
    <3>3. \A w \in Workers : pc[w] \notin {"new", "acked", "failed"}
      BY DEF TypeOK, LabelsTypeOK, WorkerLabels, PoolLabels, ConsumeLabels
    <3> QED BY <3>1, <3>2, <3>3 DEF DownIsOff
  <2>2. CASE \/ \E a \in Agents : MutexExpires(a) \/ ExtractLockExpires(a)
             \/ \E t \in Tasks : ArchiveCollected(t)
    BY <2>2 DEF MutexExpires, ExtractLockExpires, ArchiveCollected, podVars, DownIsOff
  <2> QED BY <1>4, <2>1, <2>2 DEF Environment
<1>5. CASE UNCHANGED vars
  BY <1>5 DEF vars, podVars, DownIsOff
<1> QED BY <1>1, <1>2, <1>3, <1>4, <1>5 DEF Next

\* Under every fault, late holders included, a key that names a process is
\* removed by that process only, on its way out of what the key protects.
THEOREM UnlockCorrect == Spec => OnlyOwnerUnlocks
<1> DEFINE Inv == KeyInv /\ DownIsOff
<1>1. Init => Inv
  <2> SUFFICES ASSUME Init PROVE KeysHeld /\ DownIsOff
    BY InitType DEF KeyInv
  <2> QED BY Constants DEF Init, KeysHeld, DownIsOff
<1>2. Inv /\ [Next]_vars => Inv' /\ [OwnKeyUnlocked]_vars
  <2> SUFFICES ASSUME Inv, [Next]_vars PROVE KeysHeld' /\ DownIsOff' /\ [OwnKeyUnlocked]_vars
    BY NextType DEF KeyInv
  <2>1. DownIsOff'
    BY DownStaysOff DEF KeyInv
  <2>2. CASE \E t \in Tasks : Trigger(t) \/ TriggerFails(t)
    BY <2>1, <2>2, TriggerKeys
  <2>3. CASE \E w \in Workers :
               \/ Loop(w) \/ PoolFails(w) \/ Consume(w) \/ TransientFailure(w)
               \/ WorkerFails(w) \/ SuppressExpires(w)
    BY <2>1, <2>3, LoopKeys, ConsumeKeys
  <2>4. CASE \E p \in Pods :
               PoolStart(p) \/ ProbePeekStrategy(p) \/ Scan(p)
    BY <2>1, <2>4, PodKeys
  <2>5. CASE Environment
    BY <2>1, <2>5, EnvironmentKeys
  <2>6. CASE UNCHANGED vars
    <3>1. KeysStill
      BY <2>6 DEF vars, redisVars, localVars, KeysStill, InCritical, Serves
    <3> QED BY <2>1, <2>6, <3>1, StillKeys DEF KeyInv
  <2> QED BY <2>2, <2>3, <2>4, <2>5, <2>6 DEF Next
<1> QED BY <1>1, <1>2, PTL DEF Spec, OnlyOwnerUnlocks
=============================================================================
