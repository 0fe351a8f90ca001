-------------------------- MODULE SkillExtractWorker --------------------------
(***************************************************************************)
(* SkillConversationExtractWorker.consumeAgent and handlePermanentFailure  *)
(* (extract-worker.ts), one await per action, with one task per round      *)
(* (tasksPerRound = 1).  A worker is at "acquire" when consumeAgent is      *)
(* called, and back at "idle" when it has returned ("release") or thrown   *)
(* ("abort").                                                              *)
(***************************************************************************)
EXTENDS SkillQueueState

Downgraded(w) == strategy[PodOf[w]] = Downgrade

AcquireExtractLock(w) ==
  /\ pc[w] = "acquire"
  /\ xlock[agent[w]] = Free
  /\ xlock' = [xlock EXCEPT ![agent[w]] = w]
  /\ Goto(w, "headLock")
  /\ UNCHANGED <<list, members, mutex, fileVars, podVars, localVars, histVars>>

\* Lock contended: only the downgraded path puts the agent back.
LockContended(w) ==
  /\ pc[w] = "acquire"
  /\ xlock[agent[w]] # Free
  /\ Goto(w, IF Downgraded(w) THEN "contendSadd" ELSE "contended")
  /\ UNCHANGED <<redisVars, fileVars, podVars, localVars, histVars>>

\* Mutant: the early return on an empty file is missing.
ReadHeadOfEmpty(w) ==
  /\ pc[w] = "headRead"
  /\ LET q == tasks[agent[w]] IN
     head' = [head EXCEPT ![w] = IF q = <<>> THEN NoTask ELSE q[1].id]
  /\ Goto(w, "headUnlock")
  /\ UNCHANGED <<redisVars, fileVars, podVars, agent, doc, dead, suppress, histVars>>

\* Step 3: look at the head of _tasks.json; an empty file takes the agent
\* off the queue before the mutex is released.
ReadHead(w) ==
  /\ pc[w] = "headRead"
  /\ LET q == tasks[agent[w]] IN
     \/ /\ q = <<>>
        /\ Goto(w, "headSrem")
        /\ UNCHANGED head
     \/ /\ q # <<>>
        /\ head' = [head EXCEPT ![w] = q[1].id]
        /\ Goto(w, "headUnlock")
  /\ UNCHANGED <<redisVars, fileVars, podVars, agent, doc, dead, suppress, histVars>>

\* Step 4: without its archive the task is a ghost and is only deleted.
ReadArchive(w) ==
  /\ pc[w] = "readArchive"
  /\ Goto(w, IF head[w] \in archives THEN "extract" ELSE "delLock")
  /\ UNCHANGED <<redisVars, fileVars, podVars, localVars, histVars>>

\* extractor.extract and sink.applyCandidates succeed.
Extract(w) ==
  /\ pc[w] = "extract"
  /\ extracted' = [extracted EXCEPT ![head[w]] = @ + 1]
  /\ Goto(w, "delLock")
  /\ UNCHANGED <<redisVars, fileVars, podVars, localVars, faults>>

\* Mutant: a transient failure deletes the task.
TransientFailureDeletes(w) == Reject(w, "transient", {"readArchive", "extract"}, "delLock")

\* classifyError says transient: nothing is written, the task is retried.
TransientFailure(w) ==
  Reject(w, "transient", {"readArchive", "extract"},
         IF Downgraded(w) THEN "retrySadd" ELSE "release")

\* classifyError says permanent.
PermanentFailure(w) ==
  /\ pc[w] = "extract"
  /\ Goto(w, "pfLock")
  /\ UNCHANGED <<redisVars, fileVars, podVars, localVars, histVars>>

\* Where a round goes once _tasks.json holds q: the downgraded path requeues
\* or removes the agent inside the mutex, the atomic one leaves the queue alone.
QueueFollows(w, q) ==
  Goto(w, IF ~Downgraded(w) THEN "roundUnlock"
          ELSE IF q # <<>> THEN "keepSadd" ELSE "dropSrem")

\* Mutant: the filtered file is not written.
DeleteTaskUnwritten(w) ==
  /\ pc[w] = "delWrite"
  /\ QueueFollows(w, Without(doc[w], head[w]))
  /\ UNCHANGED <<redisVars, fileVars, podVars, localVars, histVars>>

\* Step 5: write _tasks.json back without the head.
DeleteTask(w) ==
  /\ pc[w] = "delWrite"
  /\ LET q == Without(doc[w], head[w]) IN
     /\ tasks' = IF Len(q) # Len(doc[w]) THEN [tasks EXCEPT ![agent[w]] = q] ELSE tasks
     /\ QueueFollows(w, q)
  /\ UNCHANGED <<redisVars, archives, dlq, podVars, localVars, histVars>>

\* handlePermanentFailure when the task is gone: nothing to write.
FailedTaskGone(w) ==
  /\ pc[w] = "pfWrite"
  /\ head[w] \notin Ids(doc[w])
  /\ QueueFollows(w, doc[w])
  /\ UNCHANGED <<redisVars, fileVars, podVars, localVars, histVars>>

RetriesUsed(w) == \E i \in DOMAIN doc[w] :
  doc[w][i].id = head[w] /\ doc[w][i].retry + 1 >= PermanentMaxRetries

\* handlePermanentFailure below the limit: count the failure.
CountRetry(w) ==
  /\ pc[w] = "pfWrite"
  /\ head[w] \in Ids(doc[w]) /\ ~RetriesUsed(w)
  /\ tasks' = [tasks EXCEPT ![agent[w]] = WithRetry(doc[w], head[w])]
  /\ QueueFollows(w, doc[w])
  /\ UNCHANGED <<redisVars, archives, dlq, podVars, localVars, histVars>>

\* Mutant: deadTask is not set.
DropDeadTask(w) ==
  /\ pc[w] = "pfWrite"
  /\ RetriesUsed(w)
  /\ LET q == Without(doc[w], head[w]) IN
     /\ tasks' = [tasks EXCEPT ![agent[w]] = q]
     /\ QueueFollows(w, q)
  /\ UNCHANGED <<redisVars, archives, dlq, podVars, localVars, histVars>>

\* handlePermanentFailure at the limit: the task leaves _tasks.json here and
\* reaches the dead-letter file only after the mutex is released.
TakeDeadTask(w) ==
  /\ pc[w] = "pfWrite"
  /\ RetriesUsed(w)
  /\ LET q == Without(doc[w], head[w]) IN
     /\ tasks' = [tasks EXCEPT ![agent[w]] = q]
     /\ QueueFollows(w, q)
  /\ dead' = [dead EXCEPT ![w] = TRUE]
  /\ UNCHANGED <<redisVars, archives, dlq, podVars, agent, head, doc, suppress, histVars>>

\* appendDlq: read, then write the file with the dead task at its end.
ReadDlq(w) ==
  /\ pc[w] = "dlqRead"
  /\ doc' = [doc EXCEPT ![w] = dlq[agent[w]]]
  /\ Goto(w, "dlqWrite")
  /\ UNCHANGED <<redisVars, fileVars, podVars, agent, head, dead, suppress, histVars>>

AppendDlq(w) ==
  /\ pc[w] = "dlqWrite"
  /\ dlq' = [dlq EXCEPT ![agent[w]] =
               Append(doc[w], [id |-> head[w], retry |-> PermanentMaxRetries])]
  /\ Goto(w, "release")
  /\ UNCHANGED <<redisVars, archives, tasks, podVars, localVars, histVars>>

\* An await rejects.  Inside the mutex it is released first; appendDlq's
\* error is logged and dropped; anything else leaves consumeAgent by "abort".
WorkerFails(w) ==
  \/ Reject(w, "redis", {"acquire", "contendSadd", "contendLpush", "retrySadd",
                         "retryLpush"}, "abort")
  \/ Reject(w, "timeout", {"headLock", "delLock", "pfLock"}, "abort")
  \/ Reject(w, "storage", {"headRead", "delRead", "delWrite", "pfRead", "pfWrite"},
            "errUnlock")
  \/ Reject(w, "redis", {"headSrem", "headLrem", "keepSadd", "keepLpush", "dropSrem",
                         "dropLrem"}, "errUnlock")
  \/ Reject(w, "storage", {"dlqRead", "dlqWrite"}, "release")

\* finally: releaseExtractLock deletes the key only if the token still
\* matches.  A failed release is swallowed and leaves the key to its TTL.
\* lockContended and a thrown error both put the agent on the loop's
\* suppress table (workerLoop).
LeaveAgent(w, from) ==
  /\ pc[w] = from
  /\ suppress' = [suppress EXCEPT ![w] = IF from = "release" THEN @ ELSE @ \cup {agent[w]}]
  /\ LET mine == xlock[agent[w]] = w IN
     \/ /\ xlock' = [xlock EXCEPT ![agent[w]] = IF mine THEN Free ELSE @]
        /\ UNCHANGED faults
     \/ /\ mine
        /\ Fault("redis")
        /\ xlock' = [xlock EXCEPT ![agent[w]] = Orphan]
  /\ Goto(w, "idle")
  /\ agent' = [agent EXCEPT ![w] = NoAgent]
  /\ head' = [head EXCEPT ![w] = NoTask]
  /\ doc' = [doc EXCEPT ![w] = <<>>]
  /\ dead' = [dead EXCEPT ![w] = FALSE]
  /\ UNCHANGED <<list, members, mutex, fileVars, podVars, extracted>>

Consume(w) ==
  \/ AcquireExtractLock(w)
  \/ LockContended(w)
  \/ SAdd(w, "contendSadd", "contendLpush")
  \/ LPush(w, "contendLpush", "contended")
  \/ MutexAcquire(w, "headLock", "headRead")
  \/ ReadHead(w)
  \/ SRem(w, "headSrem", "headLrem")
  \/ LRem(w, "headLrem", "emptyUnlock")
  \/ MutexRelease(w, "emptyUnlock", "release")
  \/ MutexRelease(w, "headUnlock", "readArchive")
  \/ ReadArchive(w)
  \/ Extract(w)
  \/ PermanentFailure(w)
  \/ SAdd(w, "retrySadd", "retryLpush")
  \/ LPush(w, "retryLpush", "release")
  \/ MutexAcquire(w, "delLock", "delRead")
  \/ ReadTasks(w, "delRead", "delWrite")
  \/ DeleteTask(w)
  \/ MutexAcquire(w, "pfLock", "pfRead")
  \/ ReadTasks(w, "pfRead", "pfWrite")
  \/ FailedTaskGone(w)
  \/ CountRetry(w)
  \/ TakeDeadTask(w)
  \/ SAdd(w, "keepSadd", "keepLpush")
  \/ LPush(w, "keepLpush", "roundUnlock")
  \/ SRem(w, "dropSrem", "dropLrem")
  \/ LRem(w, "dropLrem", "roundUnlock")
  \/ MutexRelease(w, "roundUnlock", IF dead[w] THEN "dlqRead" ELSE "release")
  \/ MutexRelease(w, "errUnlock", "abort")
  \/ ReadDlq(w)
  \/ AppendDlq(w)
  \/ LeaveAgent(w, "contended")
  \/ LeaveAgent(w, "release")
  \/ LeaveAgent(w, "abort")

ConsumeLabels ==
  {"acquire", "contendSadd", "contendLpush", "contended", "headLock", "headRead",
   "headSrem", "headLrem", "emptyUnlock", "headUnlock", "readArchive", "extract",
   "retrySadd", "retryLpush", "delLock", "delRead", "delWrite", "pfLock", "pfRead",
   "pfWrite", "keepSadd", "keepLpush", "dropSrem", "dropLrem", "roundUnlock",
   "errUnlock", "dlqRead", "dlqWrite", "release", "abort"}

\* Labels at which the worker has read the task it is working on.
HeadLabels ==
  {"headUnlock", "readArchive", "extract", "retrySadd", "retryLpush", "delLock",
   "delRead", "delWrite", "pfLock", "pfRead", "pfWrite", "keepSadd", "keepLpush",
   "dropSrem", "dropLrem", "roundUnlock", "dlqRead", "dlqWrite"}

\* Labels inside a critical section.
ConsumeCritical ==
  {"headRead", "headSrem", "headLrem", "emptyUnlock", "headUnlock", "delRead",
   "delWrite", "pfRead", "pfWrite", "keepSadd", "keepLpush", "dropSrem", "dropLrem",
   "roundUnlock", "errUnlock"}

\* Labels at which consumeAgent believes it holds the extract-lock.
ConsumeLocked ==
  ConsumeLabels \ {"acquire", "contendSadd", "contendLpush", "contended", "abort"}
=============================================================================
