----------------------------- MODULE SkillTrigger -----------------------------
(***************************************************************************)
(* SkillTriggerService.archive (trigger-service.ts): write the archive,    *)
(* then register the task and enqueue the agent inside one tasks-mutex     *)
(* critical section.  Every await is an action of its own.                 *)
(***************************************************************************)
EXTENDS SkillQueueState

\* Mutant: the archive is not waited for and gets lost.
ArchiveNotAwaited(t) ==
  /\ pc[t] = "new"
  /\ PodOf[t] \in up
  /\ Goto(t, "lock")
  /\ UNCHANGED <<redisVars, fileVars, podVars, localVars, histVars>>

\* writeArchive: the key is private to the call (see the README on
\* millisecond collisions), so exists() answers no and the file is written.
WriteArchive(t) ==
  /\ pc[t] = "new"
  /\ PodOf[t] \in up
  /\ archives' = archives \cup {t}
  /\ Goto(t, "lock")
  /\ UNCHANGED <<redisVars, tasks, dlq, podVars, localVars, histVars>>

\* Mutant: the new task goes in front.
RegisterTaskInFront(t) ==
  /\ pc[t] = "write"
  /\ tasks' = [tasks EXCEPT ![AgentOf[t]] = <<[id |-> t, retry |-> 0]>> \o doc[t]]
  /\ Goto(t, "sadd")
  /\ UNCHANGED <<redisVars, archives, dlq, podVars, localVars, histVars>>

\* tasks.push(entry); writeTasks.
RegisterTask(t) ==
  /\ pc[t] = "write"
  /\ tasks' = [tasks EXCEPT ![AgentOf[t]] = Append(doc[t], [id |-> t, retry |-> 0])]
  /\ Goto(t, "sadd")
  /\ UNCHANGED <<redisVars, archives, dlq, podVars, localVars, histVars>>

\* Mutant: LPUSH is forgotten.
EnqueueSetOnly(t) ==
  /\ pc[t] = "sadd"
  /\ members' = members \cup {AgentOf[t]}
  /\ Goto(t, "ackUnlock")
  /\ UNCHANGED <<list, mutex, xlock, fileVars, podVars, localVars, histVars>>

\* enqueueAgent: SADD, and LPUSH only if the agent was not a member.
EnqueueSAdd(t) ==
  /\ pc[t] = "sadd"
  /\ members' = members \cup {AgentOf[t]}
  /\ Goto(t, IF AgentOf[t] \in members THEN "ackUnlock" ELSE "lpush")
  /\ UNCHANGED <<list, mutex, xlock, fileVars, podVars, localVars, histVars>>

\* An await rejects: outside the critical section the caller gets the error
\* (a 500), inside it the mutex is released on the way out.
TriggerFails(t) ==
  \/ PodOf[t] \in up /\ Reject(t, "storage", {"new"}, "failed")
  \/ Reject(t, "timeout", {"lock"}, "failed")
  \/ Reject(t, "storage", {"read", "write"}, "failUnlock")
  \/ Reject(t, "redis", {"sadd", "lpush"}, "failUnlock")

Trigger(t) ==
  \/ WriteArchive(t)
  \/ MutexAcquire(t, "lock", "read")
  \/ ReadTasks(t, "read", "write")
  \/ RegisterTask(t)
  \/ EnqueueSAdd(t)
  \/ LPush(t, "lpush", "ackUnlock")
  \/ MutexRelease(t, "ackUnlock", "acked")
  \/ MutexRelease(t, "failUnlock", "failed")

TriggerLabels == {"new", "lock", "read", "write", "sadd", "lpush", "ackUnlock",
                  "failUnlock", "acked", "failed"}

\* Labels inside the critical section, and those where doc is the file's copy.
TriggerCritical == {"read", "write", "sadd", "lpush", "ackUnlock", "failUnlock"}
=============================================================================
