------------------------------ MODULE TaskWorker ------------------------------
(***************************************************************************)
(* The pipeline workers of the service mode.  Timers that have expired     *)
(* and captures put tasks on a stream; the coroutines of several processes *)
(* take them, hold a permit and the distributed lock of the task while     *)
(* they execute it, and acknowledge, retry, requeue or bury it.  Messages  *)
(* that nobody acknowledges are claimed by whoever is alive.               *)
(*                                                                         *)
(* The stream, its pending list and the locks are a Redis behind the       *)
(* interface IStateBackend: a lock has an owner, the worker id of a        *)
(* process, and is not reentrant.                                          *)
(***************************************************************************)
EXTENDS PermitPool, FiniteSets

CONSTANTS
  Jobs,        \* tasks as their producers know them
  NoJob,
  LockKeys,
  KeyOf,       \* getLockKey of a job, or NoLock (null)
  NoLock,
  FollowUp,    \* the L3 that cascadeSchedule enqueues after an L2, or NoJob
  Resets,      \* jobs whose cascade writes the session state: L1 and L2
  Free,        \* a lock without an owner
  MaxRetries, MaxRequeue,   \* maxRetries and MAX_LOCK_REQUEUE
  FaultKinds, MaxFaults     \* which faults happen, each once, and how many in all

AllFaults == {"redis", "acquire", "slow", "renew", "expire", "crash", "stop"}

ASSUME JobsAssumption ==
  /\ NoJob \notin Jobs /\ NoLock \notin LockKeys /\ Free \notin Pods
  /\ KeyOf \in [Jobs -> LockKeys \cup {NoLock}]
  /\ FollowUp \in [Jobs -> Jobs \cup {NoJob}]
  /\ \A j \in Resets : KeyOf[j] # NoLock
  /\ \A j \in Jobs : FollowUp[j] # NoJob => j \in Resets
  /\ MaxRetries \in Nat /\ MaxRequeue \in Nat
  /\ FaultKinds \subseteq AllFaults /\ MaxFaults \in Nat
  /\ IsFiniteSet(Coroutines)

\* Each L2 enqueues an L3 of its own.
ASSUME FollowUpAssumption ==
  \A i, j \in Jobs : FollowUp[i] # NoJob /\ FollowUp[i] = FollowUp[j] => i = j

VARIABLES
  settled,  \* [Jobs -> "new", "open", "done", "dead", "dropped"]
  timers,   \* jobs whose timer has expired in the shards
  scan,     \* expired timers that the scanner of a process has claimed
  queue,    \* messages of the stream that nobody has read
  pending,  \* messages read and not acknowledged
  run,      \* [Coroutines -> what the coroutine works on, and where it is]
  lock,     \* [LockKeys -> Pods or Free]
  up,       \* processes that are alive
  stopping, \* processes whose worker was told to stop
  lost,     \* history: jobs that only a process now dead, or a failed call, knew of
  faults    \* the faults that have happened

Stream == <<queue, pending>>
vars == <<settled, timers, scan, Stream, run, lock, up, stopping, lost, faults, Pool>>

Message == [job : Jobs, retry : Nat, requeue : Nat, copy : Nat]
NoMessage == [job |-> NoJob, retry |-> 0, requeue |-> 0, copy |-> 0]
Idle == [msg |-> NoMessage, step |-> "idle", lockLost |-> FALSE]

Steps == {"idle", "permit", "lock", "wait", "requeued", "dropping", "exec", "acking",
          "acked", "failed", "sleep", "release"}

\* Between a successful acquireLock and the finally block.
InTask == {"exec", "acking", "acked", "failed", "sleep", "release"}

JobOf(c) == run[c].msg.job
Key(c) == KeyOf[JobOf(c)]
At(c, steps) == PodOf[c] \in up /\ run[c].step \in steps
Running == up \ stopping
Go(c, step) == run' = [run EXCEPT ![c].step = step]

Fault(kind) ==
  /\ kind \in FaultKinds \ faults /\ Cardinality(faults) < MaxFaults
  /\ faults' = faults \cup {kind}

-----------------------------------------------------------------------------
\* enqueueTask: a message of its own.
Known == {queue[i] : i \in DOMAIN queue} \cup pending \cup {run[c].msg : c \in Coroutines}
Copy(j, retry, requeue) ==
  CHOOSE n \in 0..Cardinality(Known) :
    [job |-> j, retry |-> retry, requeue |-> requeue, copy |-> n] \notin Known
Enqueue(j, retry, requeue) ==
  queue' = Append(queue, [job |-> j, retry |-> retry, requeue |-> requeue,
                          copy |-> Copy(j, retry, requeue)])

EnqueueNext(j) ==
  /\ Enqueue(j, 0, 0)
  /\ settled' = [settled EXCEPT ![j] = IF @ = "new" THEN "open" ELSE @]

\* A burial stands, also of a job that has succeeded and ran again.
Settle(j, how) ==
  settled' = [settled EXCEPT ![j] = IF how = "done" /\ @ # "open" THEN @ ELSE how]

Init ==
  /\ PoolInit
  /\ settled = [j \in Jobs |-> "new"] /\ timers = {} /\ scan = [p \in Pods |-> {}]
  /\ queue = <<>> /\ pending = {} /\ run = [c \in Coroutines |-> Idle]
  /\ lock = [k \in LockKeys |-> Free] /\ up = Pods /\ stopping = {} /\ lost = {} /\ faults = {}

\* notifyConversation: the threshold enqueues the task, else a timer will.
Notify(j) ==
  /\ settled[j] = "new" /\ \A i \in Jobs : FollowUp[i] # j
  /\ settled' = [settled EXCEPT ![j] = "open"]
  /\ \/ Enqueue(j, 0, 0) /\ UNCHANGED timers
     \/ timers' = timers \cup {j} /\ UNCHANGED queue
  /\ UNCHANGED <<scan, pending, run, lock, up, stopping, lost, faults, Pool>>

\* The scanner of every process claims a batch atomically, then enqueues it.
Scan(p) ==
  /\ p \in Running /\ scan[p] = {} /\ timers # {}
  /\ \E batch \in SUBSET timers \ {{}} :
       scan' = [scan EXCEPT ![p] = batch] /\ timers' = timers \ batch
  /\ UNCHANGED <<settled, Stream, run, lock, up, stopping, lost, faults, Pool>>

ScanEnqueue(p) ==
  /\ p \in up
  /\ \E j \in scan[p] :
       /\ scan' = [scan EXCEPT ![p] = @ \ {j}]
       /\ Enqueue(j, 0, 0)
  /\ UNCHANGED <<settled, timers, pending, run, lock, up, stopping, lost, faults, Pool>>

\* One failing call ends the scan: the rest of the batch is nowhere.
ScanFails(p) ==
  /\ Fault("redis")
  /\ p \in up /\ scan[p] # {}
  /\ scan' = [scan EXCEPT ![p] = {}] /\ lost' = lost \cup scan[p]
  /\ UNCHANGED <<settled, timers, Stream, run, lock, up, stopping, Pool>>

-----------------------------------------------------------------------------
\* processTask begins with the permit.
Process(c, m) ==
  /\ Acquire(c)
  /\ run' = [run EXCEPT ![c] = [msg |-> m, step |-> IF HasPermit(PodOf[c]) THEN "lock" ELSE "permit",
                                lockLost |-> FALSE]]

\* Mutant: reading a message acknowledges it.
ConsumeAcknowledging(c) ==
  /\ At(c, {"idle"}) /\ PodOf[c] \in Running /\ queue # <<>>
  /\ queue' = Tail(queue)
  /\ Process(c, Head(queue))
  /\ UNCHANGED <<settled, timers, scan, pending, lock, up, stopping, lost, faults>>

Consume(c) ==
  /\ At(c, {"idle"}) /\ PodOf[c] \in Running /\ queue # <<>>
  /\ queue' = Tail(queue) /\ pending' = pending \cup {Head(queue)}
  /\ Process(c, Head(queue))
  /\ UNCHANGED <<settled, timers, scan, lock, up, stopping, lost, faults>>

Held(m) == \E c \in Coroutines : At(c, Steps \ {"idle"}) /\ run[c].msg = m

\* claimStaleTasks: nobody works on the message any more, or too slowly.
Claim(c, m) ==
  /\ At(c, {"idle"}) /\ PodOf[c] \in Running /\ m \in pending
  /\ IF Held(m) THEN Fault("slow") ELSE UNCHANGED faults
  /\ Process(c, m)
  /\ UNCHANGED <<settled, timers, scan, Stream, lock, up, stopping, lost>>

\* Mutant: the lock is set although it is taken.
TakeLockOverwriting(c) ==
  IF Key(c) = NoLock THEN UNCHANGED lock ELSE lock' = [lock EXCEPT ![Key(c)] = PodOf[c]]

TakeLock(c) ==
  IF Key(c) = NoLock THEN UNCHANGED lock
  ELSE lock[Key(c)] = Free /\ lock' = [lock EXCEPT ![Key(c)] = PodOf[c]]

Lock(c) ==
  /\ At(c, {"lock", "wait"})
  /\ \/ TakeLock(c) /\ Go(c, "exec")
     \/ /\ run[c].step = "lock" /\ Key(c) # NoLock /\ lock[Key(c)] # Free
        /\ Go(c, "wait") /\ UNCHANGED lock
  /\ UNCHANGED <<settled, timers, scan, Stream, up, stopping, lost, faults, Pool>>

\* acquireLock rejects: the exception leaves processTask with its permit.
LockFails(c) ==
  /\ Fault("acquire")
  /\ At(c, {"lock", "wait"}) /\ Key(c) # NoLock
  /\ run' = [run EXCEPT ![c] = Idle]
  /\ UNCHANGED <<settled, timers, scan, Stream, lock, up, stopping, lost, Pool>>

\* The lock stayed taken for all of the back-off, or the worker stops:
\* requeue, or give the task up.
GiveUp(c) ==
  /\ At(c, {"wait"}) /\ (lock[Key(c)] # Free \/ PodOf[c] \in stopping)
  /\ \/ /\ run[c].msg.requeue < MaxRequeue
        /\ Enqueue(JobOf(c), run[c].msg.retry, run[c].msg.requeue + 1)
        /\ Go(c, "requeued") /\ UNCHANGED faults
     \/ /\ IF run[c].msg.requeue < MaxRequeue THEN Fault("redis") ELSE UNCHANGED faults
        /\ Go(c, "dropping") /\ UNCHANGED queue
  /\ UNCHANGED <<settled, timers, scan, pending, lock, up, stopping, lost, Pool>>

Acked(c) == pending' = pending \ {run[c].msg}

\* Where a failing ackTask is caught and forgotten.
AckedIfPossible(c) ==
  \/ Acked(c) /\ UNCHANGED faults
  \/ Fault("redis") /\ UNCHANGED pending

\* releasePermitOnce, which wakes the first waiter.
Leave(c) ==
  /\ Release(PodOf[c])
  /\ run' = [d \in Coroutines |->
               IF d = c THEN Idle
               ELSE IF d \in Woken(PodOf[c]) THEN [run[d] EXCEPT !.step = "lock"] ELSE run[d]]

GivenUp(c) ==
  /\ At(c, {"requeued", "dropping"})
  /\ AckedIfPossible(c) /\ Leave(c)
  /\ IF run[c].step = "dropping" THEN Settle(JobOf(c), "dropped") ELSE UNCHANGED settled
  /\ UNCHANGED <<timers, scan, queue, lock, up, stopping, lost>>

-----------------------------------------------------------------------------
\* A renewal, one of which runs until the finally block, finds another owner or
\* rejects while the lock is still owned: it is the last, and aborts the executor.
RenewFails(c) ==
  /\ At(c, InTask \ {"release"}) /\ Key(c) # NoLock /\ ~run[c].lockLost
  /\ IF lock[Key(c)] = PodOf[c] THEN Fault("renew") ELSE UNCHANGED faults
  /\ run' = [run EXCEPT ![c].lockLost = TRUE]
  /\ UNCHANGED <<settled, timers, scan, Stream, lock, up, stopping, lost, Pool>>

\* The executor returns: acknowledge, unless the lock is gone.
Succeed(c) ==
  /\ At(c, {"exec"})
  /\ Go(c, IF run[c].lockLost THEN "release" ELSE "acking")
  /\ UNCHANGED <<settled, timers, scan, Stream, lock, up, stopping, lost, faults, Pool>>

\* The catch block: nothing is tried again once the lock is lost.
Catch(c) == Go(c, IF run[c].lockLost THEN "release" ELSE "failed")

AckTask(c) ==
  /\ At(c, {"acking"})
  /\ \/ Acked(c) /\ Settle(JobOf(c), "done") /\ Go(c, "acked") /\ UNCHANGED faults
     \/ Fault("redis") /\ Catch(c) /\ UNCHANGED <<settled, pending>>
  /\ UNCHANGED <<timers, scan, queue, lock, up, stopping, lost, Pool>>

\* Mutant: a failing cascade is caught and forgotten.
CascadeForgiven(c) ==
  LET next == FollowUp[JobOf(c)]
  IN /\ At(c, {"acked"}) /\ Go(c, "release")
     /\ \/ next = NoJob /\ UNCHANGED <<queue, settled, faults>>
        \/ next # NoJob /\ EnqueueNext(next) /\ UNCHANGED faults
        \/ next # NoJob /\ Fault("redis") /\ UNCHANGED <<queue, settled>>
     /\ UNCHANGED <<timers, scan, pending, lock, up, stopping, lost, Pool>>

\* cascadeSchedule: the L3 of an L2; what else it does are writes of the
\* session state, and callbacks whose errors are caught.
Cascade(c) ==
  LET next == FollowUp[JobOf(c)]
  IN /\ At(c, {"acked"}) /\ Go(c, "release")
     /\ \/ next = NoJob /\ UNCHANGED <<queue, settled>>
        \/ next # NoJob /\ EnqueueNext(next)
     /\ UNCHANGED <<timers, scan, pending, lock, up, stopping, lost, faults, Pool>>

\* An exception in it is one of the task: the enqueue rejects, or a write of
\* the session state, which an L2 does after the enqueue.  The message is gone:
\* when the lock is lost as well, so is an L3 that was not enqueued.
CascadeFails(c) ==
  LET next == FollowUp[JobOf(c)]
  IN /\ Fault("redis")
     /\ At(c, {"acked"}) /\ JobOf(c) \in Resets /\ Catch(c)
     /\ \/ /\ lost' = IF run[c].lockLost /\ next # NoJob THEN lost \cup {next} ELSE lost
           /\ UNCHANGED <<queue, settled>>
        \/ next # NoJob /\ EnqueueNext(next) /\ UNCHANGED lost
     /\ UNCHANGED <<timers, scan, pending, lock, up, stopping, Pool>>

\* The executor throws; the abort after a lost lock does so as well.
Fail(c) ==
  /\ At(c, {"exec"}) /\ Catch(c)
  /\ UNCHANGED <<settled, timers, scan, Stream, lock, up, stopping, lost, faults, Pool>>

\* Mutant: the message of a task that will be retried stays unacknowledged.
BackOffUnacked(c) ==
  /\ At(c, {"failed"}) /\ run[c].msg.retry < MaxRetries
  /\ Go(c, "sleep")
  /\ UNCHANGED <<settled, timers, scan, Stream, lock, up, stopping, lost, faults, Pool>>

\* Acknowledge, then wait: the lock and the permit are kept.
BackOff(c) ==
  /\ At(c, {"failed"}) /\ run[c].msg.retry < MaxRetries
  /\ AckedIfPossible(c) /\ Go(c, "sleep")
  /\ UNCHANGED <<settled, timers, scan, queue, lock, up, stopping, lost, Pool>>

ReEnqueue(c) ==
  /\ At(c, {"sleep"})
  /\ \/ /\ Enqueue(JobOf(c), run[c].msg.retry + 1, run[c].msg.requeue)
        /\ UNCHANGED <<lost, faults>>
     \/ Fault("redis") /\ lost' = lost \cup {JobOf(c)} /\ UNCHANGED queue
  /\ Go(c, "release")
  /\ UNCHANGED <<settled, timers, scan, pending, lock, up, stopping, Pool>>

DeadLetter(c) ==
  /\ At(c, {"failed"}) /\ run[c].msg.retry >= MaxRetries
  /\ AckedIfPossible(c) /\ Settle(JobOf(c), "dead") /\ Go(c, "release")
  /\ UNCHANGED <<timers, scan, queue, lock, up, stopping, lost, Pool>>

\* releaseLock compares the owner; its failure is caught and forgotten.
Owned(c) == Key(c) # NoLock /\ lock[Key(c)] = PodOf[c]

Finally(c) ==
  /\ At(c, {"release"})
  /\ \/ /\ lock' = IF Owned(c) THEN [lock EXCEPT ![Key(c)] = Free] ELSE lock
        /\ UNCHANGED faults
     \/ Owned(c) /\ Fault("redis") /\ UNCHANGED lock
  /\ Leave(c)
  /\ UNCHANGED <<settled, timers, scan, Stream, up, stopping, lost>>

-----------------------------------------------------------------------------
Renewed(k) ==
  \E c \in Coroutines : At(c, InTask) /\ ~run[c].lockLost /\ Key(c) = k /\ lock[k] = PodOf[c]

\* The time to live of a lock ends: one that nobody renews, or a task's.
Expire(k) ==
  /\ lock[k] # Free
  /\ IF Renewed(k) THEN Fault("expire") ELSE UNCHANGED faults
  /\ lock' = [lock EXCEPT ![k] = Free]
  /\ UNCHANGED <<settled, timers, scan, Stream, run, up, stopping, lost, Pool>>

\* stop: the locks of running tasks are given back at once; the tasks run on
\* until they end or the process exits.
Stop(p) ==
  /\ Fault("stop")
  /\ p \in Running /\ Running # {p}
  /\ stopping' = stopping \cup {p}
  /\ lock' = [k \in LockKeys |->
                IF lock[k] = p /\ \E c \in Coroutines : At(c, InTask) /\ PodOf[c] = p /\ Key(c) = k
                THEN Free ELSE lock[k]]
  /\ UNCHANGED <<settled, timers, scan, Stream, run, up, lost, Pool>>

\* Acknowledged, and yet to be enqueued again or to enqueue its successor.
OnlyHere(c) == At(c, {"acked", "failed", "sleep"}) /\ run[c].msg \notin pending

\* The timers that the dead process had claimed go with it, and such tasks.
Crash(p) ==
  /\ p \in up /\ Running \ {p} # {}
  /\ IF p \in stopping THEN UNCHANGED faults ELSE Fault("crash")
  /\ up' = up \ {p}
  /\ scan' = [scan EXCEPT ![p] = {}]
  /\ lost' = lost \cup scan[p]
       \cup {JobOf(c) : c \in {d \in Coroutines : PodOf[d] = p /\ OnlyHere(d)}}
  /\ run' = [c \in Coroutines |-> IF PodOf[c] = p THEN Idle ELSE run[c]]
  /\ UNCHANGED <<settled, timers, Stream, lock, stopping, Pool>>

Work(c) ==
  \/ Lock(c) \/ GivenUp(c) \/ Succeed(c) \/ AckTask(c) \/ Fail(c)
  \/ Cascade(c) \/ CascadeFails(c) \/ BackOff(c) \/ ReEnqueue(c) \/ DeadLetter(c) \/ Finally(c)

Next ==
  \/ \E j \in Jobs : Notify(j)
  \/ \E p \in Pods : Scan(p) \/ ScanEnqueue(p) \/ ScanFails(p) \/ Stop(p) \/ Crash(p)
  \/ \E c \in Coroutines :
       \/ Consume(c) \/ Work(c) \/ GiveUp(c) \/ LockFails(c) \/ RenewFails(c)
       \/ \E m \in pending : Claim(c, m)
  \/ \E k \in LockKeys : Expire(k)

Spec == Init /\ [][Next]_vars

\* Coroutines poll and run, scanners and recovery timers tick, and a lock that
\* nobody renews expires.
FairSpec ==
  /\ Spec
  /\ \A c \in Coroutines : WF_vars(Work(c))
  /\ WF_vars(\E c \in Coroutines : Consume(c))
  /\ WF_vars(\E c \in Coroutines, m \in pending : Claim(c, m) /\ ~Held(m))
  /\ WF_vars(\E p \in Pods : Scan(p) \/ ScanEnqueue(p))
  /\ WF_vars(\E k \in LockKeys : ~Renewed(k) /\ Expire(k))

-----------------------------------------------------------------------------
TypeOK ==
  /\ settled \in [Jobs -> {"new", "open", "done", "dead", "dropped"}]
  /\ timers \subseteq Jobs /\ scan \in [Pods -> SUBSET Jobs]
  /\ queue \in Seq(Message) /\ pending \subseteq Message
  /\ run \in [Coroutines -> [msg : Message \cup {NoMessage}, step : Steps, lockLost : BOOLEAN]]
  /\ lock \in [LockKeys -> Pods \cup {Free}] /\ up \subseteq Pods /\ stopping \subseteq Pods
  /\ lost \subseteq Jobs /\ faults \subseteq AllFaults
  /\ inFlight \in [Pods -> 0..Capacity] /\ waiters \in [Pods -> Seq(Coroutines)]

Holders(p) == {c \in Coroutines : PodOf[c] = p /\ run[c].step \notin {"idle", "permit"}}

\* Every permit in flight is in the hands of a coroutine that will return it:
\* processTask acquires it at its entry and releases it on every way out.
PermitsKept == "acquire" \notin faults =>
  \A p \in up : inFlight[p] = Cardinality(Holders(p))

\* Unless a lock runs out under its owner, a renewal of it rejects, or a
\* stopping worker gives it back, the tasks of one key execute one at a
\* time, also those of coroutines of one process, which share its worker id.
LockExclusion == faults \cap {"renew", "expire", "stop"} = {} =>
  \A c, d \in Coroutines :
    /\ c # d /\ At(c, InTask) /\ At(d, InTask) /\ Key(c) # NoLock
    => Key(c) # Key(d)

\* A job that is not settled is in a timer, a message, or the hands of a
\* live coroutine that will enqueue it again; jobs in "lost" are those the
\* code keeps nowhere else when a process or a call fails.
Carried(j) ==
  \/ j \in timers \/ \E p \in Pods : j \in scan[p]
  \/ \E i \in DOMAIN queue : queue[i].job = j
  \/ \E m \in pending : m.job = j
  \/ \E c \in Coroutines : At(c, {"sleep"}) /\ JobOf(c) = j

NoJobLost == \A j \in Jobs : settled[j] = "open" /\ j \notin lost => Carried(j)

Cascades(j) ==
  LET next == FollowUp[j]
  IN settled[j] = "done" /\ next # NoJob /\ settled[next] = "new"
     => Carried(j) \/ \E c \in Coroutines : At(c, {"acked", "failed"}) /\ JobOf(c) = j

\* The L3 of a finished L2 exists, or the L2 is still on its way to it: a
\* failing cascade makes the task run again, but for the one case in "lost",
\* in which the lock of the acknowledged L2 is gone as well (CascadeFails).
FollowUpsCome == \A j \in Jobs : lost \cap {j, FollowUp[j]} = {} => Cascades(j)

\* The messages of a job, but for one that was just put back under another
\* requeue count and is about to be acknowledged.
Messages(j) ==
  LET replaced(m) == \E c \in Coroutines : At(c, {"requeued"}) /\ run[c].msg = m
  IN Cardinality({i \in DOMAIN queue : queue[i].job = j})
       + Cardinality({m \in pending : m.job = j /\ ~replaced(m)})
       + Cardinality({c \in Coroutines : OnlyHere(c) /\ run[c].step # "acked" /\ JobOf(c) = j})

\* As long as no call fails, no process ends and nobody claims the message of
\* a live coroutine, a retry and a requeue replace the message they come from:
\* the recovery of stale messages then never starts a task a second time.
OneMessagePerJob == faults \cap {"slow", "redis", "crash", "stop"} = {} =>
  \A j \in Jobs : Messages(j) <= 1

\* Every job ends: executed, dead-lettered, dropped after the last requeue,
\* or lost with what failed; no set of permits and locks blocks it for ever,
\* unless a failing acquireLock has kept a permit.
JobsEnd == \A j \in Jobs :
  settled[j] = "open" ~>
    (settled[j] \in {"done", "dead", "dropped"} \/ j \in lost \/ "acquire" \in faults)
=============================================================================
