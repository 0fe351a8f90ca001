# TLA+ specifications of TencentDB Agent Memory

This directory holds TLA+ modules that model the concurrent core of the
repository, TLC configurations that check them on small instances, and
TLAPS proofs of the properties that hold for every instance. All paths below
are relative to the repository (`src/` in the line references of
`PROJECT.json`); "conversation-add/" stands for
`MemoryCore/src/core/skill/conversation-add/`.

## 1. The system

A chat client talks to **MemoryProxy**, which forwards the request to a model
and, after the answer, pushes the *round* (user message, tool calls, answer) to
**MemoryCore**. Core buffers the rounds of a session, archives the buffer when
it is large enough or a topic ends, registers the archive as a *task*, and lets
background workers extract reusable skills from it.

```
 MemoryProxy                         MemoryCore                                  background
 handler-glue ──conversation/add──▶ add-handler ──archive()──▶ trigger-service
 force-archive route ─────────────▶ handleForceArchive ──────▶   │ archive file
                                      │ data-current, meta.json  │ _tasks.json (tasks-mutex)
                                      ▼                          │ SADD/LPUSH
                                  buffer storage (S3/local)      ▼
                                      ▲               Redis agent queue ◀──peek── worker-pool
                                      └── _tasks.json, _tasks_dlq.json ◀───── extract-worker
```

Beside it Core keeps the **memory** of a user. Every turn is captured as rows
(L0); batches of rows are extracted to memories (L1), memories are folded into
scenes (L2), and scenes into a persona (L3). A local Core runs these stages in
one process with timers and serial queues; a service runs them as tasks on a
stream that several worker processes consume. Skills, once extracted, are kept
as numbered **versions**: a row in a table and a directory of resource files.

```
 agent_end ──▶ auto-capture ──rows──▶ store              timers of all processes
                   │ notify                                │ timer-scanner
                   ▼                                       ▼
        pipeline-manager: L1 queue ▶ L2 timers ▶ L3   stream ──▶ pipeline-worker ─┬─ permit pool
                   │                                       ▲         │ ack, retry   └─ lock per key
                   ▼ cursor, pipeline_states               └─cascade─┘ dead letter
              checkpoint
 SkillCore ──▶ SkillVersioning ──▶ version directories (object store) + rows (SQLite)
```

### Inventory

| Component | State it keeps | Operations | What is hard | What makes it correct |
|---|---|---|---|---|
| proxy round push (`MemoryProxy/src/skill` and the request handlers) | the call it waits for | push a round, flush, time out | no retry; 1.5 s time-out in front of a 30 s mutex wait; the round of a streamed answer is pushed in the background | one handler per session at a time, which Core relies on and the proxy does not ensure |
| conversation-add handler (`add-handler.ts`, `prepare-archive.ts`) | none; reads and writes data-current, meta.json | buffer, switch topic, archive | no lock, no compare-and-set; two files written in parallel; archive before clear | no answered round lost; log order; counters agree with the buffer |
| force-archive handler (`gateway/skill-handlers.ts`) | the same files | flush the buffer | the panel calls it beside the session | the same |
| oversize strategy | none | cut the middle out of a payload | greedy loops with two exits | longest prefix and suffix in budget |
| trigger service | archive file, `_tasks.json` | archive(): write, register, enqueue | fails or dies between any two awaits | a registered task has its archive and its agent is queued |
| agent task queue | Redis set, list, tasks-mutex, extract-lock | enqueue, peek, remove, lock, unlock, renew | TTLs, two commands per logical step, a downgraded peek | mutual exclusion; only owners unlock |
| extract worker | `_tasks.json`, `_tasks_dlq.json` | consumeAgent: look, extract, settle | lock contention, lock loss, permanent and transient failures | no task lost, settled once per failure, in order |
| worker pool (skills) | suppress table, timers | start, loop, self-heal scan | scan races with workers; strategy probed late | every agent with tasks is found again |
| buffer storage | the files above | read, write | one key per millisecond, missing file read as empty | files are atomic units |
| memory pipeline (`utils/pipeline-manager.ts`, `pipeline-factory.ts`, `checkpoint.ts`, `managed-timer.ts`, `serial-queue.ts`, `hooks/auto-capture.ts`) | session states, timers, queues, cursors | notify, L1, L2, L3, flush, destroy, recover | timers and queues re-arm each other; rows of one millisecond; records stored while L2 reads | no row skipped; what is stored has a timer, a queue entry or a task |
| pipeline worker (`services/pipeline-worker.ts`) | stream, pending list, locks, permits | consume, claim, lock, execute, acknowledge, retry, requeue, bury, cascade, stop | acknowledgement before re-enqueue; locks that run out; failing calls on every exit | no job lost but by a named fault; one execution per key; every permit comes back |
| worker permit pool | counter, waiters | acquire, release | hand-over to a waiter | permits in flight are those in hand |
| timer scanner | expired timers | claim a batch, enqueue each | failure in the middle of a batch | the rest of the batch is not forgotten |
| skill store and versioning (`core/skill/skill-core.ts`, `skill-versioning.ts`, `skill-store.ts`) | rows, version directories, billing | create, write, remove, change, delete, expire | check and write an await apart; files beside rows; listings that swallow errors; clean-up beside appends | one head; files of every row; no overwritten version; billing equals the table |
| stateful pipeline manager and state backends | keys and session counters of the service | count, arm timers | Lua scripts, sharded timers | only their effect on the stream is modelled |
| offload server and client | compaction tasks | compact a running chat | late results | not modelled |
| Core gateway | per-instance wiring | routes, purge of an instance | purge deletes held locks | not modelled |
| metadata, quota, records/persona/scene/profile, extractor and sink | database rows, prompts | CRUD, prompt building | text and external services | not modelled |
| MemoryProxy request path, MemoryKnowledge, MemoryPanel, plugins, SDK, scripts | sessions, UI | translation, streaming, UI | mostly I/O | not modelled |

`PROJECT.json` lists the same parts with their sources, and under "hazards"
the places in the modelled code where something hard to test can go wrong,
with the property that watches over it or the reason why none does.

## 2. Modules

| Module | Models |
|---|---|
| `SequenceFilters` | `filter` on sequences (`Keep`) |
| `Totals` | sums of sizes, and the longest prefix within a budget |
| `SkillQueueState` | state shared by the pipeline; one operator per Redis command; the tasks-mutex |
| `SkillTrigger` | `SkillTriggerService.archive`, one action per await |
| `SkillExtractWorker` | `consumeAgent`, `handlePermanentFailure`, `appendDlq`, one action per await |
| `SkillWorkerPool` | `SkillWorkerPool.start`, `workerLoop`, `selfHealScan`, peek and probe; pod death and key expiry |
| `SkillPipeline` | the composition, its fairness and its properties |
| `TaskDelivery` | abstract: what the pipeline promises about a task |
| `Oversize`, `OversizeLoop` | the cut stated declaratively, and the loops of the code |
| `ConversationBuffer` | the handlers of one session and the proxy in front of them |
| `SessionLog` | abstract: what the buffer promises about rounds |
| `MemoryPipeline` | `MemoryPipelineManager`, its runners' cursors, `performAutoCapture`; shutdown, crash and recovery |
| `PermitPool` | `WorkerPermitPool` |
| `TaskWorker` | `PipelineWorker` and `TimerScanner` of several processes, on top of `PermitPool` |
| `SkillVersions` | the changes of one skill: `SkillCore`, `SkillVersioning`, the SQLite table and the directories |
| `MC*` | constants of the TLC runs |
| `SequenceProofs` | lemmas about `Keep`, totals and longest prefixes |
| `OversizeLoopProofs` | the loops compute the cut |
| `SkillPipelineProofs` | proofs about the pipeline: types, archives, locks |
| `SkillTaskProofs` | proofs about the pipeline: the life of a task, its refinement of `TaskDelivery`, the queue |
| `ConversationBufferProofs` | proofs about the buffer, and its refinement of `SessionLog` |
| `MemoryPipelineProofs` | proofs about cursors, wake-ups and the persona |
| `TaskWorkerProofs` | proofs about permits, locks, jobs and messages of the workers |
| `SkillVersionsProofs` | proofs about heads, files, directories and the ledger |

### Skill pipeline

A process is an `archive()` call (the set `Tasks`, since each call draws a new
task id) or a worker loop (`Workers`); it runs on a pod (`PodOf`). `pc` says at
which await a process stands, so every action is the code between two awaits.
Redis is `list`, `members`, `mutex`, `xlock`; the object store is `archives`,
`tasks`, `dlq`. What a process read before an await is kept in `doc` (the copy
of the task file it is editing), `head` (the task it looks at) and `agent`.

| Code | Model |
|---|---|
| `SET key token NX PX` / `LUA_RELEASE` | `MutexAcquire`, `MutexRelease`, `AcquireExtractLock`, `LeaveAgent` |
| `withTasksMutex(...)` waiting and giving up | `...Lock` labels, `Reject(.., "timeout", ..)` |
| `archive()` | `new` → `lock` → `read` → `write` → `sadd` → `lpush` → `ackUnlock` → `acked` |
| `consumeAgent()` | `acquire` ... `release` (returned) or `abort` (threw) |
| step 3, step 4, step 5 of consumeAgent | `head*`, `readArchive`/`extract`, `del*` |
| `handlePermanentFailure` | `pf*`, then `dlq*` outside the mutex |
| `peekAgent` (rotation, or RPOP) | `Peek`, `Peeked` |
| `workerLoop` branches | `ResolveResources`, `purge*`, `suppress` |
| `selfHealScan` | `scanPc`: `smembers` → `check` → `srem`, `lrem` or `lpush` |

A lock's token is the process id: a process never has two tokens out at the
same time, and a key whose holder died or failed to release becomes `Orphan`,
which only the TTL frees. A release that fails with a Redis error is swallowed
by the code; the model leaves the key to its TTL. `"lmove"` stands for the three
atomic strategies (LMOVE, EVALSHA, EVAL), which differ in how the command is
sent only. A queue object starts with the optimistic `"lmove"`; the probe in its first
peek sets the strategy of the server. `start()` asks before that, so the periodic scan
of a pool (`timer`) is never on, and only the scan at the start of a pod runs.
The renewal timer is abstracted: a key expires under a running
holder exactly when the fault `"lockLoss"` (extract-lock) or `"slowHolder"`
(tasks-mutex) happens. `setInterval` scans do not overlap in the model. Extraction
itself is one step with three outcomes (applied, transient error, permanent
error); a sink error is swallowed by the code after logging and is the same as
applied here.

`FaultKinds` selects what may go wrong and `MaxFaults` how often: `crash` (a pod
dies), `redis` (a command rejects), `storage` (a file operation rejects),
`timeout` (the wait for a mutex ends), `resolver` (a per-instance resource cannot
be built), `transient` (extraction fails without counting), `gc` (an archive is
removed by a lifecycle rule), `slowHolder`, `lockLoss`. Permanent extraction
failures are no faults: they may happen any number of times in every run.

### Conversation buffer

One session. `current` and `meta` are the two files. A call's handler is
`read` (both files, in either order, as `Promise.all` allows), then `archive`,
then `write` (both files in either order), then `done`; `failed` means the caller
got an error, `dead` that the node stopped. `plan` is what the handler decided
from what it had read, so a decision taken on stale data stays stale.
`inFlight` is the call the proxy awaits before it goes on. It awaits flushes and the
rounds of answers that were not streamed. A round in `Streamed` is pushed in the background,
after the client has had its answer from the other half of a `tee()`, so it comes at any
time, beside any other call and in any order, as a flush of the panel does (`Background`).
Nothing else keeps the handlers of a session apart, and `Spec` lets them overlap.
`SerialSpec` is the same with the premise that Core's comments state: calls come from
everywhere and may time out, but no step starts a handler while another one works, its
late writes included (`Busy`). Each property says which of the two it is about. `archived` and `omitted`
record what was delivered and what a placeholder names, `overlapped` that two handlers of the session have
worked at once.
`trigger.archive` is one step here, with
a failure before or after its registration (`archive`, `archiveLate`), because
`SkillTrigger` has the inside.

A message is an atom with a raw and a compressed size. The score of
`evaluateSopBoundary` is arbitrary where its guards let it be computed.
`Promise.all` rejects at the first failure and cancels nothing, so the other
write of a failed handler still happens (`Writing`).

### Oversize

`Oversize` says what is kept: the longest prefix within `HeadKeepBytes` and,
of the rest, the longest suffix within `TailKeepBytes`, at least one message
each. `Totals` has the sum (as a number of bytes, without recursion, so that it can be
reasoned about) and that prefix. `OversizeLoop` has the two greedy loops with their two
exits. `Oversize` is used by `ConversationBuffer` in its declarative form, which is how a lemma about a loop
keeps the state space of the handler small.

### Memory pipeline

A row is its `recorded_at`; `rows[s]` are those of a session in the order they
were written, and a turn's `stamp` is the counter that stands for the clock. A
capture is `Capture` (the stamp is taken), `UpsertRows` (all rows at once in a
local store, one await apart in a remote one: `StoreAwaits`), `Notify` (up to
the save of the states) and `NotifySaved` (the decision after it, with the
threshold read before and the count read after). Every caller of
`notifyConversation` passes no messages, so the buffers of the manager are
always empty and are left out; what asks for a filled buffer only cancels a timer.

| Code | Model |
|---|---|
| `sessionStates`, `pipeline_states` of the checkpoint | `state`, `saved`; `Persist` merges as `mergePipelineStates` does |
| `l1Idle`, `l2Schedule` (`ManagedTimer`) | `idle`, `l2timer` ("soon": delay after L1, "max": poll) |
| `SerialQueue` of L1, L2, L3 | `l1q`/`l1`, `l2q`/`l2`, `l3` |
| `runL1` of the factory: query, slice, extract, mark | `L1Read` (`Queried`, `Slice`, `Backlog`), `L1Extract`, `L1Mark` |
| `onL1Complete`, `onL1Failed` | `L1Finish`, `L1Fail` |
| `onL2TimerFired`, `runL2`, `armL2MaxInterval` | `L2Fires`, `L2Read`, `L2Finish`/`L2Fail`, `Poll` |
| `triggerL3`, `runL3` | `TriggerL3`, `L3End` |
| `gcStaleSessions`, `flushSession` | in `NotifySaved`; `FlushSession` |
| `destroy`, restart, `recoverPendingSessions` | `Destroy`, `FlushTimers`, `Restart` |

Time is abstract: a timer may fire whenever it is armed, an idle key may have
grown cold when its poll fires and old enough for the collector at any notify.
`forgot`, `personaOwed` and `extracted` are histories. `forgot` names the keys whose
work has no wake-up for a reason that is in the code, each assignment at the
statement that loses it; the properties are about all other ways.

### Pipeline workers

A `Coroutine` is a consume loop or a recovered task of a process (`PodOf`), at
`run[c].step` of `processTask`: `permit` (waits in the pool), `lock`, `wait`
(back-off of a taken lock), `requeued`/`dropping`, `exec`, `acking` (`ackTask` is
awaited), `acked` (`cascadeSchedule` is), `failed`, `sleep` (the back-off of a retry),
`release` (the finally block).

| Code | Model |
|---|---|
| `acquire`, `release` of the pool | `Acquire`, `Release`, `Woken` |
| `consumeLoop`, `claimStaleTasks` | `Consume`, `Claim` (of a live coroutine's message: the fault `"slow"`) |
| `acquireLock` with its retries | `Lock`, `LockFails` |
| requeue, give up | `GiveUp`, `GivenUp` |
| renewal timer, up to the finally block | `RenewFails`: another owner, or a call that rejects while the lock is owned (the fault `"renew"`) |
| success, `ackTask`, `cascadeSchedule` | `Succeed`, `AckTask`, `Cascade`, `CascadeFails` |
| catch block: no retry once `lockLost` is set | `Catch` |
| retry, dead letter | `Fail`, `BackOff`, `ReEnqueue`, `DeadLetter` |
| finally | `Finally` |
| `TimerScanner.scanOnce` | `Scan`, `ScanEnqueue`, `ScanFails` |
| `stop()`; the process exits | `Stop`; `Crash` |

A message is its job, its retry and requeue counts and a number that tells copies
apart (the stream id). A lock is owned by a process, since all coroutines of a process
share its `workerId`. A lock that nobody renews (its process is dead, its last renewal failed, or its
release did) may expire at any time; one that is renewed expires as the fault `"expire"`.
`lost` is a history: the jobs whose only trace was in a process
that died or in a call that failed, so that the property about the others says something. An L3 is
in it when the cascade of its L2 rejects after the lock was lost: the catch block then returns without a retry, and
the message is acknowledged.

### Skill versions

A call goes through `read` (the client has seen a version), `called` (head and
expected version are checked), `source` and `target` (`copyTree` lists the directory of the head's row
and that of the new version), `copy` and `apply` (one await per file), `store` (`appendVersion` reads the head), `insert`
(the transaction), and leaves the clean-up of old versions running (`expire`,
`purge`, `purgeDir`). A deletion is `list`, `delete`, `rmdirs`; so is the
roll-back of a creation whose report failed. A row is its version, head flag,
directory, manifest, and the version its writer had seen and expected; a file is its path.

The object store is the local backend. A directory is the set of its names, and
of `Here` once it exists: `copyTree` takes a directory that does not exist for "nothing to
copy", and one without files for a source of no files. A listing is what `walkDir`
returns (`Listed`): no name that ends in `.meta.json` (`Hidden`), a resource file of the
user's included, and, with the fault `"list"`, any part of the rest, since it
swallows the errors of `readdir` and `stat`. `copyTree` goes on with what it got, so the copy is
partial and the append succeeds. A file that is gone when it is its turn is skipped (`Copy`).

`Crash` ends all calls and keeps rows and files. `overlapped` is a history: two
calls (not clean-ups) have worked at once.

## 3. Runs

Deadlock checking is off in every run: a pipeline whose calls are over and
whose queue is empty, a finished session and a finished loop have nothing left
to do.

| Run | Question | Instance |
|---|---|---|
| `failures` | does any interleaving with one failed await lose, duplicate or reorder a task, strand an agent, let a worker see a ghost, or break `TaskDelivery` | 1 agent, 2 calls, 2 workers, 2 retries |
| `crash` | do the keys of dead holders ever let two processes in; does the queue drain and every accepted task leave it | 2 pods, 1 call, 2 workers, fair |
| `downgrade` | do late holders leave other keys alone, under the downgraded peek | 1 agent and 1 legacy tuple, 1 call, 2 workers, 7 fault kinds |
| `v_selfheal` | is a popped agent found again under the downgraded peek | violated without any fault, see 6 |
| `buffer_serial` | where handlers take turns, do files, counters, bounds and log agree | 4 rounds (2 streamed), 1 flush, 1 panel flush, 1 fault of 3 kinds, `SerialSpec` |
| `buffer_faults` | what survives overlapping handlers, failures, crashes and time-outs; how long do files disagree that a fault has torn apart | 2 rounds (1 streamed), 1 flush, 1 panel flush, 1 fault of 6 kinds |
| `oversize` | do the loops compute the definition | all payloads of up to 5 messages of 1..5 bytes |
| `memory` | is any row or memory skipped or left without a wake-up; is the persona newer than the last scene; do memories become scenes | 1 session and its profile, 2 turns of 1 or 2 rows, batches of 2, 1 fault of 5 kinds, fair |
| `v_same_ms` | the same rows in a store that writes them one await apart | violated, see 6 |
| `worker` | do permits, locks, retries, requeues and claims lose or double a job or the L3 of a finished L2; does every job end | 2 processes, 3 coroutines, 1 permit each, an L2 and its L3 on one lock, 1 fault of 7 kinds, fair |
| `versions` | do heads, files, versions and billing agree under overlapping calls, clean-ups, failures and crashes | 3 calls of 5 kinds, 2 files (1 named like a sidecar), 1 fault of 6 kinds |
| `v_stale` | does the expected version protect against overlapping updates | violated, see 6 |

**Why these bounds.** Every hazard of the locks and the queue needs two actors: a
holder and one that comes beside it; two calls and two workers give each pair
(call and call, call and worker, worker and worker) and a third actor repeats
one of them. Two tasks are the least for which "head of the file" and "order of
registration" mean something, and for a call that registers while the other's
task is being deleted. `PermanentMaxRetries = 2` has a counted failure and a
dead-lettering one; where it is 1, the run is about something else. One fault
per behaviour at any await is what a partial failure is. `crash` has two pods so
that one goes on while the other is dead. In the buffer, round 1 stays under
both thresholds, round 2 brings both counters exactly to their limits (3 tools,
6 bytes), round 3 is compressed and cut, round 4 is a plain user message of one
byte, so all branches of the handler are taken. In `buffer_faults`, one round that is
torn apart, and a round, a flush or a panel's flush after it that archives, show how the files agree
again; that a second fault changes nothing is left to the theorem (`AgreeAgainCorrect`). In `oversize` the two budgets
together exceed the limit, the only case in which head and tail can meet.

In `memory`, batches of 2 and turns of up to 2 rows make each kind of backlog:
none, a tail (3 rows: the second turn is split from the first), and a full one (4
rows, twice the batch size); `everyNConversations = 2` has one step of the warm-up
and its end; one retry has both branches of a failure. In `worker`, two
coroutines of one process compete for its permit and for the lock with a third one
of another process; one retry and one requeue have a step below and at each
limit. A follow-up that is forgotten takes two faults, a renewal
that fails and an enqueue that fails: with two the run is too long, and that nothing else happens to follow-ups under any
number of faults is left to the theorem (`FollowUpsKept`). In `versions`, three calls are what it takes for a clean-up of one call
beside the next append and a deletion; `KeepRecent = 0` lets the clean-up take
every version but the head; one of the two files has the name of a sidecar, so that a copy of both kinds is made. Calls are symmetric there, and the run
has safety properties only. Every action and every disjunct of each next-state
relation is taken by some run.

**Fairness.** All fairness is weak and only given to what the event loop does by itself.

* `SkillPipeline`: a call that has begun goes on, a loop peeks and consumes,
  suppression expires after 200 ms, a pod that is down is started again, a running
  scan makes progress, and a key without a holder reaches its TTL.
  Nothing obliges a client to call, a permanent failure to stop or a fault to
  happen. Weak fairness per process is enough because another process holds a mutex
  for finitely many steps; that a loop which waits for a mutex gets it in the end
  is not assumed by strong fairness, it is what the model shows with the wait's
  time-out as a fault.
* `MemoryPipeline`: an armed L2 timer fires, and a task of the L1 or the L2 queue
  that runs comes to an end; a runner fails at most `MaxFaults` times. L3, captures,
  flushes and shutdowns are free to happen or not.
* `TaskWorker`: each coroutine that has a message goes on (`Work`), some idle one
  reads the stream, some idle one claims a message that nobody works on, scanners
  tick, and a lock that nobody renews expires. Giving up after a long wait, claims of a
  slow coroutine's message and faults are not fair.

`ConversationBuffer`, `OversizeLoop` and `SkillVersions` have safety properties only
and no fairness.

**Mutants.** Beside an action there may be a variant of it marked "Mutant",
which is not part of any next-state relation: it is the action with a plausible
bug, and `PROJECT.json` names the property that must fail with it.

## 4. Properties

Skill pipeline and buffer:

* `MutexExclusion`, `ExtractExclusion`: two processes are never in the
  critical section of one agent, nor do two workers extract one agent.
* `OnlyOwnerUnlocks`: a late holder leaves its successor's key alone.
* `NoStrandedAgent`: an agent with tasks whose mutex is free is in the set *and*
  in the list. `SADD` answers 0 for a member, so a set-only agent is never
  pushed again.
* `NoGhost`: a task never becomes visible before its archive, so no worker
  deletes a real one as a ghost.
* `NoAcceptedTaskVanishes`, `SettledOnce`, `InRegistrationOrder`,
  `DeliversTasks` (refinement of `TaskDelivery`): what happens to a task.
  Delivery is at least once; `SettledOnce` says each extra time costs a fault.
* `AcceptedTaskIsTaken`, `QueueDrains`: liveness, with an atomic peek. Under the downgraded one
  `AcceptedTaskIsTaken` is what `v_selfheal` violates.
* `SessionSerial`: two handlers of a session never work at once. The code does not ensure it (section 6), so
  it is no property of any run: it is the premise of `SerialSpec` and `SerialSurvive`.
* `CountersMatch`, `BufferBounded`, `ImplementsLog` (refinement of `SessionLog`): the buffer of a
  session whose handlers take turns (`SerialSpec`). `BufferBounded` has
  one exception that is in the code: a topic switch writes the new round back
  without comparing it to the thresholds (`add-handler.ts:194`).
* `FilesAgreeAgain`: the two files may be torn apart by a failing write or a dead node; a handler that
  archives makes them agree, and one that finds them in agreement keeps them so, as long as no two handlers
  have worked at once (`overlapped`).
* `WholeRounds`, `SerialSurvive`: what is left under failures, crashes and
  handlers that overlap: never a part of a round, and no answered round lost by a
  handler that nobody overlapped.
* `CutIsLongest`: the loops of the cut find the longest head, then the longest
  tail of the rest, and keep them disjoint.

Memory pipeline:

* `NothingSkipped`: a row at or below the cursor has been extracted. The query asks
  for later times only, so a row that is skipped once is skipped for ever.
* `RowsHaveWakeUp`, `RecordsHaveWakeUp`: whatever waits for L1 or L2 has a timer, a
  queue entry or a running task that will come to it, but for the named ways to lose it.
* `RecordsReachScenes`: memories are folded into scenes in the end (liveness).
* `PersonaCurrent`: an L3 has started after the last L2 whenever none runs.

Workers:

* `PermitsKept`: the counter of a pool is the number of coroutines that will
  return a permit.
* `LockExclusion`: tasks of one key execute one at a time.
* `NoJobLost`, `FollowUpsCome`: a job that is not settled, and the L3 of an L2 that
  succeeded, are in a timer, a message or the hands of a coroutine, but for the named ways to lose one. One of
  these is the follow-up of an L2 whose cascade fails after its lock was lost (section 6).
* `OneMessagePerJob`: without faults, retries and requeues replace their message, so
  the recovery of stale messages never starts a task a second time.
* `JobsEnd`: every job is executed, buried, dropped after its last requeue, or lost
  with what failed (liveness).

Skill versions:

* `OneHead`: whatever overlaps and fails, one row is the head and it is the newest.
* `SerialReadable`: while calls do not overlap and directories can be read, the files of every version
  in the table are there, but for those named like sidecars. Both exceptions are in the code (section 6).
* `SerialNoOverwrite`: a version was written by a call that had seen the one before it.
* `LedgerMatches`: what was reported for billing is the number of rows.
* `NextDirFree`: a failed call leaves no directory in the way of later appends.

## 5. Proofs

Every theorem is about all values of the constants that satisfy the assumptions
named in the modules: any number of sessions, calls, workers, processes, coroutines
and messages, any batch sizes, thresholds and capacities, any set of fault kinds and any
`MaxFaults`. The column says what is assumed beyond that.

| Theorem | States | Assumes |
|---|---|---|
| `TypeCorrect` (`SkillPipelineProofs`) | `Spec => []TypeOK` | nothing more |
| `NoGhostCorrect` (`SkillPipelineProofs`) | `Spec => []NoGhost` | `"gc" \notin FaultKinds` |
| `MutexCorrect` (`SkillPipelineProofs`) | `Spec => []MutexExclusion` | `"slowHolder" \notin FaultKinds` |
| `ExtractCorrect` (`SkillPipelineProofs`) | `Spec => []ExtractExclusion` | `"lockLoss" \notin FaultKinds` |
| `UnlockCorrect` (`SkillPipelineProofs`) | `Spec => OnlyOwnerUnlocks` | nothing more |
| `OrderCorrect` (`SkillTaskProofs`) | `Spec => InRegistrationOrder` | `LocksLast` |
| `SettledCorrect` (`SkillTaskProofs`) | `Spec => []SettledOnce` | `LocksLast` |
| `AcceptedCorrect` (`SkillTaskProofs`) | `Spec => []NoAcceptedTaskVanishes` | `Recoverable` |
| `DeliveryCorrect` (`SkillTaskProofs`) | `Spec => DeliversTasks` | `Recoverable` |
| `StrandedCorrect` (`SkillTaskProofs`) | `Spec => []NoStrandedAgent` | `QueueServed` |
| `TypeCorrect` (`ConversationBufferProofs`) | `Spec => []TypeOK` | nothing more |
| `WholeCorrect` (`ConversationBufferProofs`) | `Spec => []WholeRounds` | nothing more |
| `SurviveCorrect` (`ConversationBufferProofs`) | `Spec => SerialSurvive` | nothing more |
| `CountersCorrect` (`ConversationBufferProofs`) | `SerialSpec => []CountersMatch` | no failing writes, no crashes |
| `BoundedCorrect` (`ConversationBufferProofs`) | `SerialSpec => []BufferBounded` | the same; both thresholds positive |
| `AgreeAgainCorrect` (`ConversationBufferProofs`) | `Spec => FilesAgreeAgain` | nothing more |
| `LogCorrect` (`ConversationBufferProofs`) | `SerialSpec => ImplementsLog` | no failing writes, no crashes, no archive that fails after its registration |
| `CutCorrect` (`OversizeLoopProofs`) | `Spec => []CutIsLongest` | nothing more |
| `TypeCorrect` (`MemoryPipelineProofs`) | `Spec => []TypeOK` | nothing more |
| `NothingSkippedCorrect` (`MemoryPipelineProofs`) | `Spec => []NothingSkipped` | `~StoreAwaits` |
| `RowsWakeUpCorrect` (`MemoryPipelineProofs`) | `Spec => []RowsHaveWakeUp` | nothing more |
| `RecordsWakeUpCorrect` (`MemoryPipelineProofs`) | `Spec => []RecordsHaveWakeUp` | nothing more |
| `PersonaCorrect` (`MemoryPipelineProofs`) | `Spec => []PersonaCurrent` | nothing more |
| `TypeCorrect` (`TaskWorkerProofs`) | `Spec => []TypeOK` | nothing more |
| `LockCorrect` (`TaskWorkerProofs`) | `Spec => []LockExclusion` | nothing more |
| `PermitsCorrect` (`TaskWorkerProofs`) | `Spec => []PermitsKept` | nothing more |
| `JobsKept` (`TaskWorkerProofs`) | `Spec => []NoJobLost` | nothing more |
| `FollowUpsKept` (`TaskWorkerProofs`) | `Spec => []FollowUpsCome` | nothing more |
| `MessagesReplaced` (`TaskWorkerProofs`) | `Spec => []OneMessagePerJob` | nothing more |
| `TypeCorrect` (`SkillVersionsProofs`) | `Spec => []TypeOK` | nothing more |
| `HeadCorrect` (`SkillVersionsProofs`) | `Spec => []OneHead` | nothing more |
| `SerialCorrect` (`SkillVersionsProofs`) | `Spec => []SerialNoOverwrite` | nothing more |
| `LedgerCorrect` (`SkillVersionsProofs`) | `Spec => []LedgerMatches` | nothing more |
| `ReadableCorrect` (`SkillVersionsProofs`) | `Spec => []SerialReadable` | nothing more |
| `NextDirCorrect` (`SkillVersionsProofs`) | `Spec => []NextDirFree` | nothing more |
| `KeepProperties` (`SequenceProofs`) | a filter keeps exactly the wanted elements, in order | nothing more |

### The assumptions on the constants

Each module names its own (`ASSUME`), and TLC evaluates them in the runs. Most say what
kind of value a constant is. Those that say more:

* `FollowUpAssumption` (`TaskWorker`): each L2 enqueues an L3 of its own, so no two jobs share a follow-up.
* `FiniteAssumption` (`MemoryPipeline`), finitely many calls in `SkillVersions` and
  `ConversationBuffer`: a process serves finitely many of them.
* `RowsPerCapture \subseteq 0..BatchProcess` (`MemoryPipeline`): a turn has at most a batch of rows.
* `OccurrencesAssumption` (`ConversationBuffer`): a message is an occurrence in one round, so that
  the same text sent twice is two messages. `WholeRounds` could not say "once" otherwise.

### Skill pipeline

`TypeOK` of the skill pipeline is inductive as it stands. It is more than types: it says at which
labels the locals are set, which later arguments need (a worker inside a
critical section serves an agent, not `NoAgent`).

`MutexExclusion` is not inductive: from a state where a process is in a critical
section without owning the key, another one can enter. `HoldsMutex` (whoever is
inside owns the key) is the strengthening, together with `TypeOK`. A step
is *quiet* if no mutex changes and nobody enters; acquire, release, expiry and
crash are the steps that are not. The assumption is needed: with a holder slower
than its 10 s TTL the property fails.

`ExtractExclusion` is proved the same way from `HoldsExtractLock` (whoever
consumes an agent beyond `acquire` owns its extract-lock). The two locks are
independent: the proof allows slow holders of the mutex, the other one allows lost
extract-locks.

`OnlyOwnerUnlocks` uses the converse, `KeysHeld`: whoever a key names is inside what
the key protects. This one survives late holders (a holder may be inside without
its key, never outside with it) and needs `DownIsOff`, the loops of a pod that is
down are off: otherwise a pod that starts could move a holder to the top of
its loop with the key still in its name.

`NoGhost` is about the moment a worker looks for an archive, but the task it looks
at has come a long way. `ArchiveInv` says that a task has its archive wherever it
may be: in the task file and the dead-letter file, in the copy any process is editing, in
a worker's hand, and for a call between the archive write and the registration.

The theorems of `SkillTaskProofs` name what they assume of the faults:

* `LocksLast`: neither `"slowHolder"` nor `"lockLoss"`; crashes, failing commands and files,
  time-outs and removed archives are allowed.
* `Recoverable`: besides, no `"storage"`, `"crash"` or `"gc"`; and `"redis"` only if no queue
  object falls back to the downgraded peek strategy (`OnlyAtomic`).
* `QueueServed`: no `"slowHolder"`, `"crash"` or `"redis"`, and `OnlyAtomic`; lost extract-locks
  and a failing object store are allowed.

These assumptions are needed. With any one fault added, TLC finds a counterexample in the instance of
`failures`, with `MaxFaults = 1`: `InRegistrationOrder` falls to either lock, `NoAcceptedTaskVanishes` to each
of the five faults and to `"redis"` under the downgraded strategy, `NoStrandedAgent` to each of the three, and to
the downgraded strategy alone. The one exception is `SettledOnce` with `"lockLoss"`: TLC finds it true
there, and only the argument below needs the assumption.

`InRegistrationOrder` is about one step, the extraction, but needs that what the worker read at the head of
the file some awaits ago is the head still. `FileInv` says so (`HeadsFirst`), and has to say of every
process about to write a file that the copy in its hands is up to date (`CopiesFresh`), which is
what the mutex is for, and that nobody else takes the head away, which is what the extract-lock is for. It
also follows a dead task out of one file and into the other (`DeadTaken`), between two critical sections.

`SettledOnce` is a budget. That a task is settled at most once more than there were faults is not
inductive: a second extraction is paid by a fault that happened earlier, between the first
extraction and the deletion. `Budget` therefore has a second half: as long as a task is `Open`
(on file with nobody about to delete it, or on its way to the dead-letter file) it has been settled no more often than
there were faults, so that the settlement to come is within the limit.

`NoAcceptedTaskVanishes` and `DeliversTasks` share `DeliveryInv`. A registered task is on file,
extracted, or `Buried`; only an extracted one is deleted; and a worker that has taken a dead task out of the
file does not leave before it is in the other one (`Interred`). The last is where the assumptions are
spent: each of the five faults, and a requeue that fails on the downgraded strategy, comes between the two files, deletes what
is not extracted, or writes an old copy over a file. The refinement is proved step by step: `DeliveryInvStep` shows together with the
invariant that a step changes the status of at most one task, and along an arrow of `TaskDelivery`.

`NoStrandedAgent` looks only at agents whose mutex is free, and says nothing of the moments in between. `QueueInv`
does. `Listed` follows an enqueue: an agent with tasks is in the set, or the holder of its mutex is about to
add it; one in the set is in the list, or the holder is about to push it. `RemovedEmpty` follows a removal: whoever takes
an agent off the queue holds the mutex and has seen an empty file, which stays empty, and removes it from the set
before the list. `PlacesRight` keeps the purge of legacy tuples, which needs no mutex, away from agents. With the atomic
strategies a peek is a rotation (`RotationRange`) and leaves no moment at which an agent is in nobody's list.

### Conversation buffer and oversize

Three of the theorems are about `SerialSpec`, in which no handler starts while another one works. That is a
premise, no result: the proxy does not keep it (section 6), and Core has nothing that would. It is in the
specification and not in the faults, because what breaks it, streamed rounds, time-outs and calls of the panel,
is all in `SerialSpec`, in any order. `SerialInv` adds to it that a handler which is idle has nothing left to write.

`WholeRounds` speaks of the file only, but what is written to it was read and
extended earlier, maybe before another handler's write. `WholeInv` therefore says of *every*
text of the session, the file, what each handler has read and what it has planned, that each
round is in it once (`Once`: whole, in order, disjoint from what is before and after) or not
at all, and that the text has nothing of a round whose handler has not decided yet. The
second half is what makes an append safe on stale data: whatever a handler has read, its own
round is not in it.

`SerialSurvive` has `[]SessionSerial` as its premise and no other, so its proof covers every fault. `KeepInv` says
per call what it would take to lose nothing: what it has read is what the buffer still
holds, and once it has archived, the buffer is covered by the archive, the text it
writes back and the placeholder. A handler that died between the archive and the clearing
leaves the buffer as it was: a message is then twice somewhere, never nowhere.

`CountersMatch` and `BufferBounded` come from one invariant, `BufferInv`: when no handler
writes the files agree and the buffer is `Fine` (`AtRest`); a handler that has read has read what they hold, and
what it plans to write agrees and is fine (`BufferOf`). That counters which are added up
are those of the joined text is `ByteCountJoined` and `ToolCallCountJoined`. A
threshold of 0 would make "below the threshold" false of an empty buffer, hence the
assumption of `BoundedCorrect`; the defaults of the code are positive.

`FilesAgreeAgain` is what is left of `CountersMatch` under failing writes and crashes, and holds under every
fault. `AgreeInv` follows one handler from its plan to its last write: a plan that archives, or
that extends files which were in agreement, has counters that are those of its messages, and since nobody else writes
meanwhile, a file that is no longer to be written is the planned one. The theorem is about `Spec`: as long as nothing has
`overlapped`, a handler that starts does so alone (`TakeTurns`), and after that the property says nothing.

`ImplementsLog` is the refinement of `SessionLog`, action by action. The log's `pending` is what the buffer holds or,
until the file is written, what the handler that writes has still to put there; a handler's step into `write`
is the log's step (`Accept`, `SwitchTopic`, `AcceptAndDeliver`, or `Deliver` for a flush), a failure before it is `Reject`, and
reading, deciding and writing are stutters. `LogInv` has to say of a handler about to archive that its plan is one
of the deliveries which the log allows for what the buffer holds *now*, not only for what was read. `archiveLate` is
among the assumptions since the caller of an archive that fails after its registration has an error and
the archive is there, which no step of the log does.

`CutIsLongest` is proved with `CutInv`: what a loop has kept adds up to its counter and fits, and a
loop that ended has the longest prefix. `LoopEnds` shows that the two exits of a loop (the budget is
reached; the next message would exceed it) and its end (no message is left) all mean that: no
longer prefix fits because no message is empty, which is the only thing the proof needs of sizes.

### Memory pipeline

`NothingSkipped` compares times with a cursor, and its proof is about the batch. `Inv`
says that rows are in the order of their times, that a turn which is yet to be
written is later than every row and than the cursor, that at most one batch of rows
has the same time, and that the batch in the hands of L1 is `Whole`: it has every
row past the cursor and up to its last one. `SliceWhole` is the heart of it: a
query of twice the batch size that is cut after the last row of the millisecond in
which the first batch ends leaves out nothing in between. The rows before such a
row are those before the end of the first batch (fewer than a batch) and those of its own
millisecond (fewer than a batch without itself), so the query cannot have missed
it. The assumption is needed: `v_same_ms` is the counterexample without it.

`PersonaCurrent` needs that a persona which is owed has a running L3 with another one
pending.

`RecordsHaveWakeUp` rests on `RecordsInv`, which adds to the types that L2 cannot have read more than is
stored, and that the L1 in progress counts as a wake-up of the profile it will tell. `RowsHaveWakeUp` is the
hardest of this module. That an L1 ends without asking for another one is right only if its query has seen
all rows, so `RowsInv` has the order of the rows again, in a form that holds for both stores: rows are sorted (`Sorted`), a
block of one time is no larger than a batch (`SmallBlocks`), what a capture has still to write comes after what is written
(`Ordered`), and captures write their rows before they notify (`WritesFirst`). From these `NothingBehind`
shows that a query which returns no backlog leaves no row behind it. The proof does
not assume a local store: with a remote one rows may be *skipped* (`v_same_ms`), but a row that is not
skipped is woken.

The proof of `RowsHaveWakeUp` found an error of the model that TLC's bounds had hidden: the history `forgot`
recorded that an L1 gives up only when its retries are *equal* to the maximum. The code compares with
`>=`, and with a maximum of 0 and two failures the count passes it. The model now compares as the code does.

### Workers

`TypeOK` of the workers needs that a coroutine at work has a message, and that the waiters
of a living process wait, each at one place of its queue (`WaitersWait`), without which a
release could move a coroutine that has a permit. That a new message differs from all
others rests on there being finitely many. `LockExclusion` is proved from `LockInv`:
the lock of a task that executes names the process of its coroutine *and* no other
task that executes has its key. The second half cannot be had from the first, since
two coroutines of one process have the same name in the lock. `RenewInv` says that without the three
faults a coroutine in its task owns its lock and has not lost it: since a lock expires when nobody renews it, that it is renewed up to the finally
block is part of the argument. `PermitInv` counts:
a hand-over takes one coroutine out of the holders and puts the first waiter in, so the
counter must stay.

`NoJobLost` and `FollowUpsCome` share `JobInv`. A job may be carried by a timer, by a batch in a scanner's hands, by a
message on the stream, by a pending message, or by a coroutine between the acknowledgement of its message and what it
enqueues next; and most steps move it from one to another. `Carrier` names them, with the coroutines at
the steps that still bring an open job back (`Retrying`) or a finished one to its follow-up (`Following`). That a
renewal may fail at each of these steps is why the step from `acked` splits on `lockLost`: with the lock the failing
cascade goes on to a retry, without it the follow-up is one of `lost`. Two things that look like
carriers are none: a pending message which is already replaced, and a coroutine whose message is
still pending, since another process may claim that message. That a claimed or acknowledged message is the one meant needs
`QueueFresh`: no two messages are equal.

`OneMessagePerJob` cannot be had from the messages alone: between the acknowledgement of a message and
the enqueueing of its successor a job has none, but a coroutine that will make one, and a second carrier at that moment would be a second
message later. `OneInv` says of each job that it has one *token* (a place in the timers, in a
scan, or a live message, which includes the one in such a coroutine's hands), and that each coroutine holds a message of its own (`HoldOnce`).

### Skill versions

`OneHead` is inductive with the shapes of rows and calls: the transaction looks for
its number and for another head before it writes. `SerialNoOverwrite` rests on
`Based`: as long as calls do not overlap, a call on its way from the check to the
transaction still has the head that it checked, since what clean-ups remove is never
the head; a creation is alone until its row is there.

`TypeInv` bounds the version numbers by the number of calls that have gone past their transaction, so `MaxVersion` (which the
assumption ties to the number of calls) never stops a call: no behaviour of the code is cut off by it.

`LedgerMatches` is about moments at which nothing runs; `LedgerInv` is its form for all others. `Balance`: the
ledger, and the creations that are not yet reported, are together the rows, and the rows whose deletion is not reported
yet. Each call owes or is owed a number of rows, and any two calls may do so at once.

`SerialReadable` needs to know of directories that no row names yet, and is proved for a set of names that every copy
has (`Sure`): all but the hidden ones, and none after a listing has failed. `FilesInv`: each row's sure files are `Stored`;
a call on its way to the transaction has `Placed` what it has copied so far, and what it copies from is `Held`, by
a row that no clean-up will take. Here the retention of the code does the work: a clean-up never
takes the head, and a call that does not overlap with another one copies from the head.

`NextDirFree` rests on `DirsInv`: nothing lies beyond the next version, and the directory of the next version is
empty unless the one call that fills it is at work or is about to undo what it copied.

### Sequences and sums

`KeepProperties` needs no induction over sequences with an operator parameter: it
proves that a finite set of naturals has an increasing enumeration, by an
explicit construction, and the filter is that enumeration. In the same way a sum is not defined by recursion
but as the number of bytes (`Totals`), and that it adds sizes up is a lemma about
cardinalities (`TotalOfUnion`, `TotalMoved`, `TotalOfPrefix`).

### Model-checked only

* `AcceptedTaskIsTaken`, `QueueDrains`, `RecordsReachScenes`, `JobsEnd`: liveness. Fairness and `ENABLED`
  are outside the proof system.
* `SettledOnce` with lost extract-locks, see above.
* The properties of the runs that end with a violation; `AcceptedTaskIsTaken` holds with an atomic peek
  (`crash`), `NothingSkipped` with a local store.

## 6. Disagreements between code and comments

Three runs show one that TLC must find violated.

* `v_selfheal`. `start()` decides about the self-heal timer from
  `getPeekStrategy()` (`worker-pool.ts:144`) before any peek has probed the server, and reads the
  default `"lmove"` (`agent-task-queue.ts:591`). `agent-task-queue.ts:107` requires the timer on the
  downgraded path. The run needs no fault: a loop pops an agent whose lock another one held shortly before, skips
  it as suppressed (`worker-pool.ts:294`), and it is in the set only from then on.
* `v_same_ms`. `pipeline-factory.ts:510` promises that no row is lost at the boundary
  of a millisecond, also when all rows of a turn have one stamp. A remote store makes these
  rows visible one await apart (`auto-capture.ts:181`); an L1 that was due already
  reads the first of them, moves the cursor to that millisecond, and the others are
  never asked for. The local store writes them in one transaction, and `memory` shows
  the promise kept there.
* `v_stale`. `skill-permission.ts:58` says that a stale expected version is refused to
  prevent overwriting. The check (`skill-core.ts:313`) and the read of the head that the
  new number comes from (`skill-store.ts:300`) are awaits apart: two updates that
  expect version 1 both succeed.

The following have no run of their own: most are exceptions that the properties
name, or can be seen by changing a configuration as described.

Skill pipeline and buffer:

* `core-client.ts:129` says that a session is strictly serial, the next round after the 200 of this
  one, and `core-client.ts:281` calls that the premise of Core. For a streamed answer the handler returns one half of a
  `tee()` (`anthropicHandler.ts:1342`, `:1380`; `codexHandler.ts:1060` and `workbuddyHandler.ts:599` tee as well) and
  pushes the round from a background function when the stream has ended (`:1795`, `:1989`); nothing holds the next
  round back. Two such rounds work on the same files, and either may be written over by the other, without any fault.
  (`SessionSerial` or `AckedSurvive` as an invariant of `Spec` with `Streamed = {1, 2}` and `MaxFaults = 0` in
  `buffer_faults`.)
* `buffer-storage.ts:241` says that the proxy keeps a session serial. Besides the streamed rounds,
  the panel's route calls force-archive at any time: a round written between the flush's read and its clearing
  write is answered with success and archived by no one. (`AckedSurvive` as an invariant of
  `Spec` with `PanelFlushes` not empty.)
* `trigger-service.ts:20` says that a failed call leaves an orphan archive only.
  If `enqueueAgent` rejects (`trigger-service.ts:201`), the task is registered too.
  (`FaultKinds = {"redis"}` in `failures`.)
* `agent-task-queue.ts:534`: SADD succeeded and LPUSH rejected leaves the agent
  in the set only, on the atomic strategies until the next start.
  (`NoStrandedAgent` with `"redis"`.)
* `extract-worker.ts:635`: an error of `appendDlq` is swallowed after the task
  has left `_tasks.json`; it is written outside the mutex (`extract-worker.ts:629`).
  (`NoAcceptedTaskVanishes` with `"storage"`.)
* `agent-task-queue.ts:731`: the tasks-mutex is not renewed; a holder that needs
  longer than the TTL runs beside the next one. (`MutexExclusion` with `"slowHolder"`.)
* `core-client.ts:381`: the proxy's time-out is shorter than Core's mutex wait.
  (`SessionSerial` as an invariant with `Streamed = {}` and the fault `"timeout"`.)
* `handler-glue.ts:157` swallows a failed push; `trigger-service.ts:103` counts
  on a retry that nobody makes.
* A tuple of an older release under the downgraded peek whose purge fails stays in the set until the next
  start. (`QueueDrains` with `Legacy = {old}`, that strategy and the fault `"redis"`. Under
  an atomic strategy it holds: `crash` with one pod, `Agents = {a1, old}` and the faults `"resolver"` and `"timeout"`.)

Memory pipeline (`pipeline-manager.ts`):

* `:781`: the next round of a full backlog is enqueued while the running task still
  counts as queued, and is skipped; `:635`: so is a threshold that is reached while an
  L1 of the session runs. The rows wait for the next turn.
* `:748`: an L1 that fails after some groups were stored tells L2 about none of them.
* `:1107` says that a collected session "can be fully restored" from the checkpoint; nothing
  but a new turn does, and what was pending for L2 waits for it.
* `:871`: the last active time of a profile key is never written, so a poll may find a
  profile cold whose sessions are active.
* `:1159`: recovery re-arms L2 only; rows that waited for an L1 wait for the next turn.
* `flushSession` with an empty buffer cancels the idle timer of the session and
  enqueues nothing.
* `stateful-pipeline-manager.ts:341` arms the L2 poll with a key that is not scoped like the
  others.

Workers (`pipeline-worker.ts`):

* `:489` says that a lost lock must not leave a task that is off the
  stream with half of its effects. The renewal timer may set `lockLost` (`:460`, `:475`) while `ackTask` or
  `cascadeSchedule` is awaited; if the cascade then rejects, the catch block returns without a retry (`:519`), with
  the L2 acknowledged and no L3 enqueued. (`\A j \in Jobs : Cascades(j)` as an invariant of `worker` with
  `FaultKinds = {"redis", "renew"}` and `MaxFaults = 2`.)
* `:284` says that every branch releases the permit in finally. `acquireLock` is called outside
  (`:349`, `:377`): if it rejects, the permit is gone. (`PermitsKept` without its exception.)
* `:75` says that a pending message is stale only after its lock has run out; the default
  `pendingStaleMs` is 5 minutes, that of `lockTtlMs` 10.
* `:762` calls `buildPipelineTimerMember`, which the file does not import.
* `:551`: all coroutines of a process share one lock owner; a coroutine whose lock has run out
  and was taken by another one of its process releases or renews the other one's.
* `:224`: `stop` gives the locks of running tasks back while they run on.
* `:541`: the lock and the permit are kept while a retry waits.
* `timer-scanner.ts:149`, `:170`: claimed timers are lost with their process, and after a failing
  enqueue.

Skill versions (`skill-versioning.ts`):

* `adapter.ts:241` says that `copyTree` copies every object. On the local backend a
  listing leaves out names that end in `.meta.json` (`local-backend.ts:266`), and whatever `readdir` or `stat` failed
  on (`:256`, `:294`): the next version of a skill has a row that names files which are not in its directory.
  (`SerialReadable` without `\ Hidden`, which needs no fault, or without `"list" \notin faults`.)
* `:244`: a copy that fails, or a crash before the row, leaves a directory no row names. From
  then on every append ends with `DESTINATION_EXISTS`.
* `:299`: the loser of two appends cleans up the directory of the winner, whose number it had too.
  (`SerialReadable` without `~overlapped`.)
* `:353`: an append that overlaps a deletion brings the skill back with one version and
  number, or finds its row gone.
* `:188`: the roll-back of a creation deletes versions that others have appended meanwhile,
  and reports none of them.

## 7. Not modelled

* Millisecond collisions of archive keys (`buffer-storage.ts:246`): a key is unique per call.
* Torn or corrupt files of the local backend (`buffer-storage.ts:276`): a file operation is atomic.
* `tasksPerRound` other than its default of 1.
* The in-memory queue of a standalone process (`agent-task-queue.ts:210`): the same operations
  made atomic, but lost at a restart.
* Buffer paths have no instance id (`buffer-storage.ts:154`); one instance per storage prefix is
  assumed, as `buffer-storage.ts:26` states.
* Memory pipeline: more than a batch of rows in one turn (a millisecond with twice a batch of rows
  would be cut by the query); a failure of single groups of an L2, which moves the cursor of all;
  the flag `_deferredEnqueue`, which nothing reads; several processes on one checkpoint.
* Workers: the immediate skip of an `offload-l2` whose lock is taken; `destroy` of the permit pool,
  which nothing calls; the executors. Jobs without a lock key are in the model and not in the run.
* Skill versions: an object store other than the local backend, whose listings fail instead of being short;
  the sidecars themselves; the remote store (`tcvdb-skill-store.ts:175`), which has no transaction; the limit
  of 50 versions in `listVersions`; byte quotas; search; more than one skill, as skills share nothing.
* The purge of an instance (`gateway/server.ts:2140`), which deletes keys that workers hold.
* Text: prompts, compression, boundary scores, model output.
* The components marked "not modelled" in the inventory. Most of them are routing, translation of
  protocols, prompt text, database access with one transaction per request, or user interface.

## 8. Plan

The order puts the path a conversation takes first, then what runs beside it.

1. Done: skill pipeline, conversation buffer, oversize strategy; `TaskDelivery` and `SessionLog`
   as abstract specifications.
2. Done: the local memory pipeline; pipeline workers with their permit pool and timer scanner;
   skill versions.
3. Done: the theorems of section 5.
4. Next: `StatefulPipeline` (`stateful-pipeline-manager.ts`, `core/state/*`): counters, sharded
   timers and keys in front of `TaskWorker`. The remote skill store as a second implementation
   of the table of `SkillVersions`.
5. `InstancePurge`: deletion of an instance's keys beside the pipeline, composed with
   `SkillPipeline`; and the in-memory queue with a restart. Then the task states of the offload server.
6. Theorems still to prove: `SettledOnce` with lost extract-locks, from a budget that charges the second worker's
   extraction to the lost lock.
