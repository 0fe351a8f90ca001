---------------------------- MODULE MemoryPipeline ----------------------------
(***************************************************************************)
(* The local memory pipeline: performAutoCapture writes the rows of a turn *)
(* (L0) and notifies MemoryPipelineManager, whose serial queues run the L1 *)
(* extraction past a persisted cursor, the L2 scene extraction of the keys *)
(* that L1 returns, and the L3 persona.  A task is cut at its awaits.      *)
(*                                                                         *)
(* Every caller of notifyConversation passes no messages, so the buffers   *)
(* of the manager are always empty and left out: the flushes that ask for  *)
(* a filled buffer only cancel a timer.  Time is abstract: an L2 timer is  *)
(* "soon" (delay after L1) or "max" (poll), and any idle key may have      *)
(* grown cold when its poll fires, or be old enough for the collector.     *)
(***************************************************************************)
EXTENDS Integers, SequencesExt

CONSTANTS
  Sessions, Profiles,  \* keys of captures, and keys of L2 that L1 returns
  ProfileOf,           \* the profile scope of a session's memories
  NoKey, NoState,
  BatchProcess,        \* L1_BATCH_PROCESS; a query asks for twice as many
  EveryN,              \* everyNConversations
  MaxRetries,          \* L1_MAX_RETRIES
  StoreAwaits,         \* the store writes rows one await apart (remote)
  RowsPerCapture, MaxCaptures,  \* bounds: rows of a turn, turns of a session
  FaultKinds, MaxFaults         \* which faults happen, and how many at most

Keys == Sessions \cup Profiles
AllFaults == {"query", "l1", "l2", "soft", "crash"}

ASSUME KeysAssumption ==
  /\ Sessions \cap Profiles = {} /\ NoKey \notin Keys
  /\ ProfileOf \in [Sessions -> Profiles]
  /\ \A s, t \in Sessions : ProfileOf[s] = ProfileOf[t] => s = t

\* A process hears of finitely many sessions.
ASSUME FiniteAssumption == IsFiniteSet(Keys)

ASSUME BoundsAssumption ==
  /\ BatchProcess \in Nat \ {0} /\ EveryN \in Nat \ {0} /\ MaxRetries \in Nat
  /\ RowsPerCapture \subseteq 0..BatchProcess /\ MaxCaptures \in Nat
  /\ StoreAwaits \in BOOLEAN /\ FaultKinds \subseteq AllFaults /\ MaxFaults \in Nat

SessionState == [count : Nat, pending : Nat, warm : 0..EveryN, upTo : Nat]

ASSUME NoStateAssumption == NoState \notin SessionState

VARIABLES
  rows,       \* rows[s]: the rows in the store, each its recorded_at
  capture,    \* [stamp, rows still to write, step, threshold read before the save]
  cursor,     \* last_l1_cursor of the checkpoint
  records,    \* number of stored L1 results of a session
  state,      \* sessionStates: the PipelineSessionState of a key, or NoState
  saved,      \* pipeline_states of the checkpoint
  idle,       \* sessions whose l1Idle timer is pending
  l2timer,    \* l2Schedule of a key: "none", "soon" or "max"
  l1q, l1,    \* L1 queue, and what its running task has read
  l2q, l2,    \* the same for L2
  l3,         \* [running, pending]
  retries,    \* l1RetryCount
  ran,        \* keys with an l2LastRunTime
  life,       \* "up", "flushL1", "flushL2" (destroy)
  extracted,  \* history: rows handed to the L1 extraction
  forgot,     \* history: keys whose pending work lost its wake-up
  personaOwed,\* history: an L2 completed and no L3 has started since
  faults

vars == <<rows, capture, cursor, records, state, saved, idle, l2timer, l1q, l1, l2q, l2,
          l3, retries, ran, life, extracted, forgot, personaOwed, faults>>

Data == <<rows, capture, cursor, records, extracted>>
Timers == <<idle, l2timer>>
L1Side == <<l1q, l1, retries>>
L2Side == <<l2q, l2, ran>>
L3Side == <<l3, personaOwed>>
Memory == <<state, saved>>

-----------------------------------------------------------------------------
NoTask1 == [session |-> NoKey, phase |-> "idle", batch |-> {}, left |-> "none", stored |-> FALSE]
NoTurn == [stamp |-> 0, todo |-> 0, step |-> "none", at |-> 0]
NoTask2 == [key |-> NoKey, upTo |-> 0]

NewState == [count |-> 0, pending |-> 0, warm |-> 1, upTo |-> 0]
StateOf(k) == IF state[k] = NoState THEN NewState ELSE state[k]

L1Queued(s) == l1.session = s \/ \E i \in DOMAIN l1q : l1q[i] = s
L2Queued(k) == l2.key = k \/ \E i \in DOMAIN l2q : l2q[i] = k

EffectiveThreshold(st) ==
  IF st.warm = 0 \/ st.warm > EveryN THEN EveryN ELSE st.warm

\* Mutant: the threshold doubles for ever.
DoubleWarmup(st) == IF st.warm = 0 THEN st ELSE [st EXCEPT !.warm = 2 * @]

AdvanceWarmup(st) ==
  IF st.warm = 0 THEN st
  ELSE [st EXCEPT !.warm = IF 2 * @ >= EveryN THEN 0 ELSE 2 * @]

\* mergePipelineStates keeps the entries of keys that memory has forgotten.
Persist(new) == saved' = [k \in Keys |-> IF new[k] = NoState THEN saved[k] ELSE new[k]]

Fault(kind) ==
  /\ kind \in FaultKinds /\ faults < MaxFaults
  /\ faults' = faults + 1

-----------------------------------------------------------------------------
(* L1 batches. *)

Past(s) == {i \in DOMAIN rows[s] : rows[s][i] > cursor[s]}

\* The oldest rows past the cursor, at most 2 * BatchProcess of them.
Queried(s) == {i \in Past(s) : Cardinality({j \in Past(s) : j < i}) < 2 * BatchProcess}

\* Mutant: a batch ends in the middle of a millisecond.
SliceUnaligned(s) == {i \in Queried(s) : Cardinality({j \in Past(s) : j < i}) < BatchProcess}

\* The first BatchProcess rows, and those that share the last one's time.
Slice(s) ==
  {i \in Queried(s) :
     \E j \in Queried(s) :
       /\ Cardinality({h \in Past(s) : h < j}) < BatchProcess
       /\ rows[s][i] <= rows[s][j]}

Backlog(s) ==
  IF Queried(s) = Slice(s) THEN "none"
  ELSE IF Cardinality(Queried(s)) = 2 * BatchProcess THEN "full" ELSE "tail"

-----------------------------------------------------------------------------
Init ==
  /\ rows = [s \in Sessions |-> <<>>]
  /\ capture = [s \in Sessions |-> NoTurn]
  /\ cursor = [s \in Sessions |-> 0] /\ records = [s \in Sessions |-> 0]
  /\ state = [k \in Keys |-> NoState] /\ saved = [k \in Keys |-> NoState]
  /\ idle = {} /\ l2timer = [k \in Keys |-> "none"]
  /\ l1q = <<>> /\ l1 = NoTask1 /\ retries = [s \in Sessions |-> 0]
  /\ l2q = <<>> /\ l2 = NoTask2 /\ ran = {}
  /\ l3 = [running |-> FALSE, pending |-> FALSE]
  /\ life = "up"
  /\ extracted = [s \in Sessions |-> {}]
  /\ forgot = {} /\ personaOwed = FALSE /\ faults = 0

\* A turn ends: its rows get one recorded_at and are written in order.
Capture(s, n) ==
  /\ life = "up" /\ capture[s].step = "none" /\ capture[s].stamp < MaxCaptures
  /\ capture' = [capture EXCEPT ![s].stamp = @ + 1, ![s].todo = n, ![s].step = "write"]
  /\ UNCHANGED <<rows, cursor, records, extracted, Memory, Timers, L1Side, L2Side, L3Side, life, forgot, faults>>

UpsertRows(s) ==
  /\ capture[s].todo > 0
  /\ \E n \in IF StoreAwaits THEN {1} ELSE {capture[s].todo} :
       /\ rows' = [rows EXCEPT ![s] = @ \o [i \in 1..n |-> capture[s].stamp]]
       /\ capture' = [capture EXCEPT ![s].todo = @ - n]
  /\ UNCHANGED <<cursor, records, extracted, Memory, Timers, L1Side, L2Side, L3Side, life, forgot, faults>>

\* notifyConversation up to the save of the states.
Notify(s) ==
  LET st == [StateOf(s) EXCEPT !.count = @ + 1]
  IN /\ capture[s].step = "write" /\ capture[s].todo = 0
     /\ IF life # "up"
        THEN capture' = [capture EXCEPT ![s].step = "none"] /\ UNCHANGED <<state, retries>>
        ELSE /\ capture' = [capture EXCEPT ![s].step = "save", ![s].at = EffectiveThreshold(st)]
             /\ state' = [state EXCEPT ![s] = st]
             /\ retries' = [retries EXCEPT ![s] = 0]
     /\ UNCHANGED <<rows, cursor, records, extracted, saved, Timers, l1q, l1, L2Side, L3Side, life, forgot, faults>>

\* A timer or a task of a session keeps it from growing old.
Dormant(k) ==
  /\ state[k] # NoState /\ ~L2Queued(k)
  /\ k \in Sessions => k \notin idle /\ ~L1Queued(k) /\ l2timer[k] # "soon" /\ capture[k].step = "none"

\* enqueueL1: a session that is queued keeps its timer and is not queued again.
EnqueueL1(s, others) ==
  IF L1Queued(s)
  THEN idle' = others /\ forgot' = forgot \cup {s} /\ UNCHANGED l1q
  ELSE idle' = others \ {s} /\ l1q' = Append(l1q, s) /\ UNCHANGED forgot

\* The rest of it: the count is read again, the threshold is the earlier one.
\* gcStaleSessions forgets dormant keys, their timers included.
NotifySaved(s) ==
  /\ capture[s].step = "save"
  /\ capture' = [capture EXCEPT ![s].step = "none", ![s].at = 0]
  /\ Persist(state)
  /\ IF state[s].count >= capture[s].at
     THEN EnqueueL1(s, idle) /\ UNCHANGED <<state, l2timer, ran>>
     ELSE \E gone \in SUBSET {k \in Keys : Dormant(k)} :
            /\ s \notin gone
            /\ idle' = idle \cup {s}
            /\ l2timer' = [k \in Keys |-> IF k \in gone THEN "none" ELSE l2timer[k]]
            /\ state' = [k \in Keys |-> IF k \in gone THEN NoState ELSE state[k]]
            /\ ran' = ran \ gone
            /\ forgot' = forgot \cup gone
            /\ UNCHANGED l1q
  /\ UNCHANGED <<rows, cursor, records, extracted, l1, retries, l2q, l2, L3Side, life, faults>>

\* flushSession with an empty buffer: the idle timer goes, nothing comes.
FlushSession(s) ==
  /\ life = "up" /\ s \in idle
  /\ idle' = idle \ {s}
  /\ forgot' = forgot \cup {s}
  /\ UNCHANGED <<Data, Memory, l2timer, L1Side, L2Side, L3Side, life, faults>>

\* A timer that fires after destroy only clears itself.
IdleFires(s) ==
  /\ s \in idle
  /\ IF life = "up" THEN EnqueueL1(s, idle \ {s})
     ELSE idle' = idle \ {s} /\ UNCHANGED <<l1q, forgot>>
  /\ UNCHANGED <<Data, Memory, l2timer, l1, retries, L2Side, L3Side, life, faults>>

-----------------------------------------------------------------------------
L1Read(s) ==
  /\ l1.session = NoKey /\ l1q # <<>> /\ Head(l1q) = s
  /\ l1q' = Tail(l1q)
  /\ \/ /\ l1' = [session |-> s, phase |-> "read", batch |-> Slice(s), left |-> Backlog(s), stored |-> FALSE]
        /\ forgot' = forgot \ {s} /\ UNCHANGED faults
     \/ /\ Fault("query")     \* the store answers an error with no rows
        /\ l1' = [NoTask1 EXCEPT !.session = s, !.phase = "read"]
        /\ forgot' = forgot \cup {s}
  /\ UNCHANGED <<Data, Memory, Timers, retries, L2Side, L3Side, life>>

L1Extract(stored) ==
  /\ l1.phase = "read" /\ l1.batch # {}
  /\ extracted' = [extracted EXCEPT ![l1.session] = @ \cup l1.batch]
  /\ records' = IF stored THEN [records EXCEPT ![l1.session] = @ + 1] ELSE records
  /\ l1' = [l1 EXCEPT !.phase = "extracted", !.stored = stored]
  /\ UNCHANGED <<rows, capture, cursor, Memory, Timers, l1q, retries, L2Side, L3Side, life, forgot, faults>>

\* markL1ExtractionComplete: the cursor never goes back.
L1Mark(s) ==
  /\ l1.session = s /\ l1.phase = "extracted"
  /\ \E i \in l1.batch :
       /\ \A j \in l1.batch : rows[s][j] <= rows[s][i]
       /\ cursor' = [cursor EXCEPT ![s] = IF rows[s][i] > @ THEN rows[s][i] ELSE @]
  /\ l1' = [l1 EXCEPT !.phase = "marked"]
  /\ UNCHANGED <<rows, capture, records, extracted, Memory, Timers, l1q, retries, L2Side, L3Side, life, forgot, faults>>

\* advanceL2Timer: an armed timer is kept, or moved earlier when it is a poll.
Advanced(k) == IF life # "up" THEN {l2timer[k]}
               ELSE IF l2timer[k] = "max" THEN {"soon", "max"} ELSE {"soon"}

\* Mutant: a small tail waits for the next turn.
LeftToIdleNothing(s) == idle

\* A small tail is left to the idle timer; the next round of a full backlog
\* is never queued, as this task still is.
LeftToIdle(s) == IF l1.left = "tail" THEN idle \cup {s} ELSE idle

\* Success: the counts, and the L2 timer of the key it touched.
L1Finish(s) ==
  LET key == IF l1.stored THEN ProfileOf[s] ELSE s
      counted == [state EXCEPT ![s] = AdvanceWarmup([StateOf(s) EXCEPT !.count = 0])]
      new == [counted EXCEPT ![key] = [(IF @ = NoState THEN NewState ELSE @) EXCEPT !.pending = 1]]
  IN /\ l1.session = s
     /\ l1.phase = "marked" \/ (l1.phase = "read" /\ l1.batch = {})
     /\ retries' = [retries EXCEPT ![s] = 0]
     /\ state' = new /\ Persist(new)
     /\ \E t \in Advanced(key) : l2timer' = [l2timer EXCEPT ![key] = t]
     /\ idle' = LeftToIdle(s)
     /\ forgot' = (forgot \ (IF life = "up" THEN {key} \ {s} ELSE {}))
                    \cup (IF l1.left = "full" THEN {s} ELSE {})
     /\ l1' = NoTask1
     /\ UNCHANGED <<Data, l1q, L2Side, L3Side, life, faults>>

RetryAgain(s) == retries[s] + 1 <= MaxRetries

\* A failed run keeps its rows for a retry; what it had stored is stored.
L1Fail(s) ==
  /\ Fault("l1")
  /\ l1.session = s /\ l1.phase # "marked"
  /\ retries' = [retries EXCEPT ![s] = @ + 1]
  /\ idle' = IF RetryAgain(s) THEN idle \cup {s} ELSE idle
  /\ forgot' = forgot \cup (IF retries[s] >= MaxRetries THEN {s} ELSE {})
                      \cup (IF l1.stored THEN {ProfileOf[s]} ELSE {})
  /\ l1' = NoTask1
  /\ UNCHANGED <<Data, Memory, l2timer, l1q, L2Side, L3Side, life>>

-----------------------------------------------------------------------------
(* L2 scenes and L3 persona. *)

\* Mutant: a run that is over, well or badly, arms no poll.
NoPoll(k) == UNCHANGED l2timer

\* armL2MaxInterval: whatever was armed before.
Poll(k) == l2timer' = IF life = "up" THEN [l2timer EXCEPT ![k] = "max"] ELSE l2timer

\* onL2TimerFired: a poll that finds its key cold is the last one.
Cold(k) == l2timer[k] = "max" /\ Dormant(k)

EnqueueL2(k) == l2q' = IF L2Queued(k) THEN l2q ELSE Append(l2q, k)

L2Fires(k) ==
  /\ l2timer[k] # "none"
  /\ l2timer' = [l2timer EXCEPT ![k] = "none"]
  /\ \/ life # "up" /\ UNCHANGED <<l2q, forgot>>
     \/ life = "up" /\ EnqueueL2(k) /\ UNCHANGED forgot
     \/ life = "up" /\ Cold(k) /\ forgot' = forgot \cup {k} /\ UNCHANGED l2q
  /\ UNCHANGED <<Data, Memory, idle, L1Side, l2, ran, L3Side, life, faults>>

\* The records that an L2 key selects.
RecordsOf(k) ==
  IF k \in Sessions THEN records[k]
  ELSE IF \E s \in Sessions : ProfileOf[s] = k
       THEN records[CHOOSE s \in Sessions : ProfileOf[s] = k] ELSE 0

L2Read(k) ==
  /\ l2.key = NoKey /\ l2q # <<>> /\ Head(l2q) = k
  /\ l2q' = Tail(l2q)
  /\ l2' = [key |-> k, upTo |-> RecordsOf(k)]
  /\ UNCHANGED <<Data, Memory, Timers, L1Side, ran, L3Side, life, forgot, faults>>

\* Mutant: an L2 that ends while an L3 runs owes no further L3.
TriggerL3Once ==
  /\ personaOwed' = l3.running
  /\ l3' = [l3 EXCEPT !.running = TRUE]

\* triggerL3: a running L3 has read the scenes too early and runs again.
TriggerL3 ==
  /\ personaOwed' = l3.running
  /\ l3' = IF l3.running THEN [l3 EXCEPT !.pending = TRUE]
           ELSE [running |-> TRUE, pending |-> FALSE]

\* Mutant: the cursor stays where it is.
SeenBeforeL2(k) == StateOf(k).upTo

\* The cursor of the next L2 is that of the records this one has read.
SeenByL2(k) == l2.upTo

\* L2 ends.  Without new records, or with an extraction that changed nothing
\* ("empty"), the first run of a key counts for nothing; a failed extraction
\* is no error, and keeps the cursor as an empty one does.
L2Finish(k, how) ==
  LET st == StateOf(k)
      skipped == l2.upTo <= st.upTo \/ how = "empty"
      new == [state EXCEPT ![k] =
                [st EXCEPT !.pending = 0, !.upTo = IF skipped \/ how = "failed" THEN @ ELSE SeenByL2(k)]]
  IN /\ l2.key = k
     /\ IF how = "ok" THEN UNCHANGED faults ELSE l2.upTo > st.upTo /\ Fault("soft")
     /\ state' = new /\ Persist(new)
     /\ Poll(k)
     /\ IF skipped /\ k \notin ran
        THEN UNCHANGED <<ran, L3Side>>
        ELSE /\ ran' = ran \cup {k}
             /\ IF life = "up" THEN TriggerL3 ELSE UNCHANGED L3Side
     /\ l2' = NoTask2
     /\ UNCHANGED <<Data, idle, L1Side, l2q, life, forgot>>

L2Fail(k) ==
  /\ Fault("l2")
  /\ l2.key = k
  /\ Poll(k)
  /\ l2' = NoTask2
  /\ UNCHANGED <<Data, Memory, idle, L1Side, l2q, ran, L3Side, life, forgot>>

\* An L3 ends, well or badly; one that is pending starts at once.
L3End ==
  /\ l3.running
  /\ IF l3.pending /\ life = "up"
     THEN l3' = [running |-> TRUE, pending |-> FALSE] /\ personaOwed' = FALSE
     ELSE l3' = [l3 EXCEPT !.running = FALSE] /\ UNCHANGED personaOwed
  /\ UNCHANGED <<Data, Memory, Timers, L1Side, L2Side, life, forgot, faults>>

-----------------------------------------------------------------------------
(* Shutdown and restart. *)

Destroy ==
  /\ life = "up"
  /\ life' = "flushL1"
  /\ idle' = {}
  /\ UNCHANGED <<Data, Memory, l2timer, L1Side, L2Side, L3Side, forgot, faults>>

\* The L1 queue is idle: the pending L2 timers are flushed, in any order.
FlushTimers ==
  /\ life = "flushL1" /\ l1.session = NoKey /\ l1q = <<>>
  /\ life' = "flushL2"
  /\ \E cold \in SUBSET {k \in Keys : Cold(k)} :
       \E keys \in SetToSeqs({k \in Keys \ cold : l2timer[k] # "none" /\ ~L2Queued(k)}) :
         l2q' = l2q \o keys
  /\ l2timer' = [k \in Keys |-> "none"]
  /\ UNCHANGED <<Data, Memory, idle, L1Side, l2, ran, L3Side, forgot, faults>>

\* recoverPendingSessions: only L2 timers come back.
Recovered(st) ==
  IF st = NoState THEN NoState
  ELSE [st EXCEPT !.pending = IF @ > st.count THEN @ ELSE st.count, !.count = 0]

\* The process ends and starts: destroy saves the states when the queues are
\* idle or two seconds over, a crash happens in the middle of anything.
Restart ==
  /\ \/ life \in {"flushL1", "flushL2"} /\ Persist(state) /\ UNCHANGED faults
     \/ life = "up" /\ Fault("crash") /\ UNCHANGED saved
  /\ life' = "up"
  /\ capture' = [s \in Sessions |-> [NoTurn EXCEPT !.stamp = capture[s].stamp]]
  /\ state' = [k \in Keys |-> Recovered(saved'[k])]
  /\ idle' = {}
  /\ l2timer' = [k \in Keys |-> IF state'[k] # NoState /\ state'[k].pending > 0 THEN "soon" ELSE "none"]
  /\ forgot' = {k \in Keys : l2timer'[k] = "none"} \cup Sessions
  /\ l1q' = <<>> /\ l1' = NoTask1 /\ retries' = [s \in Sessions |-> 0]
  /\ l2q' = <<>> /\ l2' = NoTask2 /\ ran' = {}
  /\ l3' = [running |-> FALSE, pending |-> FALSE] /\ personaOwed' = FALSE
  /\ UNCHANGED <<rows, cursor, records, extracted>>

Next ==
  \/ \E s \in Sessions :
       \/ \E n \in RowsPerCapture : Capture(s, n)
       \/ UpsertRows(s) \/ Notify(s) \/ NotifySaved(s) \/ FlushSession(s) \/ IdleFires(s)
       \/ L1Read(s) \/ L1Mark(s) \/ L1Finish(s) \/ L1Fail(s)
  \/ \E stored \in BOOLEAN : L1Extract(stored)
  \/ \E k \in Keys :
       \/ L2Fires(k) \/ L2Read(k) \/ L2Fail(k)
       \/ \E how \in {"ok", "failed", "empty"} : L2Finish(k, how)
  \/ L3End
  \/ Destroy \/ FlushTimers \/ Restart

Spec == Init /\ [][Next]_vars

\* Timers fire and the tasks of a queue end: setTimeout, and a runner that
\* answers or fails, which it does at most MaxFaults times.
FairSpec ==
  /\ Spec
  /\ \A k \in Keys : WF_vars(L2Fires(k))
  /\ WF_vars(\E s \in Sessions : L1Read(s) \/ L1Extract(TRUE) \/ L1Mark(s) \/ L1Finish(s))
  /\ WF_vars(\E k \in Keys : L2Read(k) \/ L2Finish(k, "ok"))

-----------------------------------------------------------------------------
TypeOK ==
  /\ rows \in [Sessions -> Seq(Nat)]
  /\ capture \in [Sessions -> [stamp : Nat, todo : Nat, step : {"none", "write", "save"}, at : Nat]]
  /\ cursor \in [Sessions -> Nat] /\ records \in [Sessions -> Nat]
  /\ state \in [Keys -> SessionState \cup {NoState}]
  /\ saved \in [Keys -> SessionState \cup {NoState}]
  /\ idle \subseteq Sessions /\ l2timer \in [Keys -> {"none", "soon", "max"}]
  /\ l1q \in Seq(Sessions)
  /\ l1 \in [session : Sessions \cup {NoKey}, phase : {"idle", "read", "extracted", "marked"},
             batch : SUBSET Nat, left : {"none", "tail", "full"}, stored : BOOLEAN]
  /\ retries \in [Sessions -> Nat]
  /\ l2q \in Seq(Keys) /\ l2 \in [key : Keys \cup {NoKey}, upTo : Nat] /\ ran \subseteq Keys
  /\ l3 \in [running : BOOLEAN, pending : BOOLEAN]
  /\ life \in {"up", "flushL1", "flushL2"}
  /\ extracted \in [Sessions -> SUBSET Nat]
  /\ forgot \subseteq Keys /\ personaOwed \in BOOLEAN /\ faults \in Nat

\* A row at or below the cursor has been extracted: no query will show it
\* again, so a row that is not would never become a memory.
NothingSkipped == \A s \in Sessions : \A i \in DOMAIN rows[s] :
  rows[s][i] <= cursor[s] => i \in extracted[s]

\* The rows of a session without a turn in progress are extracted, or wait
\* for a timer or a queued L1; the exceptions are the known ways to lose the
\* wake-up: a run asked for while one is queued, a full backlog, the end of a
\* session, retries used up, a failed query, a restart.
RowsHaveWakeUp == \A s \in Sessions :
  /\ life = "up" /\ capture[s].step = "none" /\ s \notin forgot
  /\ Past(s) # {}
  => s \in idle \/ L1Queued(s)

\* A stored memory is read by L2, or waits for a timer or a task; the
\* exceptions: a poll that finds the key cold, an eviction, an L1 that failed
\* after it stored, a restart that finds nothing pending.
RecordsHaveWakeUp == \A s \in Sessions :
  LET p == ProfileOf[s]
  IN /\ life = "up" /\ p \notin forgot
     /\ records[s] > StateOf(p).upTo
     => l2timer[p] # "none" \/ L2Queued(p) \/ (l1.session = s /\ l1.stored)

\* When the persona queue is idle, an L3 has started after the last L2.
PersonaCurrent == life = "up" /\ ~l3.running => ~personaOwed

\* Whatever L2 and its polls do, stored memories become scenes.
RecordsReachScenes == \A s \in Sessions :
  LET p == ProfileOf[s]
  IN (records[s] > StateOf(p).upTo)
       ~> (records[s] <= StateOf(p).upTo \/ p \in forgot \/ life # "up")
=============================================================================
