--------------------------- MODULE TaskWorkerProofs ---------------------------
(***************************************************************************)
(* The invariants of TaskWorker for any processes, coroutines, jobs,       *)
(* capacities and faults: TypeOK, PermitsKept, LockExclusion, NoJobLost,   *)
(* FollowUpsCome and OneMessagePerJob.                                     *)
(***************************************************************************)
EXTENDS TaskWorker, FiniteSetTheorems, FunctionTheorems, SequenceTheorems, TLAPS

Runs == [msg : Message \cup {NoMessage}, step : Steps, lockLost : BOOLEAN]

\* A coroutine that works has a message.
RunsOK ==
  /\ run \in [Coroutines -> Runs] /\ up \subseteq Pods
  /\ \A c \in Coroutines : run[c].step # "idle" => run[c].msg \in Message

\* The waiters of a living process wait, each at one place of its queue.
WaitersWait == \A p \in up : \A i \in 1..Len(waiters[p]) :
  /\ PodOf[waiters[p][i]] = p /\ run[waiters[p][i]].step = "permit"
  /\ \A k \in 1..Len(waiters[p]) : waiters[p][k] = waiters[p][i] => k = i

PoolOK ==
  /\ inFlight \in [Pods -> 0..Capacity] /\ waiters \in [Pods -> Seq(Coroutines)]
  /\ WaitersWait

StreamOK == queue \in Seq(Message) /\ pending \subseteq Message /\ IsFiniteSet(pending)

RestOK ==
  /\ settled \in [Jobs -> {"new", "open", "done", "dead", "dropped"}]
  /\ timers \subseteq Jobs /\ scan \in [Pods -> SUBSET Jobs]
  /\ lock \in [LockKeys -> Pods \cup {Free}] /\ stopping \subseteq Pods
  /\ lost \subseteq Jobs /\ faults \subseteq AllFaults

TypeInv == RunsOK /\ PoolOK /\ StreamOK /\ RestOK

-----------------------------------------------------------------------------
\* Finitely many messages are known, so a new one can be told from them.
LEMMA KnownIsFinite == RunsOK /\ StreamOK => IsFiniteSet(Known)
<1> SUFFICES ASSUME RunsOK, StreamOK PROVE IsFiniteSet(Known)
  OBVIOUS
<1> DEFINE queued == {queue[i] : i \in DOMAIN queue}
           read == {run[c].msg : c \in Coroutines}
<1>1. IsFiniteSet(queued)
  <2>1. DOMAIN queue = 1..Len(queue) /\ Len(queue) \in Nat
    BY LenProperties DEF StreamOK
  <2>2. IsFiniteSet(DOMAIN queue)
    BY <2>1, FS_Interval
  <2>3. [i \in DOMAIN queue |-> queue[i]] \in Surjection(DOMAIN queue, queued)
    BY Fun_IsSurj
  <2> QED BY <2>2, <2>3, FS_Surjection
<1>2. IsFiniteSet(read)
  <2>1. [c \in Coroutines |-> run[c].msg] \in Surjection(Coroutines, read)
    BY Fun_IsSurj
  <2> QED BY <2>1, FS_Surjection, JobsAssumption
<1>3. IsFiniteSet(queued \cup pending)
  BY <1>1, FS_Union DEF StreamOK
<1> QED BY <1>2, <1>3, FS_Union DEF Known

LEMMA CopyType ==
  ASSUME RunsOK, StreamOK, NEW j, NEW retry, NEW requeue
  PROVE  /\ Copy(j, retry, requeue) \in Nat
         /\ [job |-> j, retry |-> retry, requeue |-> requeue,
             copy |-> Copy(j, retry, requeue)] \notin Known
<1> DEFINE n == Cardinality(Known)
           m(k) == [job |-> j, retry |-> retry, requeue |-> requeue, copy |-> k]
<1>1. IsFiniteSet(Known) /\ n \in Nat
  BY KnownIsFinite, FS_CardinalityType
<1>2. \E k \in 0..n : m(k) \notin Known
  <2>1. SUFFICES ASSUME \A k \in 0..n : m(k) \in Known PROVE FALSE
    OBVIOUS
  <2> DEFINE f == [k \in 0..n |-> m(k)]
  <2>2. f \in [0..n -> Known]
    BY <2>1
  <2>3. IsFiniteSet(0..n) /\ n < Cardinality(0..n)
    BY <1>1, FS_Interval
  <2>4. PICK x, y \in 0..n : x # y /\ f[x] = f[y]
    <3> HIDE DEF f
    <3> QED BY <1>1, <2>2, <2>3, FS_PigeonHole
  <2>5. m(x) = m(y)
    BY <2>4
  <2> QED BY <2>4, <2>5
<1> QED BY <1>1, <1>2 DEF Copy

\* A message that is enqueued is one.
LEMMA EnqueueType ==
  ASSUME RunsOK, StreamOK, NEW j \in Jobs, NEW retry \in Nat, NEW requeue \in Nat,
         Enqueue(j, retry, requeue)
  PROVE  queue' \in Seq(Message)
<1>1. Copy(j, retry, requeue) \in Nat
  BY CopyType
<1>2. [job |-> j, retry |-> retry, requeue |-> requeue, copy |-> Copy(j, retry, requeue)] \in Message
  BY <1>1 DEF Message
<1> QED BY <1>2 DEF Enqueue, StreamOK

-----------------------------------------------------------------------------
\* A coroutine with a permit moves on.
LEMMA MoveRuns ==
  ASSUME RunsOK, PoolOK, NEW c \in Coroutines, UNCHANGED <<up, waiters>>,
         run[c].step \notin {"idle", "permit"},
         \/ \E to \in Steps \ {"idle", "permit"} : Go(c, to)
         \/ run' = [run EXCEPT ![c].lockLost = TRUE]
  PROVE  RunsOK' /\ WaitersWait'
<1>1. /\ run' \in [Coroutines -> Runs]
      /\ \A d \in Coroutines : d # c => run'[d] = run[d]
      /\ run'[c].msg = run[c].msg /\ run'[c].step \notin {"idle", "permit"}
  <2>1. run[c] \in Runs
    BY DEF RunsOK
  <2>2. CASE \E to \in Steps \ {"idle", "permit"} : Go(c, to)
    BY <2>1, <2>2 DEF Go, RunsOK, Runs
  <2>3. CASE run' = [run EXCEPT ![c].lockLost = TRUE]
    BY <2>1, <2>3 DEF RunsOK, Runs
  <2> QED BY <2>2, <2>3
<1>2. RunsOK'
  BY <1>1 DEF RunsOK
<1>3. WaitersWait'
  <2>1. ASSUME NEW p \in up, NEW i \in 1..Len(waiters[p])
        PROVE  waiters[p][i] \in Coroutines /\ waiters[p][i] # c
    <3>1. waiters[p][i] \in Coroutines
      BY <2>1, ElementOfSeq DEF PoolOK, RunsOK
    <3> QED BY <2>1, <3>1 DEF PoolOK, WaitersWait
  <2> QED BY <1>1, <2>1 DEF PoolOK, WaitersWait
<1> QED BY <1>2, <1>3

\* A coroutine gives up its permit unpaired.
LEMMA DropRuns ==
  ASSUME RunsOK, PoolOK, NEW c \in Coroutines, UNCHANGED <<up, waiters>>,
         run[c].step \notin {"idle", "permit"}, run' = [run EXCEPT ![c] = Idle]
  PROVE  RunsOK' /\ WaitersWait'
<1>1. Idle \in Runs /\ Idle.step = "idle"
  BY DEF Idle, Runs, Steps
<1>2. RunsOK'
  BY <1>1 DEF RunsOK
<1>3. WaitersWait'
  <2>1. ASSUME NEW p \in up, NEW i \in 1..Len(waiters[p])
        PROVE  waiters[p][i] \in Coroutines /\ waiters[p][i] # c
    <3>1. waiters[p][i] \in Coroutines
      BY <2>1, ElementOfSeq DEF PoolOK, RunsOK
    <3> QED BY <2>1, <3>1 DEF PoolOK, WaitersWait
  <2> QED BY <2>1 DEF PoolOK, RunsOK, WaitersWait
<1> QED BY <1>2, <1>3

\* acquire: a permit or the last place of the queue.
LEMMA ProcessRuns ==
  ASSUME RunsOK, PoolOK, NEW c \in Coroutines, run[c].step = "idle", NEW m \in Message,
         Process(c, m), UNCHANGED up
  PROVE  RunsOK' /\ PoolOK'
<1> DEFINE p == PodOf[c]
           new == [msg |-> m, step |-> IF HasPermit(p) THEN "lock" ELSE "permit", lockLost |-> FALSE]
<1>1. p \in Pods /\ new \in Runs
  BY PoolAssumption DEF Runs, Steps
<1>2. run' = [run EXCEPT ![c] = new]
  BY DEF Process
<1>3. RunsOK'
  BY <1>1, <1>2 DEF RunsOK
<1>4. \A q \in up : \A i \in 1..Len(waiters[q]) : waiters[q][i] \in Coroutines /\ waiters[q][i] # c
  <2>1. ASSUME NEW q \in up, NEW i \in 1..Len(waiters[q])
        PROVE  waiters[q][i] \in Coroutines /\ waiters[q][i] # c
    <3>1. waiters[q][i] \in Coroutines
      BY <2>1, ElementOfSeq DEF PoolOK, RunsOK
    <3> QED BY <2>1, <3>1 DEF PoolOK, WaitersWait
  <2> QED BY <2>1
<1>5. CASE HasPermit(p)
  <2>1. inFlight' = [inFlight EXCEPT ![p] = @ + 1] /\ UNCHANGED waiters
    BY <1>5 DEF Process, Acquire
  <2>2. inFlight' \in [Pods -> 0..Capacity]
    BY <1>1, <1>5, <2>1, PoolAssumption DEF PoolOK, HasPermit
  <2>3. WaitersWait'
    BY <1>2, <1>4, <2>1 DEF WaitersWait, PoolOK, RunsOK
  <2> QED BY <1>3, <2>1, <2>2, <2>3 DEF PoolOK
<1>6. CASE ~HasPermit(p)
  <2>1. waiters' = [waiters EXCEPT ![p] = Append(@, c)] /\ UNCHANGED inFlight
    BY <1>6 DEF Process, Acquire
  <2>2. waiters' \in [Pods -> Seq(Coroutines)]
    BY <1>1, <2>1 DEF PoolOK
  <2>3. ASSUME NEW q \in up', NEW i \in 1..Len(waiters'[q])
        PROVE  /\ PodOf[waiters'[q][i]] = q /\ run'[waiters'[q][i]].step = "permit"
               /\ \A k \in 1..Len(waiters'[q]) : waiters'[q][k] = waiters'[q][i] => k = i
    <3>1. CASE q # p
      BY <1>2, <1>4, <2>1, <2>3, <3>1 DEF PoolOK, RunsOK, WaitersWait
    <3>2. CASE q = p
      <4>1. /\ waiters[p] \in Seq(Coroutines) /\ waiters'[p] = Append(waiters[p], c)
            /\ Len(waiters'[p]) = Len(waiters[p]) + 1 /\ Len(waiters[p]) \in Nat
            /\ waiters'[p][Len(waiters[p]) + 1] = c
            /\ \A k \in 1..Len(waiters[p]) : waiters'[p][k] = waiters[p][k]
        BY <1>1, <2>1 DEF PoolOK
      <4>2. run'[c].step = "permit"
        BY <1>2, <1>6 DEF RunsOK
      <4>3. \A k \in 1..Len(waiters[p]) : /\ PodOf[waiters[p][k]] = p
                                          /\ run'[waiters[p][k]].step = "permit"
                                          /\ waiters[p][k] # c
        BY <1>2, <1>4, <2>3, <3>2 DEF PoolOK, RunsOK, WaitersWait
      <4>4. \A k, l \in 1..Len(waiters[p]) : waiters[p][k] = waiters[p][l] => k = l
        BY <2>3, <3>2 DEF PoolOK, WaitersWait
      <4>5. CASE i = Len(waiters[p]) + 1
        BY <3>2, <4>1, <4>2, <4>3, <4>5
      <4>6. CASE i \in 1..Len(waiters[p])
        <5>1. PodOf[waiters'[p][i]] = p /\ run'[waiters'[p][i]].step = "permit"
          BY <4>1, <4>3, <4>6
        <5>2. \A k \in 1..Len(waiters'[p]) : waiters'[p][k] = waiters'[p][i] => k = i
          BY <4>1, <4>3, <4>4, <4>6
        <5> QED BY <3>2, <5>1, <5>2
      <4>7. i \in 1..Len(waiters[p]) \/ i = Len(waiters[p]) + 1
        BY <2>3, <3>2, <4>1
      <4> QED BY <4>5, <4>6, <4>7
    <3> QED BY <3>1, <3>2
  <2> QED BY <1>3, <2>1, <2>2, <2>3 DEF PoolOK, WaitersWait
<1> QED BY <1>5, <1>6

\* releasePermitOnce hands the permit to the first waiter, or counts down.
LEMMA LeaveRuns ==
  ASSUME RunsOK, PoolOK, NEW c \in Coroutines, PodOf[c] \in up,
         run[c].step \notin {"idle", "permit"}, Leave(c), UNCHANGED up
  PROVE  /\ RunsOK' /\ PoolOK'
         /\ run'[c] = Idle
         /\ \A d \in Coroutines \ {c} :
              \/ run'[d] = run[d]
              \/ run[d].step = "permit" /\ run'[d] = [run[d] EXCEPT !.step = "lock"]
<1> DEFINE p == PodOf[c]
<1>1. p \in Pods /\ p \in up /\ waiters[p] \in Seq(Coroutines) /\ inFlight[p] \in 0..Capacity
  BY PoolAssumption DEF PoolOK
<1>2. Woken(p) \subseteq Coroutines /\ \A d \in Woken(p) : run[d].step = "permit" /\ PodOf[d] = p
  <2>1. CASE waiters[p] = <<>>
    BY <2>1 DEF Woken
  <2>2. CASE waiters[p] # <<>>
    <3>1. Head(waiters[p]) = waiters[p][1] /\ 1 \in 1..Len(waiters[p]) /\ waiters[p][1] \in Coroutines
      BY <1>1, <2>2
    <3> QED BY <1>1, <2>2, <3>1 DEF Woken, PoolOK, WaitersWait
  <2> QED BY <2>1, <2>2
<1>3. /\ run'[c] = Idle
      /\ \A d \in Woken(p) : run'[d] = [run[d] EXCEPT !.step = "lock"]
      /\ \A d \in Coroutines \ {c} : d \notin Woken(p) => run'[d] = run[d]
  BY <1>2 DEF Leave
<1>4. RunsOK'
  <2>1. Idle \in Runs /\ Idle.step = "idle"
    BY DEF Idle, Runs, Steps
  <2>2. ASSUME NEW d \in Woken(p) PROVE run'[d] \in Runs /\ run'[d].msg = run[d].msg
    <3>1. run[d] \in Runs /\ run'[d] = [run[d] EXCEPT !.step = "lock"]
      BY <1>2, <1>3, <2>2 DEF RunsOK
    <3> QED BY <3>1 DEF Runs, Steps
  <2>3. \A d \in Coroutines : run'[d] \in Runs
    BY <1>3, <2>1, <2>2 DEF RunsOK
  <2>4. run' \in [Coroutines -> Runs]
    BY <2>3 DEF Leave
  <2>5. \A d \in Coroutines : run'[d].step # "idle" => run'[d].msg \in Message
    BY <1>2, <1>3, <2>1, <2>2 DEF RunsOK
  <2> QED BY <2>4, <2>5 DEF RunsOK
<1>5. \A q \in up : \A i \in 1..Len(waiters[q]) :
         waiters[q][i] \in Coroutines /\ waiters[q][i] # c /\ PodOf[waiters[q][i]] = q
  <2>1. ASSUME NEW q \in up, NEW i \in 1..Len(waiters[q])
        PROVE  waiters[q][i] \in Coroutines /\ waiters[q][i] # c /\ PodOf[waiters[q][i]] = q
    <3>1. waiters[q][i] \in Coroutines
      BY <2>1, ElementOfSeq DEF PoolOK, RunsOK
    <3> QED BY <2>1, <3>1 DEF PoolOK, WaitersWait
  <2> QED BY <2>1
<1>6. PoolOK'
  <2>1. CASE waiters[p] = <<>>
    <3>1. inFlight' = [inFlight EXCEPT ![p] = IF @ > 0 THEN @ - 1 ELSE @] /\ UNCHANGED waiters
      BY <2>1 DEF Leave, Release
    <3>2. inFlight' \in [Pods -> 0..Capacity]
      BY <1>1, <3>1, PoolAssumption DEF PoolOK
    <3>3. WaitersWait'
      BY <1>3, <1>5, <2>1, <3>1 DEF Woken, PoolOK, WaitersWait
    <3> QED BY <3>1, <3>2, <3>3 DEF PoolOK
  <2>2. CASE waiters[p] # <<>>
    <3>1. waiters' = [waiters EXCEPT ![p] = Tail(@)] /\ UNCHANGED inFlight
      BY <2>2 DEF Leave, Release
    <3>2. waiters' \in [Pods -> Seq(Coroutines)]
      BY <1>1, <2>2, <3>1 DEF PoolOK
    <3>3. /\ Len(waiters'[p]) = Len(waiters[p]) - 1 /\ Len(waiters[p]) \in Nat \ {0}
          /\ \A i \in 1..Len(waiters'[p]) :
               waiters'[p][i] = waiters[p][i + 1] /\ i + 1 \in 1..Len(waiters[p])
          /\ Woken(p) = {waiters[p][1]} /\ 1 \in 1..Len(waiters[p])
      BY <1>1, <2>2, <3>1 DEF PoolOK, Woken
    <3>4. ASSUME NEW q \in up', NEW i \in 1..Len(waiters'[q])
          PROVE  /\ PodOf[waiters'[q][i]] = q /\ run'[waiters'[q][i]].step = "permit"
                 /\ \A k \in 1..Len(waiters'[q]) : waiters'[q][k] = waiters'[q][i] => k = i
      <4>1. CASE q # p
        <5>1. waiters'[q] = waiters[q] /\ q \in up
          BY <3>1, <3>4, <4>1 DEF PoolOK, RunsOK
        <5>2. waiters[q][i] \notin Woken(p) /\ waiters[q][i] \in Coroutines \ {c}
          BY <1>2, <1>5, <3>4, <4>1, <5>1
        <5> QED BY <1>3, <3>4, <5>1, <5>2 DEF PoolOK, WaitersWait
      <4>2. CASE q = p
        <5>1. waiters'[p][i] = waiters[p][i + 1] /\ i + 1 \in 1..Len(waiters[p]) /\ i # 0
          BY <3>3, <3>4, <4>2
        <5>2. waiters[p][i + 1] # waiters[p][1]
          <6>1. \A k \in 1..Len(waiters[p]) : waiters[p][k] = waiters[p][1] => k = 1
            BY <1>1, <3>3 DEF PoolOK, WaitersWait
          <6>2. i \in 1..Len(waiters'[p]) /\ Len(waiters'[p]) \in Int
            BY <1>1, <3>3, <3>4, <4>2
          <6>3. i \in Int /\ i + 1 # 1
            BY <6>2
          <6> QED BY <5>1, <6>1, <6>3
        <5>3. waiters[p][i + 1] \notin Woken(p) /\ waiters[p][i + 1] \in Coroutines \ {c}
          BY <1>1, <1>5, <3>3, <5>1, <5>2
        <5>4. PodOf[waiters[p][i + 1]] = p /\ run'[waiters[p][i + 1]].step = "permit"
          BY <1>1, <1>3, <5>1, <5>3 DEF PoolOK, WaitersWait
        <5>5. ASSUME NEW k \in 1..Len(waiters'[p]), waiters'[p][k] = waiters'[p][i]
              PROVE  k + 1 = i + 1
          <6>1. k + 1 \in 1..Len(waiters[p]) /\ waiters[p][k + 1] = waiters[p][i + 1]
            BY <3>3, <5>1, <5>5
          <6> QED BY <1>1, <5>1, <6>1 DEF PoolOK, WaitersWait
        <5>6. \A k \in 1..Len(waiters'[p]) : waiters'[p][k] = waiters'[p][i] => k = i
          BY <3>3, <3>4, <4>2, <5>5
        <5> QED BY <4>2, <5>1, <5>4, <5>6
      <4> QED BY <4>1, <4>2
    <3>5. WaitersWait'
      BY <3>4 DEF WaitersWait
    <3> QED BY <3>1, <3>2, <3>5 DEF PoolOK
  <2> QED BY <2>1, <2>2
<1>7. \A d \in Coroutines \ {c} :
        \/ run'[d] = run[d]
        \/ run[d].step = "permit" /\ run'[d] = [run[d] EXCEPT !.step = "lock"]
  BY <1>2, <1>3
<1> QED BY <1>3, <1>4, <1>6, <1>7

-----------------------------------------------------------------------------
\* What the fields of a running task are.
LEMMA RunType ==
  ASSUME RunsOK, NEW c \in Coroutines, run[c].step # "idle"
  PROVE  /\ run[c].msg \in Message /\ JobOf(c) \in Jobs /\ Key(c) \in LockKeys \cup {NoLock}
         /\ run[c].msg.retry \in Nat /\ run[c].msg.requeue \in Nat
<1>1. run[c].msg \in Message
  BY DEF RunsOK
<1>2. JobOf(c) \in Jobs /\ run[c].msg.retry \in Nat /\ run[c].msg.requeue \in Nat
  BY <1>1 DEF Message, JobOf
<1> QED BY <1>1, <1>2, JobsAssumption DEF Key

LEMMA SettleType ==
  ASSUME RestOK, NEW j \in Jobs, NEW how \in {"done", "dead", "dropped"}, Settle(j, how)
  PROVE  settled' \in [Jobs -> {"new", "open", "done", "dead", "dropped"}]
BY DEF RestOK, Settle

LEMMA EnqueueNextType ==
  ASSUME RestOK, RunsOK, StreamOK, NEW j \in Jobs, EnqueueNext(j)
  PROVE  /\ settled' \in [Jobs -> {"new", "open", "done", "dead", "dropped"}]
         /\ queue' \in Seq(Message)
<1>1. settled' \in [Jobs -> {"new", "open", "done", "dead", "dropped"}]
  BY DEF RestOK, EnqueueNext
<1>2. queue' \in Seq(Message)
  BY EnqueueType DEF EnqueueNext
<1> QED BY <1>1, <1>2

LEMMA FaultType ==
  ASSUME RestOK, NEW kind, Fault(kind)
  PROVE  faults' \subseteq AllFaults
BY JobsAssumption DEF RestOK, Fault

LEMMA AckedType ==
  ASSUME StreamOK, RestOK, NEW c \in Coroutines, AckedIfPossible(c)
  PROVE  pending' \subseteq Message /\ IsFiniteSet(pending') /\ faults' \subseteq AllFaults
<1>1. CASE Acked(c) /\ UNCHANGED faults
  <2>1. IsFiniteSet(pending \ {run[c].msg})
    BY FS_Subset DEF StreamOK
  <2> QED BY <1>1, <2>1 DEF Acked, StreamOK, RestOK
<1>2. CASE Fault("redis") /\ UNCHANGED pending
  BY <1>2, FaultType DEF StreamOK
<1> QED BY <1>1, <1>2 DEF AckedIfPossible

-----------------------------------------------------------------------------
\* The steps outside of the coroutines keep the types.
LEMMA ProducersType ==
  ASSUME TypeInv,
         \/ \E j \in Jobs : Notify(j)
         \/ \E p \in Pods : Scan(p) \/ ScanEnqueue(p) \/ ScanFails(p)
  PROVE  TypeInv'
<1> USE DEF TypeInv
<1>1. ASSUME NEW j \in Jobs, Notify(j) PROVE TypeInv'
  <2>1. queue' \in Seq(Message)
    <3>1. CASE Enqueue(j, 0, 0)
      BY <3>1, EnqueueType
    <3>2. CASE UNCHANGED queue
      BY <3>2 DEF StreamOK
    <3> QED BY <1>1, <3>1, <3>2 DEF Notify
  <2> QED BY <1>1, <2>1 DEF Notify, RunsOK, PoolOK, WaitersWait, StreamOK, RestOK, Pool
<1>2. ASSUME NEW p \in Pods, Scan(p) PROVE TypeInv'
  BY <1>2 DEF Scan, RunsOK, PoolOK, WaitersWait, StreamOK, RestOK, Pool, Stream
<1>3. ASSUME NEW p \in Pods, ScanEnqueue(p) PROVE TypeInv'
  <2>1. PICK j \in scan[p] : scan' = [scan EXCEPT ![p] = @ \ {j}] /\ Enqueue(j, 0, 0)
    BY <1>3 DEF ScanEnqueue
  <2>2. j \in Jobs
    BY <2>1 DEF RestOK
  <2>3. queue' \in Seq(Message)
    BY <2>1, <2>2, EnqueueType
  <2>4. scan' \in [Pods -> SUBSET Jobs]
    BY <2>1 DEF RestOK
  <2> QED BY <1>3, <2>3, <2>4 DEF ScanEnqueue, RunsOK, PoolOK, WaitersWait, StreamOK, RestOK, Pool
<1>4. ASSUME NEW p \in Pods, ScanFails(p) PROVE TypeInv'
  <2>1. faults' \subseteq AllFaults
    BY <1>4, FaultType DEF ScanFails
  <2>2. RestOK'
    BY <1>4, <2>1 DEF ScanFails, RestOK
  <2> QED BY <1>4, <2>2 DEF ScanFails, RunsOK, PoolOK, WaitersWait, StreamOK, Pool, Stream
<1> QED BY <1>1, <1>2, <1>3, <1>4

\* A time to live that ends, a worker that stops and a process that dies.
LEMMA FaultsType ==
  ASSUME TypeInv,
         \/ \E p \in Pods : Stop(p) \/ Crash(p)
         \/ \E k \in LockKeys : Expire(k)
  PROVE  TypeInv'
<1> USE DEF TypeInv
<1>1. ASSUME NEW p \in Pods, Stop(p) PROVE TypeInv'
  <2>1. faults' \subseteq AllFaults
    BY <1>1, FaultType DEF Stop
  <2>2. lock' \in [LockKeys -> Pods \cup {Free}]
    BY <1>1 DEF Stop, RestOK
  <2>3. RestOK'
    BY <1>1, <2>1, <2>2 DEF Stop, RestOK, Running
  <2>4. UNCHANGED <<run, up, inFlight, waiters, queue, pending>>
    BY <1>1 DEF Stop, Pool, Stream
  <2> QED BY <2>3, <2>4 DEF RunsOK, PoolOK, WaitersWait, StreamOK
<1>2. ASSUME NEW p \in Pods, Crash(p) PROVE TypeInv'
  <2>1. faults' \subseteq AllFaults
    <3>1. CASE UNCHANGED faults
      BY <3>1 DEF RestOK
    <3>2. CASE Fault("crash")
      BY <3>2, FaultType
    <3> QED BY <1>2, <3>1, <3>2 DEF Crash
  <2>2. lost' \subseteq Jobs
    <3>1. \A d \in Coroutines : OnlyHere(d) => JobOf(d) \in Jobs
      BY RunType DEF OnlyHere, At
    <3> QED BY <1>2, <3>1 DEF Crash, RestOK
  <2>3. Idle \in Runs /\ Idle.step = "idle"
    BY DEF Idle, Runs, Steps
  <2>4. RunsOK'
    BY <1>2, <2>3 DEF Crash, RunsOK
  <2>5. WaitersWait'
    <3>1. ASSUME NEW q \in up', NEW i \in 1..Len(waiters[q])
          PROVE  /\ q \in up /\ waiters[q][i] \in Coroutines
                 /\ run'[waiters[q][i]] = run[waiters[q][i]]
      <4>1. q \in up \ {p}
        BY <1>2, <3>1 DEF Crash
      <4>2. waiters[q][i] \in Coroutines
        BY <3>1, <4>1, ElementOfSeq DEF PoolOK, RunsOK
      <4> QED BY <1>2, <3>1, <4>1, <4>2 DEF Crash, PoolOK, WaitersWait
    <3> QED BY <1>2, <3>1 DEF Crash, PoolOK, WaitersWait, Pool
  <2> QED BY <1>2, <2>1, <2>2, <2>4, <2>5 DEF Crash, PoolOK, StreamOK, RestOK, Pool, Stream
<1>3. ASSUME NEW k \in LockKeys, Expire(k) PROVE TypeInv'
  <2>1. faults' \subseteq AllFaults
    <3>1. CASE UNCHANGED faults
      BY <3>1 DEF RestOK
    <3>2. CASE Fault("expire")
      BY <3>2, FaultType
    <3> QED BY <1>3, <3>1, <3>2 DEF Expire
  <2>2. RestOK'
    BY <1>3, <2>1 DEF Expire, RestOK
  <2> QED BY <1>3, <2>2 DEF Expire, RunsOK, PoolOK, WaitersWait, StreamOK, Pool, Stream
<1> QED BY <1>1, <1>2, <1>3

\* Taking a message, from the stream or from a coroutine that is too slow.
LEMMA TakeType ==
  ASSUME TypeInv, NEW c \in Coroutines, Consume(c) \/ \E m \in pending : Claim(c, m)
  PROVE  TypeInv'
<1> USE DEF TypeInv
<1>1. CASE Consume(c)
  <2>1. Head(queue) \in Message /\ Tail(queue) \in Seq(Message)
    BY <1>1 DEF Consume, StreamOK
  <2>2. RunsOK' /\ PoolOK'
    BY <1>1, <2>1, ProcessRuns DEF Consume, At
  <2>3. StreamOK'
    BY <1>1, <2>1, FS_AddElement DEF Consume, StreamOK
  <2> QED BY <1>1, <2>2, <2>3 DEF Consume, RestOK
<1>2. ASSUME NEW m \in pending, Claim(c, m) PROVE TypeInv'
  <2>1. m \in Message
    BY DEF StreamOK
  <2>2. RunsOK' /\ PoolOK'
    BY <1>2, <2>1, ProcessRuns DEF Claim, At
  <2>3. faults' \subseteq AllFaults
    <3>1. CASE UNCHANGED faults
      BY <3>1 DEF RestOK
    <3>2. CASE Fault("slow")
      BY <3>2, FaultType
    <3> QED BY <1>2, <3>1, <3>2 DEF Claim
  <2> QED BY <1>2, <2>2, <2>3 DEF Claim, StreamOK, RestOK, Stream
<1> QED BY <1>1, <1>2

\* Getting the lock, and not getting it.
LEMMA LockType ==
  ASSUME TypeInv, NEW c \in Coroutines,
         Lock(c) \/ LockFails(c) \/ GiveUp(c) \/ GivenUp(c) \/ Finally(c)
  PROVE  TypeInv'
<1> USE DEF TypeInv
<1>1. CASE Lock(c)
  <2>1. run[c].step \in {"lock", "wait"} /\ Key(c) \in LockKeys \cup {NoLock} /\ PodOf[c] \in Pods
    BY <1>1, RunType, PoolAssumption DEF Lock, At
  <2>2. \E to \in Steps \ {"idle", "permit"} : Go(c, to)
    BY <1>1 DEF Lock, Steps
  <2>3. RunsOK' /\ WaitersWait'
    BY <1>1, <2>1, <2>2, MoveRuns DEF Lock, Pool
  <2>4. lock' \in [LockKeys -> Pods \cup {Free}]
    BY <1>1, <2>1 DEF Lock, TakeLock, RestOK
  <2> QED BY <1>1, <2>3, <2>4 DEF Lock, PoolOK, StreamOK, RestOK, Pool, Stream
<1>2. CASE LockFails(c)
  <2>1. run[c].step \in {"lock", "wait"} /\ run' = [run EXCEPT ![c] = Idle] /\ faults' \subseteq AllFaults
    BY <1>2, FaultType DEF LockFails, At
  <2>2. RunsOK' /\ WaitersWait'
    BY <1>2, <2>1, DropRuns DEF LockFails, Pool
  <2> QED BY <1>2, <2>1, <2>2 DEF LockFails, PoolOK, StreamOK, RestOK, Pool, Stream
<1>3. CASE GiveUp(c)
  <2>1. run[c].step = "wait"
    BY <1>3 DEF GiveUp, At
  <2>2. \E to \in Steps \ {"idle", "permit"} : Go(c, to)
    BY <1>3 DEF GiveUp, Steps
  <2>3. RunsOK' /\ WaitersWait'
    BY <1>3, <2>1, <2>2, MoveRuns DEF GiveUp, Pool
  <2>4. queue' \in Seq(Message)
    <3>1. JobOf(c) \in Jobs /\ run[c].msg.retry \in Nat /\ run[c].msg.requeue + 1 \in Nat
      BY <2>1, RunType
    <3>2. CASE Enqueue(JobOf(c), run[c].msg.retry, run[c].msg.requeue + 1)
      BY <3>1, <3>2, EnqueueType
    <3>3. CASE UNCHANGED queue
      BY <3>3 DEF StreamOK
    <3> QED BY <1>3, <3>2, <3>3 DEF GiveUp
  <2>5. faults' \subseteq AllFaults
    <3>1. CASE UNCHANGED faults
      BY <3>1 DEF RestOK
    <3>2. CASE Fault("redis")
      BY <3>2, FaultType
    <3> QED BY <1>3, <3>1, <3>2 DEF GiveUp
  <2> QED BY <1>3, <2>3, <2>4, <2>5 DEF GiveUp, PoolOK, StreamOK, RestOK, Pool
<1>4. CASE GivenUp(c)
  <2>1. run[c].step \in {"requeued", "dropping"} /\ PodOf[c] \in up
    BY <1>4 DEF GivenUp, At
  <2>2. RunsOK' /\ PoolOK'
    BY <1>4, <2>1, LeaveRuns DEF GivenUp
  <2>3. pending' \subseteq Message /\ IsFiniteSet(pending') /\ faults' \subseteq AllFaults
    BY <1>4, AckedType DEF GivenUp
  <2>4. settled' \in [Jobs -> {"new", "open", "done", "dead", "dropped"}]
    <3>1. CASE Settle(JobOf(c), "dropped")
      BY <2>1, <3>1, RunType, SettleType
    <3>2. CASE UNCHANGED settled
      BY <3>2 DEF RestOK
    <3> QED BY <1>4, <3>1, <3>2 DEF GivenUp
  <2> QED BY <1>4, <2>2, <2>3, <2>4 DEF GivenUp, StreamOK, RestOK
<1>5. CASE Finally(c)
  <2>1. run[c].step = "release" /\ PodOf[c] \in up
    BY <1>5 DEF Finally, At
  <2>2. RunsOK' /\ PoolOK'
    BY <1>5, <2>1, LeaveRuns DEF Finally
  <2>3. lock' \in [LockKeys -> Pods \cup {Free}]
    BY <1>5 DEF Finally, RestOK
  <2>4. faults' \subseteq AllFaults
    BY <1>5, FaultType DEF Finally, RestOK
  <2> QED BY <1>5, <2>2, <2>3, <2>4 DEF Finally, StreamOK, RestOK, Stream
<1> QED BY <1>1, <1>2, <1>3, <1>4, <1>5

\* Executing a task, with the cascade after it.
LEMMA ExecuteType ==
  ASSUME TypeInv, NEW c \in Coroutines,
         \/ RenewFails(c) \/ Succeed(c) \/ AckTask(c) \/ Fail(c)
         \/ Cascade(c) \/ CascadeFails(c)
  PROVE  TypeInv'
<1> USE DEF TypeInv
<1>1. run[c].step \notin {"idle", "permit"} /\ JobOf(c) \in Jobs
  <2>1. run[c].step \in InTask
    BY DEF RenewFails, Succeed, AckTask, Fail, Cascade, CascadeFails, At, InTask
  <2> QED BY <2>1, RunType DEF InTask
<1>2. RunsOK' /\ WaitersWait'
  <2>1. \/ \E to \in {"acking", "acked", "failed", "release"} : Go(c, to)
        \/ run' = [run EXCEPT ![c].lockLost = TRUE]
    BY DEF RenewFails, Succeed, AckTask, Catch, Fail, Cascade, CascadeFails
  <2>2. UNCHANGED <<up, waiters>>
    BY DEF RenewFails, Succeed, AckTask, Catch, Fail, Cascade, CascadeFails, Pool
  <2> QED BY <1>1, <2>1, <2>2, MoveRuns DEF Steps
<1>3. faults' \subseteq AllFaults
  <2>1. CASE UNCHANGED faults
    BY <2>1 DEF RestOK
  <2>2. CASE Fault("redis") \/ Fault("renew")
    BY <2>2, FaultType
  <2> QED BY <2>1, <2>2 DEF RenewFails, Succeed, AckTask, Catch, Fail, Cascade, CascadeFails
<1>4. pending' \subseteq Message /\ IsFiniteSet(pending')
  <2>1. CASE UNCHANGED pending
    BY <2>1 DEF StreamOK
  <2>2. CASE Acked(c)
    BY <2>2, FS_Subset DEF Acked, StreamOK
  <2> QED BY <2>1, <2>2 DEF RenewFails, Succeed, AckTask, Catch, Fail, Cascade, CascadeFails, Stream
<1>5. /\ settled' \in [Jobs -> {"new", "open", "done", "dead", "dropped"}]
      /\ queue' \in Seq(Message)
  <2>1. CASE UNCHANGED <<settled, queue>>
    BY <2>1 DEF RestOK, StreamOK
  <2>2. CASE Settle(JobOf(c), "done") /\ UNCHANGED queue
    BY <1>1, <2>2, SettleType DEF StreamOK
  <2>3. CASE FollowUp[JobOf(c)] # NoJob /\ EnqueueNext(FollowUp[JobOf(c)])
    BY <1>1, <2>3, EnqueueNextType, JobsAssumption
  <2> QED BY <2>1, <2>2, <2>3 DEF RenewFails, Succeed, AckTask, Catch, Fail, Cascade, CascadeFails,
                                  Stream
<1>6. lost' \subseteq Jobs
  <2>1. CASE UNCHANGED lost
    BY <2>1 DEF RestOK
  <2>2. CASE FollowUp[JobOf(c)] # NoJob /\ lost' = lost \cup {FollowUp[JobOf(c)]}
    BY <1>1, <2>2, JobsAssumption DEF RestOK
  <2> QED BY <2>1, <2>2 DEF RenewFails, Succeed, AckTask, Catch, Fail, Cascade, CascadeFails
<1> QED BY <1>2, <1>3, <1>4, <1>5, <1>6
        DEF RenewFails, Succeed, AckTask, Catch, Fail, Cascade, CascadeFails, PoolOK, StreamOK,
            RestOK, Pool

\* After a failure.
LEMMA RetryType ==
  ASSUME TypeInv, NEW c \in Coroutines, BackOff(c) \/ ReEnqueue(c) \/ DeadLetter(c)
  PROVE  TypeInv'
<1> USE DEF TypeInv
<1>1. run[c].step \in {"failed", "sleep"} /\ JobOf(c) \in Jobs
      /\ run[c].msg.retry + 1 \in Nat /\ run[c].msg.requeue \in Nat
  BY RunType DEF BackOff, ReEnqueue, DeadLetter, At
<1>2. RunsOK' /\ WaitersWait'
  <2>1. \E to \in Steps \ {"idle", "permit"} : Go(c, to)
    BY DEF BackOff, ReEnqueue, DeadLetter, Steps
  <2>2. UNCHANGED <<up, waiters>>
    BY DEF BackOff, ReEnqueue, DeadLetter, Pool
  <2> QED BY <1>1, <2>1, <2>2, MoveRuns
<1>3. CASE BackOff(c)
  <2>1. pending' \subseteq Message /\ IsFiniteSet(pending') /\ faults' \subseteq AllFaults
    BY <1>3, AckedType DEF BackOff
  <2> QED BY <1>2, <1>3, <2>1 DEF BackOff, PoolOK, StreamOK, RestOK, Pool
<1>4. CASE ReEnqueue(c)
  <2>1. queue' \in Seq(Message) /\ lost' \subseteq Jobs /\ faults' \subseteq AllFaults
    <3>1. CASE Enqueue(JobOf(c), run[c].msg.retry + 1, run[c].msg.requeue) /\ UNCHANGED <<lost, faults>>
      BY <1>1, <3>1, EnqueueType DEF RestOK
    <3>2. CASE Fault("redis") /\ lost' = lost \cup {JobOf(c)} /\ UNCHANGED queue
      BY <1>1, <3>2, FaultType DEF StreamOK, RestOK
    <3> QED BY <1>4, <3>1, <3>2 DEF ReEnqueue
  <2> QED BY <1>2, <1>4, <2>1 DEF ReEnqueue, PoolOK, StreamOK, RestOK, Pool
<1>5. CASE DeadLetter(c)
  <2>1. pending' \subseteq Message /\ IsFiniteSet(pending') /\ faults' \subseteq AllFaults
    BY <1>5, AckedType DEF DeadLetter
  <2>2. settled' \in [Jobs -> {"new", "open", "done", "dead", "dropped"}]
    BY <1>1, <1>5, SettleType DEF DeadLetter
  <2> QED BY <1>2, <1>5, <2>1, <2>2 DEF DeadLetter, PoolOK, StreamOK, RestOK, Pool
<1> QED BY <1>3, <1>4, <1>5

LEMMA TypeInit == Init => TypeInv
<1> SUFFICES ASSUME Init PROVE TypeInv
  OBVIOUS
<1>1. Idle \in Runs /\ Idle.step = "idle"
  BY DEF Idle, Runs, Steps
<1>2. RunsOK
  BY <1>1 DEF Init, RunsOK
<1>3. PoolOK
  BY PoolAssumption DEF Init, PoolInit, PoolOK, WaitersWait
<1>4. StreamOK
  BY FS_EmptySet DEF Init, StreamOK
<1>5. RestOK
  BY DEF Init, RestOK
<1> QED BY <1>2, <1>3, <1>4, <1>5 DEF TypeInv

LEMMA TypeStep == TypeInv /\ [Next]_vars => TypeInv'
<1> SUFFICES ASSUME TypeInv, [Next]_vars PROVE TypeInv'
  OBVIOUS
<1>1. CASE UNCHANGED vars
  BY <1>1 DEF vars, TypeInv, RunsOK, PoolOK, WaitersWait, StreamOK, RestOK, Pool, Stream
<1>2. CASE Next
  BY <1>2, ProducersType, FaultsType, TakeType, LockType, ExecuteType, RetryType DEF Next, Work
<1> QED BY <1>1, <1>2

LEMMA TypeInvariant == Spec => []TypeInv
BY TypeInit, TypeStep, PTL DEF Spec

\* The types of the state of workers, pools, stream and locks hold for any
\* jobs, processes, capacities and faults.
THEOREM TypeCorrect == Spec => []TypeOK
<1>1. TypeInv => TypeOK
  BY DEF TypeInv, RunsOK, Runs, PoolOK, StreamOK, RestOK, TypeOK
<1> QED BY <1>1, TypeInvariant, PTL

-----------------------------------------------------------------------------
\* A fault that has happened stays recorded.
LEMMA FaultsStay == Next => faults \subseteq faults'
<1> SUFFICES ASSUME Next PROVE faults \subseteq faults'
  OBVIOUS
<1>1. \A kind : Fault(kind) => faults \subseteq faults'
  BY DEF Fault
<1>2. ASSUME NEW j \in Jobs, Notify(j) PROVE faults \subseteq faults'
  BY <1>2 DEF Notify
<1>3. ASSUME NEW p \in Pods, Scan(p) \/ ScanEnqueue(p) \/ ScanFails(p) \/ Stop(p) \/ Crash(p)
      PROVE  faults \subseteq faults'
  BY <1>1, <1>3 DEF Scan, ScanEnqueue, ScanFails, Stop, Crash
<1>4. ASSUME NEW c \in Coroutines, NEW m \in pending, Claim(c, m) PROVE faults \subseteq faults'
  BY <1>1, <1>4 DEF Claim
<1>5. ASSUME NEW c \in Coroutines,
             Consume(c) \/ GiveUp(c) \/ LockFails(c) \/ RenewFails(c) \/ Lock(c) \/ GivenUp(c)
      PROVE  faults \subseteq faults'
  BY <1>1, <1>5 DEF Consume, GiveUp, LockFails, RenewFails, Lock, GivenUp, AckedIfPossible
<1>6. ASSUME NEW c \in Coroutines, Succeed(c) \/ AckTask(c) \/ Fail(c) \/ Cascade(c) \/ CascadeFails(c)
      PROVE  faults \subseteq faults'
  BY <1>1, <1>6 DEF Succeed, AckTask, Catch, Fail, Cascade, CascadeFails
<1>7. ASSUME NEW c \in Coroutines, BackOff(c) \/ ReEnqueue(c) \/ DeadLetter(c) \/ Finally(c)
      PROVE  faults \subseteq faults'
  BY <1>1, <1>7 DEF BackOff, ReEnqueue, DeadLetter, Finally, AckedIfPossible
<1>8. ASSUME NEW k \in LockKeys, Expire(k) PROVE faults \subseteq faults'
  BY <1>1, <1>8 DEF Expire
<1> QED BY <1>2, <1>3, <1>4, <1>5, <1>6, <1>7, <1>8 DEF Next, Work

\* A coroutine between a successful acquireLock and its finally block, of a
\* living process and with a lock key.
Holds(c) == PodOf[c] \in up /\ run[c].step \in InTask /\ KeyOf[run[c].msg.job] # NoLock

\* Unless a lock has been taken from its owner, the lock of a task that
\* executes belongs to the process of its coroutine, and to no other task.
LockInv == faults \cap {"renew", "expire", "stop"} = {} =>
  \A c \in Coroutines : Holds(c) =>
    /\ lock[KeyOf[run[c].msg.job]] = PodOf[c]
    /\ \A d \in Coroutines \ {c} : Holds(d) => KeyOf[run[d].msg.job] # KeyOf[run[c].msg.job]

\* Nor has any renewal failed.
RenewInv == faults \cap {"renew", "expire", "stop"} = {} =>
  \A c \in Coroutines : ~run[c].lockLost

\* Steps that give no coroutine a lock and take none away.
LEMMA LockFrame ==
  ASSUME LockInv, UNCHANGED lock, faults \subseteq faults', up' \subseteq up,
         \A d \in Coroutines : PodOf[d] \in up' /\ run'[d].step \in InTask =>
           run[d].step \in InTask /\ run'[d].msg = run[d].msg
  PROVE  LockInv'
BY DEF LockInv, Holds, InTask

\* Of the steps of coroutines, Lock and Finally alone touch a lock.
LEMMA LockMoves ==
  ASSUME TypeInv, NEW c \in Coroutines,
         \/ Consume(c) \/ GiveUp(c) \/ LockFails(c) \/ RenewFails(c) \/ GivenUp(c)
         \/ Succeed(c) \/ AckTask(c) \/ Fail(c) \/ Cascade(c) \/ CascadeFails(c)
         \/ BackOff(c) \/ ReEnqueue(c) \/ DeadLetter(c)
         \/ \E m \in pending : Claim(c, m)
  PROVE  /\ UNCHANGED <<lock, up>>
         /\ \A d \in Coroutines : run'[d].step \in InTask =>
              run[d].step \in InTask /\ run'[d].msg = run[d].msg
<1> DEFINE Kept == \A d \in Coroutines : run'[d].step \in InTask =>
              run[d].step \in InTask /\ run'[d].msg = run[d].msg
<1>1. run \in [Coroutines -> Runs]
  BY DEF TypeInv, RunsOK
<1>2. ASSUME NEW m, Process(c, m) PROVE Kept
  BY <1>1, <1>2 DEF Process, InTask
<1>3. ASSUME NEW to \in Steps, Go(c, to), run[c].step \in InTask \/ to \notin InTask PROVE Kept
  BY <1>1, <1>3 DEF Go, Runs
<1>4. CASE Consume(c) \/ \E m \in pending : Claim(c, m)
  BY <1>2, <1>4 DEF Consume, Claim
<1>5. CASE LockFails(c)
  BY <1>1, <1>5 DEF LockFails, Idle, InTask
<1>6. CASE RenewFails(c)
  BY <1>1, <1>6 DEF RenewFails, Runs, At
<1>7. CASE GivenUp(c)
  <2>1. run[c].step \in {"requeued", "dropping"} /\ PodOf[c] \in up /\ UNCHANGED up
    BY <1>7 DEF GivenUp, At
  <2>2. run'[c] = Idle
    BY <1>7, <2>1, LeaveRuns DEF GivenUp, TypeInv
  <2>3. ASSUME NEW d \in Coroutines \ {c}, run'[d] # run[d] PROVE run'[d].step = "lock"
    <3>1. run'[d] = [run[d] EXCEPT !.step = "lock"]
      BY <1>7, <2>1, <2>3, LeaveRuns DEF GivenUp, TypeInv
    <3> QED BY <1>1, <3>1 DEF Runs
  <2>4. Kept
    BY <2>2, <2>3 DEF Idle, InTask
  <2> QED BY <1>7, <2>4 DEF GivenUp
<1>8. CASE GiveUp(c)
  BY <1>3, <1>8 DEF GiveUp, Steps, InTask
<1>9. CASE Succeed(c) \/ AckTask(c) \/ Fail(c) \/ Cascade(c) \/ CascadeFails(c)
  <2>1. run[c].step \in InTask /\ \E to \in Steps : Go(c, to)
    BY <1>9 DEF Succeed, AckTask, Catch, Fail, Cascade, CascadeFails, At, Steps, InTask
  <2>2. UNCHANGED <<lock, up>>
    BY <1>9 DEF Succeed, AckTask, Catch, Fail, Cascade, CascadeFails
  <2> QED BY <1>3, <2>1, <2>2
<1>10. CASE BackOff(c) \/ ReEnqueue(c) \/ DeadLetter(c)
  <2>1. run[c].step \in InTask /\ \E to \in Steps : Go(c, to)
    BY <1>10 DEF BackOff, ReEnqueue, DeadLetter, At, Steps, InTask
  <2> QED BY <1>3, <1>10, <2>1 DEF BackOff, ReEnqueue, DeadLetter
<1> QED BY <1>4, <1>5, <1>6, <1>7, <1>8, <1>9, <1>10

\* A lock is taken when it is free, so nobody holds it.
LEMMA LockTaken ==
  ASSUME TypeInv, LockInv, NEW c \in Coroutines, Lock(c)
  PROVE  LockInv'
<1>1. /\ run \in [Coroutines -> Runs] /\ lock \in [LockKeys -> Pods \cup {Free}]
      /\ PodOf \in [Coroutines -> Pods] /\ Free \notin Pods
      /\ UNCHANGED <<up, faults>> /\ run[c].step \in {"lock", "wait"}
  BY PoolAssumption, JobsAssumption DEF TypeInv, RunsOK, RestOK, Lock, At
<1>2. CASE Go(c, "wait") /\ UNCHANGED lock
  BY <1>1, <1>2, LockFrame DEF Go, Runs, InTask
<1>3. CASE TakeLock(c) /\ Go(c, "exec")
  <2> DEFINE k == KeyOf[run[c].msg.job]
  <2>1. /\ \A d \in Coroutines \ {c} : run'[d] = run[d]
        /\ run'[c].msg = run[c].msg
    BY <1>1, <1>3 DEF Go, Runs
  <2>2. CASE k = NoLock
    <3>1. UNCHANGED lock
      BY <1>3, <2>2 DEF TakeLock, Key, JobOf
    <3> QED BY <1>1, <2>1, <2>2, <3>1 DEF LockInv, Holds
  <2>3. CASE k # NoLock
    <3>1. lock[k] = Free /\ lock' = [lock EXCEPT ![k] = PodOf[c]] /\ k \in LockKeys
      BY <1>1, <1>3, <2>3, RunType DEF TakeLock, Key, JobOf, TypeInv
    <3>2. ASSUME faults \cap {"renew", "expire", "stop"} = {}, NEW d \in Coroutines \ {c}, Holds(d)
          PROVE  KeyOf[run[d].msg.job] # k
      BY <1>1, <3>1, <3>2 DEF LockInv
    <3>3. ASSUME NEW d \in Coroutines \ {c} PROVE Holds(d)' <=> Holds(d)
      BY <1>1, <2>1 DEF Holds
    <3>4. ASSUME faults \cap {"renew", "expire", "stop"} = {} 
          PROVE  /\ lock'[k] = PodOf[c]
                 /\ \A d \in Coroutines \ {c} : Holds(d)' => 
                      /\ lock'[KeyOf[run'[d].msg.job]] = PodOf[d]
                      /\ KeyOf[run'[d].msg.job] # k
                      /\ \A e \in Coroutines \ {c, d} : Holds(e)' =>
                           KeyOf[run'[e].msg.job] # KeyOf[run'[d].msg.job]
      BY <1>1, <2>1, <3>1, <3>2, <3>3, <3>4 DEF LockInv
    <3> QED BY <1>1, <2>1, <3>4 DEF LockInv
  <2> QED BY <2>2, <2>3
<1> QED BY <1>2, <1>3 DEF Lock

\* The lock that is given back is that of the coroutine, which no other holds.
LEMMA LockReturned ==
  ASSUME TypeInv, LockInv, NEW c \in Coroutines, Finally(c)
  PROVE  LockInv'
<1> DEFINE k == KeyOf[run[c].msg.job]
<1>1. /\ run \in [Coroutines -> Runs] /\ lock \in [LockKeys -> Pods \cup {Free}]
      /\ UNCHANGED up /\ run[c].step = "release" /\ PodOf[c] \in up /\ faults \subseteq faults'
  BY DEF TypeInv, RunsOK, RestOK, Finally, Fault, At
<1>2. run'[c] = Idle /\ \A d \in Coroutines \ {c} : run'[d] # run[d] => run'[d].step = "lock"
  <2>1. run'[c] = Idle
    BY <1>1, LeaveRuns DEF Finally, TypeInv
  <2>2. ASSUME NEW d \in Coroutines \ {c}, run'[d] # run[d] PROVE run'[d].step = "lock"
    <3>1. run'[d] = [run[d] EXCEPT !.step = "lock"]
      BY <1>1, <2>2, LeaveRuns DEF Finally, TypeInv
    <3> QED BY <1>1, <3>1 DEF Runs
  <2> QED BY <2>1, <2>2
<1>3. \A d \in Coroutines : Holds(d)' => d # c /\ run'[d] = run[d] /\ Holds(d)
  BY <1>1, <1>2 DEF Holds, Idle, InTask
<1>4. ASSUME faults \cap {"renew", "expire", "stop"} = {}, NEW d \in Coroutines, Holds(d)'
      PROVE  lock'[KeyOf[run[d].msg.job]] = PodOf[d]
  <2>1. d # c /\ run'[d] = run[d] /\ Holds(d) /\ lock[KeyOf[run[d].msg.job]] = PodOf[d]
    BY <1>3, <1>4 DEF LockInv
  <2>2. CASE k = NoLock
    BY <2>1, <2>2 DEF Finally, Owned, Key, JobOf
  <2>3. CASE k # NoLock
    <3>1. Holds(c)
      BY <1>1, <2>3 DEF Holds, InTask
    <3>2. KeyOf[run[d].msg.job] # k
      BY <1>4, <2>1, <3>1 DEF LockInv
    <3>3. lock' = lock \/ lock' = [lock EXCEPT ![k] = Free]
      BY DEF Finally, Key, JobOf
    <3>4. KeyOf[run[d].msg.job] \in LockKeys
      BY <2>1, RunType DEF TypeInv, Holds, InTask, JobOf, Key
    <3> QED BY <1>1, <2>1, <3>2, <3>3, <3>4
  <2> QED BY <2>2, <2>3
<1> QED BY <1>1, <1>3, <1>4 DEF LockInv

LEMMA LockStep == TypeInv /\ LockInv /\ RenewInv /\ [Next]_vars => LockInv'
<1> SUFFICES ASSUME TypeInv, LockInv, RenewInv, [Next]_vars PROVE LockInv'
  OBVIOUS
<1>1. CASE UNCHANGED vars
  BY <1>1 DEF vars, LockInv, Holds
<1>2. ASSUME Next PROVE faults \subseteq faults'
  BY <1>2, FaultsStay
<1>3. ASSUME Next, NEW j \in Jobs, Notify(j) PROVE LockInv'
  BY <1>2, <1>3, LockFrame DEF Notify
<1>4. ASSUME Next, NEW p \in Pods, Scan(p) \/ ScanEnqueue(p) \/ ScanFails(p) PROVE LockInv'
  BY <1>2, <1>4, LockFrame DEF Scan, ScanEnqueue, ScanFails
<1>5. ASSUME NEW p \in Pods, Stop(p) PROVE LockInv'
  BY <1>5 DEF Stop, Fault, LockInv
<1>6. ASSUME Next, NEW p \in Pods, Crash(p) PROVE LockInv'
  <2>1. up' = up \ {p} /\ UNCHANGED lock
    BY <1>6 DEF Crash
  <2>2. \A d \in Coroutines : PodOf[d] \in up' => run'[d] = run[d]
    BY <1>6, <2>1 DEF Crash
  <2> QED BY <1>2, <1>6, <2>1, <2>2, LockFrame
<1>7. ASSUME Next, NEW k \in LockKeys, Expire(k) PROVE LockInv'
  <2>1. CASE Renewed(k)
    BY <1>7, <2>1 DEF Expire, Fault, LockInv
  <2>2. CASE ~Renewed(k)
    <3>1. lock' = [lock EXCEPT ![k] = Free] /\ UNCHANGED <<run, up, faults>>
      BY <1>7, <2>2 DEF Expire
    <3>2. ASSUME faults \cap {"renew", "expire", "stop"} = {}, NEW c \in Coroutines, Holds(c)
          PROVE  KeyOf[run[c].msg.job] # k
      BY <2>2, <3>2 DEF LockInv, RenewInv, Renewed, Holds, At, Key, JobOf
    <3> QED BY <3>1, <3>2 DEF LockInv, Holds, TypeInv, RestOK
  <2> QED BY <2>1, <2>2
<1>8. ASSUME Next, NEW c \in Coroutines, Consume(c) \/ GiveUp(c) \/ LockFails(c) \/ RenewFails(c)
                                   \/ \E m \in pending : Claim(c, m)
      PROVE  LockInv'
  BY <1>2, <1>8, LockMoves, LockFrame
<1>9. ASSUME Next, NEW c \in Coroutines, Work(c) PROVE LockInv'
  <2>1. CASE Lock(c)
    BY <2>1, LockTaken
  <2>2. CASE Finally(c)
    BY <2>2, LockReturned
  <2>3. CASE GivenUp(c) \/ Succeed(c) \/ AckTask(c) \/ Fail(c) \/ Cascade(c) \/ CascadeFails(c)
               \/ BackOff(c) \/ ReEnqueue(c) \/ DeadLetter(c)
    BY <1>2, <1>9, <2>3, LockMoves, LockFrame
  <2> QED BY <1>9, <2>1, <2>2, <2>3 DEF Work
<1> QED BY <1>1, <1>3, <1>4, <1>5, <1>6, <1>7, <1>8, <1>9 DEF Next

\* Only a renewal that fails marks a lock as lost, and as long as nobody has
\* taken the lock of a task that is the fault itself.
LEMMA RenewStep == TypeInv /\ LockInv /\ RenewInv /\ [Next]_vars => RenewInv'
<1> SUFFICES ASSUME TypeInv, LockInv, RenewInv, [Next]_vars PROVE RenewInv'
  OBVIOUS
<1>1. run \in [Coroutines -> Runs] /\ RunsOK
  BY DEF TypeInv, RunsOK
<1>2. ASSUME faults \subseteq faults', \A d \in Coroutines : run'[d].lockLost => run[d].lockLost
      PROVE  RenewInv'
  BY <1>2 DEF RenewInv
<1>3. ASSUME Next PROVE faults \subseteq faults'
  BY <1>3, FaultsStay
<1>4. ASSUME Next, UNCHANGED run PROVE RenewInv'
  BY <1>2, <1>3, <1>4
<1>5. ASSUME Next, NEW p \in Pods, Scan(p) \/ ScanEnqueue(p) \/ ScanFails(p) \/ Stop(p)
      PROVE  RenewInv'
  BY <1>4, <1>5 DEF Scan, ScanEnqueue, ScanFails, Stop
<1>6. ASSUME Next, NEW p \in Pods, Crash(p) PROVE RenewInv'
  BY <1>1, <1>2, <1>3, <1>6 DEF Crash, Idle
<1>7. ASSUME Next, NEW c \in Coroutines, Consume(c) \/ LockFails(c) \/ \E m \in pending : Claim(c, m)
      PROVE  RenewInv'
  <2>1. \A d \in Coroutines : run'[d].lockLost => run[d].lockLost
    BY <1>1, <1>7 DEF Consume, LockFails, Claim, Process, Idle
  <2> QED BY <1>2, <1>3, <1>7, <2>1
<1>8. ASSUME NEW c \in Coroutines, RenewFails(c) PROVE RenewInv'
  <2>1. CASE Fault("renew")
    BY <2>1 DEF Fault, RenewInv
  <2>2. CASE lock[Key(c)] # PodOf[c] /\ UNCHANGED faults
    <3>1. Holds(c)
      BY <1>8 DEF RenewFails, Holds, At, Key, JobOf
    <3>2. faults \cap {"renew", "expire", "stop"} # {}
      BY <2>2, <3>1 DEF LockInv, Key, JobOf
    <3> QED BY <2>2, <3>2 DEF RenewInv
  <2> QED BY <1>8, <2>1, <2>2 DEF RenewFails
<1>9. ASSUME Next, NEW c \in Coroutines, GivenUp(c) \/ Finally(c) PROVE RenewInv'
  <2>1. At(c, Steps \ {"idle", "permit"}) /\ Leave(c) /\ UNCHANGED up
    BY <1>9 DEF GivenUp, Finally, At, Steps
  <2>2. /\ run'[c] = Idle
        /\ \A d \in Coroutines \ {c} :
             run'[d] = run[d] \/ run'[d] = [run[d] EXCEPT !.step = "lock"]
    BY <2>1, LeaveRuns DEF At, TypeInv
  <2>3. ASSUME NEW d \in Coroutines, run'[d].lockLost PROVE run[d].lockLost
    <3>1. run[d] \in Runs
      BY <1>1
    <3>2. ~Idle.lockLost /\ [run[d] EXCEPT !.step = "lock"].lockLost = run[d].lockLost
      BY <3>1 DEF Idle, Runs
    <3> QED BY <2>2, <2>3, <3>2
  <2> QED BY <1>2, <1>3, <1>9, <2>3
<1>10. ASSUME Next, NEW c \in Coroutines, NEW to, Go(c, to) PROVE RenewInv'
  <2>1. \A d \in Coroutines : run'[d].lockLost => run[d].lockLost
    BY <1>1, <1>10 DEF Go, Runs
  <2> QED BY <1>2, <1>3, <1>10, <2>1
<1>11. ASSUME Next, NEW c \in Coroutines,
              \/ Lock(c) \/ GiveUp(c) \/ Succeed(c) \/ AckTask(c) \/ Fail(c) \/ Cascade(c)
              \/ CascadeFails(c) \/ BackOff(c) \/ ReEnqueue(c) \/ DeadLetter(c)
       PROVE  RenewInv'
  BY <1>10, <1>11 DEF Lock, GiveUp, Succeed, AckTask, Catch, Fail, Cascade, CascadeFails, BackOff,
                      ReEnqueue, DeadLetter
<1>12. ASSUME Next, NEW k \in LockKeys, Expire(k) PROVE RenewInv'
  BY <1>4, <1>12 DEF Expire
<1>13. ASSUME Next, NEW j \in Jobs, Notify(j) PROVE RenewInv'
  BY <1>4, <1>13 DEF Notify
<1>14. CASE UNCHANGED vars
  BY <1>14 DEF vars, RenewInv
<1>15. CASE Next
  BY <1>5, <1>6, <1>7, <1>8, <1>9, <1>11, <1>12, <1>13, <1>15 DEF Next, Work
<1> QED BY <1>14, <1>15

\* Without an expired lock, a rejected renewal and a stopping worker, no two coroutines, of one
\* process or of two, execute tasks of one key at the same time.
THEOREM LockCorrect == Spec => []LockExclusion
<1>1. Init => LockInv /\ RenewInv
  BY DEF Init, LockInv, RenewInv, Holds, Idle, InTask
<1>2. TypeInv /\ LockInv => LockExclusion
  BY DEF LockInv, LockExclusion, Holds, At, Key, JobOf
<1> QED BY <1>1, <1>2, LockStep, RenewStep, TypeInvariant, PTL DEF Spec

-----------------------------------------------------------------------------
\* Each permit in flight of a living process has its holder.
PermitInv == "acquire" \notin faults =>
  \A p \in up : inFlight[p] = Cardinality(Holders(p))

LEMMA HoldersFinite == \A p : IsFiniteSet(Holders(p)) /\ Cardinality(Holders(p)) \in Nat
<1>1. ASSUME NEW p PROVE IsFiniteSet(Holders(p))
  <2>1. Holders(p) \subseteq Coroutines
    BY DEF Holders
  <2> QED BY <2>1, FS_Subset, JobsAssumption
<1> QED BY <1>1, FS_CardinalityType

\* Steps that give nobody a permit and take none.
LEMMA PermitFrame ==
  ASSUME PermitInv, UNCHANGED inFlight, faults \subseteq faults', up' \subseteq up,
         \A d \in Coroutines : PodOf[d] \in up' =>
           (run'[d].step \in {"idle", "permit"} <=> run[d].step \in {"idle", "permit"})
  PROVE  PermitInv'
<1>1. ASSUME NEW p \in up' PROVE Holders(p)' = Holders(p)
  BY <1>1 DEF Holders
<1> QED BY <1>1 DEF PermitInv

\* A coroutine between its permit and its return keeps it.
LEMMA PermitMoves ==
  ASSUME TypeInv, NEW c \in Coroutines,
         \/ Lock(c) \/ GiveUp(c) \/ RenewFails(c)
         \/ Succeed(c) \/ AckTask(c) \/ Fail(c) \/ Cascade(c) \/ CascadeFails(c)
         \/ BackOff(c) \/ ReEnqueue(c) \/ DeadLetter(c)
  PROVE  /\ UNCHANGED <<inFlight, up>>
         /\ \A d \in Coroutines :
              run'[d].step \in {"idle", "permit"} <=> run[d].step \in {"idle", "permit"}
<1>1. run \in [Coroutines -> Runs]
  BY DEF TypeInv, RunsOK
<1>2. UNCHANGED <<inFlight, up>>
  BY DEF Lock, GiveUp, RenewFails, Succeed, AckTask, Catch, Fail, Cascade, CascadeFails, BackOff,
         ReEnqueue,
         DeadLetter, Pool
<1>3. run[c].step \notin {"idle", "permit"}
  BY DEF Lock, GiveUp, RenewFails, Succeed, AckTask, Fail, Cascade, CascadeFails, BackOff, ReEnqueue,
         DeadLetter, At, InTask
<1>4. \/ \E to \in Steps \ {"idle", "permit"} : Go(c, to)
      \/ run' = [run EXCEPT ![c].lockLost = TRUE]
  BY DEF Lock, GiveUp, RenewFails, Succeed, AckTask, Catch, Fail, Cascade, CascadeFails, BackOff,
         ReEnqueue,
         DeadLetter, Steps
<1>5. run'[c].step \notin {"idle", "permit"} /\ \A d \in Coroutines \ {c} : run'[d] = run[d]
  BY <1>1, <1>3, <1>4 DEF Go, Runs
<1> QED BY <1>2, <1>3, <1>5

\* acquire counts the coroutine that it lets pass.
LEMMA PermitTaken ==
  ASSUME TypeInv, PermitInv, NEW c \in Coroutines, NEW m,
         run[c].step = "idle", Process(c, m), UNCHANGED up, faults \subseteq faults'
  PROVE  PermitInv'
<1> DEFINE p == PodOf[c]
<1>1. /\ run \in [Coroutines -> Runs] /\ inFlight \in [Pods -> 0..Capacity] /\ up \subseteq Pods
      /\ p \in Pods
  BY PoolAssumption DEF TypeInv, RunsOK, PoolOK
<1>2. /\ \A d \in Coroutines \ {c} : run'[d] = run[d]
      /\ run'[c].step = IF HasPermit(p) THEN "lock" ELSE "permit"
  BY <1>1 DEF Process
<1>3. CASE ~HasPermit(p)
  <2>1. UNCHANGED inFlight
    BY <1>3 DEF Process, Acquire
  <2> QED BY <1>2, <1>3, <2>1, PermitFrame
<1>4. CASE HasPermit(p)
  <2>1. inFlight' = [inFlight EXCEPT ![p] = @ + 1]
    BY <1>4 DEF Process, Acquire
  <2>2. Holders(p)' = Holders(p) \cup {c} /\ c \notin Holders(p)
    BY <1>2, <1>4 DEF Holders
  <2>3. Cardinality(Holders(p)') = Cardinality(Holders(p)) + 1
    BY <2>2, HoldersFinite, FS_AddElement
  <2>4. ASSUME NEW q \in up, q # p PROVE Holders(q)' = Holders(q)
    BY <1>2, <2>4 DEF Holders
  <2> QED BY <1>1, <2>1, <2>3, <2>4 DEF PermitInv
<1> QED BY <1>3, <1>4

\* A permit that comes back is counted down, or is the one of the first waiter.
LEMMA PermitReturned ==
  ASSUME TypeInv, PermitInv, NEW c \in Coroutines, PodOf[c] \in up,
         run[c].step \notin {"idle", "permit"}, Leave(c), UNCHANGED up, faults \subseteq faults'
  PROVE  PermitInv'
<1> DEFINE p == PodOf[c]
<1>1. /\ run \in [Coroutines -> Runs] /\ inFlight \in [Pods -> 0..Capacity] /\ up \subseteq Pods
      /\ p \in Pods /\ waiters[p] \in Seq(Coroutines)
  BY PoolAssumption DEF TypeInv, RunsOK, PoolOK
<1>2. /\ run'[c].step = "idle"
      /\ \A d \in Coroutines \ {c} : d \notin Woken(p) => run'[d] = run[d]
      /\ \A d \in Coroutines \ {c} : d \in Woken(p) => run'[d].step = "lock"
  BY <1>1 DEF Leave, Idle, Runs
<1>3. c \in Holders(p)
  BY DEF Holders
<1>4. CASE waiters[p] = <<>>
  <2>1. inFlight' = [inFlight EXCEPT ![p] = IF @ > 0 THEN @ - 1 ELSE @] /\ Woken(p) = {}
    BY <1>4 DEF Leave, Release, Woken
  <2>2. Holders(p)' = Holders(p) \ {c}
    BY <1>2, <2>1 DEF Holders
  <2>3. /\ Cardinality(Holders(p)') = Cardinality(Holders(p)) - 1
        /\ Cardinality(Holders(p)) \in Nat /\ Cardinality(Holders(p)') \in Nat
    <3>1. IsFiniteSet(Holders(p) \ {c}) /\ Cardinality(Holders(p) \ {c}) = Cardinality(Holders(p)) - 1
      BY <1>3, HoldersFinite, FS_RemoveElement
    <3> QED BY <2>2, <3>1, HoldersFinite, FS_CardinalityType
  <2>4. ASSUME NEW q \in up, q # p PROVE Holders(q)' = Holders(q)
    BY <1>2, <2>1, <2>4 DEF Holders
  <2> QED BY <1>1, <2>1, <2>3, <2>4 DEF PermitInv
<1>5. CASE waiters[p] # <<>>
  <2> DEFINE w == waiters[p][1]
  <2>1. w \in Coroutines /\ Woken(p) = {w} /\ 1 \in 1..Len(waiters[p]) /\ UNCHANGED inFlight
    BY <1>1, <1>5 DEF Woken, Leave, Release
  <2>2. run[w].step = "permit" /\ PodOf[w] = p /\ w # c
    BY <2>1 DEF TypeInv, PoolOK, WaitersWait
  <2>3. Holders(p)' = (Holders(p) \ {c}) \cup {w} /\ w \notin Holders(p)
    BY <1>2, <2>1, <2>2 DEF Holders
  <2>4. Cardinality(Holders(p)') = Cardinality(Holders(p))
    <3>1. IsFiniteSet(Holders(p) \ {c}) /\ Cardinality(Holders(p) \ {c}) = Cardinality(Holders(p)) - 1
      BY <1>3, HoldersFinite, FS_RemoveElement
    <3>2. Cardinality((Holders(p) \ {c}) \cup {w}) = Cardinality(Holders(p) \ {c}) + 1
      BY <2>3, <3>1, FS_AddElement
    <3> QED BY <2>3, <3>1, <3>2, HoldersFinite
  <2>5. ASSUME NEW q \in up, q # p PROVE Holders(q)' = Holders(q)
    BY <1>2, <2>1, <2>2, <2>5 DEF Holders
  <2> QED BY <1>1, <2>1, <2>4, <2>5 DEF PermitInv
<1> QED BY <1>4, <1>5

LEMMA PermitStep == TypeInv /\ PermitInv /\ [Next]_vars => PermitInv'
<1> SUFFICES ASSUME TypeInv, PermitInv, [Next]_vars PROVE PermitInv'
  OBVIOUS
<1>1. CASE UNCHANGED vars
  BY <1>1 DEF vars, Pool, PermitInv, Holders
<1>2. ASSUME Next PROVE faults \subseteq faults'
  BY <1>2, FaultsStay
<1>3. ASSUME Next, UNCHANGED <<run, up, inFlight>> PROVE PermitInv'
  BY <1>2, <1>3, PermitFrame
<1>4. ASSUME Next, NEW j \in Jobs, Notify(j) PROVE PermitInv'
  BY <1>3, <1>4 DEF Notify, Pool
<1>5. ASSUME Next, NEW p \in Pods, Scan(p) \/ ScanEnqueue(p) \/ ScanFails(p) \/ Stop(p)
      PROVE  PermitInv'
  BY <1>3, <1>5 DEF Scan, ScanEnqueue, ScanFails, Stop, Pool
<1>6. ASSUME Next, NEW p \in Pods, Crash(p) PROVE PermitInv'
  <2>1. up' = up \ {p} /\ UNCHANGED inFlight
    BY <1>6 DEF Crash, Pool
  <2>2. \A d \in Coroutines : PodOf[d] \in up' => run'[d] = run[d]
    BY <1>6, <2>1 DEF Crash
  <2> QED BY <1>2, <1>6, <2>1, <2>2, PermitFrame
<1>7. ASSUME Next, NEW k \in LockKeys, Expire(k) PROVE PermitInv'
  BY <1>3, <1>7 DEF Expire, Pool
<1>8. ASSUME Next, NEW c \in Coroutines, Consume(c) \/ \E m \in pending : Claim(c, m)
      PROVE  PermitInv'
  <2>1. run[c].step = "idle" /\ UNCHANGED up /\ \E m : Process(c, m)
    BY <1>8 DEF Consume, Claim, At
  <2> QED BY <1>2, <1>8, <2>1, PermitTaken
<1>9. ASSUME Next, NEW c \in Coroutines, LockFails(c) PROVE PermitInv'
  BY <1>9 DEF LockFails, Fault, PermitInv
<1>10. ASSUME Next, NEW c \in Coroutines, GivenUp(c) \/ Finally(c) PROVE PermitInv'
  <2>1. /\ run[c].step \notin {"idle", "permit"} /\ PodOf[c] \in up
        /\ Leave(c) /\ UNCHANGED up
    BY <1>10 DEF GivenUp, Finally, At
  <2> QED BY <1>2, <1>10, <2>1, PermitReturned
<1>11. ASSUME Next, NEW c \in Coroutines,
              \/ Lock(c) \/ GiveUp(c) \/ RenewFails(c)
              \/ Succeed(c) \/ AckTask(c) \/ Fail(c) \/ Cascade(c) \/ CascadeFails(c)
              \/ BackOff(c) \/ ReEnqueue(c) \/ DeadLetter(c)
       PROVE  PermitInv'
  BY <1>2, <1>11, PermitMoves, PermitFrame
<1> QED BY <1>1, <1>4, <1>5, <1>6, <1>7, <1>8, <1>9, <1>10, <1>11 DEF Next, Work

\* As long as acquireLock has not failed, each permit in flight of a living
\* process is in the hands of one coroutine that will return it.
THEOREM PermitsCorrect == Spec => []PermitsKept
<1>1. Init => PermitInv
  <2> SUFFICES ASSUME Init PROVE PermitInv
    OBVIOUS
  <2>1. ASSUME NEW p \in up PROVE p \in Pods /\ Holders(p) = {}
    BY <2>1 DEF Init, Holders, Idle
  <2> QED BY <2>1, FS_EmptySet DEF Init, PoolInit, PermitInv
<1>2. PermitInv => PermitsKept
  BY DEF PermitInv, PermitsKept
<1> QED BY <1>1, <1>2, PermitStep, TypeInvariant, PTL DEF Spec

-----------------------------------------------------------------------------
\* What enqueueTask appends: one message, of the job, that nobody knew.
LEMMA EnqueueFresh ==
  ASSUME RunsOK, StreamOK, NEW j \in Jobs, NEW retry \in Nat, NEW requeue \in Nat,
         Enqueue(j, retry, requeue)
  PROVE  \E m \in Message :
           /\ m.job = j /\ queue' = Append(queue, m)
           /\ m \notin pending
           /\ \A i \in DOMAIN queue : queue[i] # m
           /\ \A c \in Coroutines : run[c].msg # m
<1> DEFINE m == [job |-> j, retry |-> retry, requeue |-> requeue, copy |-> Copy(j, retry, requeue)]
<1>1. m \in Message /\ m \notin Known /\ m.job = j
  BY CopyType DEF Message
<1>2. queue' = Append(queue, m)
  BY DEF Enqueue
<1> QED BY <1>1, <1>2 DEF Known

\* The messages in the stream that nobody has read are all different, and
\* different from those that somebody has read.
QueueFresh == \A i \in DOMAIN queue :
  /\ queue[i] \notin pending
  /\ \A c \in Coroutines : run[c].msg # queue[i]
  /\ \A k \in DOMAIN queue : queue[k] = queue[i] => k = i

\* Steps that put no message on the stream.
LEMMA FreshFrame ==
  ASSUME QueueFresh, UNCHANGED queue, pending' \subseteq pending, queue \in Seq(Message),
         \A c \in Coroutines : \/ run'[c].msg = run[c].msg
                               \/ run'[c].msg \in pending
                               \/ run'[c].msg = NoMessage
  PROVE  QueueFresh'
<1>1. \A i \in DOMAIN queue : queue[i] \in Message
  BY ElementOfSeq, LenProperties
<1>2. NoMessage \notin Message
  BY JobsAssumption DEF NoMessage, Message
<1> QED BY <1>1, <1>2 DEF QueueFresh

\* Steps that enqueue, and take no message.
LEMMA FreshEnqueue ==
  ASSUME QueueFresh, RunsOK, StreamOK, NEW j \in Jobs, NEW retry \in Nat, NEW requeue \in Nat,
         Enqueue(j, retry, requeue), pending' \subseteq pending,
         \A c \in Coroutines : run'[c].msg = run[c].msg
  PROVE  QueueFresh'
<1>1. PICK m \in Message : /\ queue' = Append(queue, m) /\ m \notin pending
                           /\ \A i \in DOMAIN queue : queue[i] # m
                           /\ \A c \in Coroutines : run[c].msg # m
  BY EnqueueFresh
<1> DEFINE n == Len(queue)
<1>2. /\ n \in Nat /\ DOMAIN queue = 1..n /\ DOMAIN queue' = 1..(n + 1)
      /\ queue'[n + 1] = m /\ \A i \in 1..n : queue'[i] = queue[i]
  BY <1>1, AppendProperties DEF StreamOK
<1>3. \A i \in 1..(n + 1) : i = n + 1 \/ i \in 1..n
  BY <1>2
<1> HIDE DEF n
<1>4. ASSUME NEW i \in 1..(n + 1)
      PROVE  /\ queue'[i] \notin pending'
             /\ \A c \in Coroutines : run'[c].msg # queue'[i]
             /\ \A k \in 1..(n + 1) : queue'[k] = queue'[i] => k = i
  <2>1. CASE i = n + 1
    BY <1>1, <1>2, <1>3, <2>1
  <2>2. CASE i \in 1..n
    BY <1>1, <1>2, <1>3, <2>2 DEF QueueFresh
  <2> QED BY <1>3, <1>4, <2>1, <2>2
<1> QED BY <1>2, <1>4 DEF QueueFresh

\* The first message is read: it is pending and no longer in the stream.
LEMMA FreshConsume ==
  ASSUME QueueFresh, StreamOK, RunsOK, NEW c \in Coroutines, Consume(c)
  PROVE  QueueFresh'
<1> DEFINE n == Len(queue)
<1>1. /\ n \in Nat \ {0} /\ DOMAIN queue = 1..n /\ queue' = Tail(queue)
      /\ Head(queue) = queue[1] /\ pending' = pending \cup {queue[1]}
  BY DEF Consume, StreamOK
<1>2. /\ DOMAIN queue' = 1..(n - 1) /\ 1 \in 1..n
      /\ \A i \in 1..(n - 1) : queue'[i] = queue[i + 1] /\ i + 1 \in 1..n /\ i + 1 # 1
  BY <1>1 DEF StreamOK
<1>3. \A d \in Coroutines : run'[d].msg = IF d = c THEN queue[1] ELSE run[d].msg
  BY <1>1 DEF Consume, Process, RunsOK
<1> HIDE DEF n
<1>4. ASSUME NEW i \in 1..(n - 1)
      PROVE  /\ queue'[i] \notin pending'
             /\ \A d \in Coroutines : run'[d].msg # queue'[i]
             /\ \A k \in 1..(n - 1) : queue'[k] = queue'[i] => k = i
  <2>1. queue[i + 1] # queue[1] /\ queue[i + 1] \notin pending
        /\ \A d \in Coroutines : run[d].msg # queue[i + 1]
    BY <1>1, <1>2, <1>4 DEF QueueFresh
  <2>2. ASSUME NEW k \in 1..(n - 1), queue'[k] = queue'[i] PROVE k = i
    <3>1. k + 1 = i + 1
      BY <1>1, <1>2, <1>4, <2>2 DEF QueueFresh
    <3> QED BY <1>1, <3>1
  <2> QED BY <1>1, <1>2, <1>3, <1>4, <2>1, <2>2
<1> QED BY <1>2, <1>4 DEF QueueFresh

-----------------------------------------------------------------------------
\* What the three kinds of steps of a coroutine make of the runs.
LEMMA MoveOf ==
  ASSUME TypeInv, NEW c \in Coroutines, NEW to, Go(c, to)
  PROVE  /\ run'[c].msg = run[c].msg /\ run'[c].step = to
         /\ \A d \in Coroutines \ {c} : run'[d] = run[d]
BY DEF TypeInv, RunsOK, Runs, Go

LEMMA LeaveOf ==
  ASSUME TypeInv, NEW c \in Coroutines, At(c, Steps \ {"idle", "permit"}), Leave(c), UNCHANGED up
  PROVE  /\ run'[c] = Idle
         /\ \A d \in Coroutines \ {c} :
              \/ run'[d] = run[d]
              \/ run[d].step = "permit" /\ run'[d].step = "lock" /\ run'[d].msg = run[d].msg
<1>1. run \in [Coroutines -> Runs]
  BY DEF TypeInv, RunsOK
<1>2. /\ run'[c] = Idle
      /\ \A d \in Coroutines \ {c} :
           \/ run'[d] = run[d]
           \/ run[d].step = "permit" /\ run'[d] = [run[d] EXCEPT !.step = "lock"]
  BY LeaveRuns DEF TypeInv, At
<1>3. ASSUME NEW d \in Coroutines, run[d].step = "permit", run'[d] = [run[d] EXCEPT !.step = "lock"]
      PROVE  run'[d].step = "lock" /\ run'[d].msg = run[d].msg
  <2>1. run[d] \in Runs
    BY <1>1
  <2> QED BY <1>3, <2>1 DEF Runs
<1> QED BY <1>2, <1>3

LEMMA ProcessOf ==
  ASSUME TypeInv, NEW c \in Coroutines, NEW m, Process(c, m)
  PROVE  /\ run'[c].msg = m /\ run'[c].step \in {"lock", "permit"}
         /\ \A d \in Coroutines \ {c} : run'[d] = run[d]
BY DEF TypeInv, RunsOK, Runs, Process

\* The next message is told from all that are known, whoever enqueues it.
LEMMA FreshStep == TypeInv /\ QueueFresh /\ [Next]_vars => QueueFresh'
<1> SUFFICES ASSUME TypeInv, QueueFresh, [Next]_vars PROVE QueueFresh'
  OBVIOUS
<1>0. RunsOK /\ StreamOK /\ queue \in Seq(Message)
  BY DEF TypeInv, StreamOK
<1>1. CASE UNCHANGED vars
  BY <1>1 DEF vars, Stream, QueueFresh
<1>2. ASSUME NEW j \in Jobs, Notify(j) PROVE QueueFresh'
  <2>1. CASE Enqueue(j, 0, 0)
    BY <1>0, <1>2, <2>1, FreshEnqueue DEF Notify
  <2>2. CASE UNCHANGED queue
    BY <1>0, <1>2, <2>2, FreshFrame DEF Notify
  <2> QED BY <1>2, <2>1, <2>2 DEF Notify
<1>3. ASSUME NEW p \in Pods, ScanEnqueue(p) PROVE QueueFresh'
  <2>1. PICK j \in scan[p] : Enqueue(j, 0, 0)
    BY <1>3 DEF ScanEnqueue
  <2>2. j \in Jobs
    BY <2>1 DEF TypeInv, RestOK
  <2> QED BY <1>0, <1>3, <2>1, <2>2, FreshEnqueue DEF ScanEnqueue
<1>4. ASSUME NEW p \in Pods, Scan(p) \/ ScanFails(p) \/ Stop(p) PROVE QueueFresh'
  BY <1>0, <1>4, FreshFrame DEF Scan, ScanFails, Stop, Stream
<1>5. ASSUME NEW p \in Pods, Crash(p) PROVE QueueFresh'
  <2>1. \A c \in Coroutines : run'[c].msg = run[c].msg \/ run'[c].msg = NoMessage
    BY <1>5 DEF Crash, Idle
  <2> QED BY <1>0, <1>5, <2>1, FreshFrame DEF Crash, Stream
<1>6. ASSUME NEW k \in LockKeys, Expire(k) PROVE QueueFresh'
  BY <1>0, <1>6, FreshFrame DEF Expire, Stream
<1>7. ASSUME NEW c \in Coroutines, Consume(c) PROVE QueueFresh'
  BY <1>0, <1>7, FreshConsume
<1>8. ASSUME NEW c \in Coroutines, NEW m \in pending, Claim(c, m) PROVE QueueFresh'
  <2>1. \A d \in Coroutines : run'[d].msg = run[d].msg \/ run'[d].msg \in pending
    BY <1>8, ProcessOf DEF Claim
  <2> QED BY <1>0, <1>8, <2>1, FreshFrame DEF Claim, Stream
<1>9. ASSUME NEW c \in Coroutines, LockFails(c) \/ RenewFails(c) PROVE QueueFresh'
  <2>1. \A d \in Coroutines : run'[d].msg = run[d].msg \/ run'[d].msg = NoMessage
    BY <1>0, <1>9 DEF LockFails, RenewFails, Idle, RunsOK, Runs
  <2> QED BY <1>0, <1>9, <2>1, FreshFrame DEF LockFails, RenewFails, Stream
<1>10. ASSUME NEW c \in Coroutines, GivenUp(c) \/ Finally(c) PROVE QueueFresh'
  <2>1. At(c, Steps \ {"idle", "permit"}) /\ Leave(c) /\ UNCHANGED <<up, queue>>
    BY <1>10 DEF GivenUp, Finally, At, Steps, Stream
  <2>2. \A d \in Coroutines : run'[d].msg = run[d].msg \/ run'[d].msg = NoMessage
    BY <2>1, LeaveOf DEF Idle
  <2>3. pending' \subseteq pending
    BY <1>10 DEF GivenUp, Finally, AckedIfPossible, Acked, Stream
  <2> QED BY <1>0, <2>1, <2>2, <2>3, FreshFrame
<1>11. ASSUME NEW c \in Coroutines, NEW to, Go(c, to), pending' \subseteq pending,
              \/ UNCHANGED queue
              \/ \E j \in Jobs, retry, requeue \in Nat : Enqueue(j, retry, requeue)
       PROVE  QueueFresh'
  <2>1. \A d \in Coroutines : run'[d].msg = run[d].msg
    BY <1>11, MoveOf
  <2> QED BY <1>0, <1>11, <2>1, FreshFrame, FreshEnqueue
<1>12. ASSUME NEW c \in Coroutines, GiveUp(c) PROVE QueueFresh'
  <2>1. JobOf(c) \in Jobs /\ run[c].msg.retry \in Nat /\ run[c].msg.requeue + 1 \in Nat
    BY <1>0, <1>12, RunType DEF GiveUp, At
  <2> QED BY <1>11, <1>12, <2>1 DEF GiveUp
<1>13. ASSUME NEW c \in Coroutines, ReEnqueue(c) PROVE QueueFresh'
  <2>1. JobOf(c) \in Jobs /\ run[c].msg.retry + 1 \in Nat /\ run[c].msg.requeue \in Nat
    BY <1>0, <1>13, RunType DEF ReEnqueue, At
  <2> QED BY <1>11, <1>13, <2>1 DEF ReEnqueue
<1>14. ASSUME NEW c \in Coroutines, Cascade(c) \/ CascadeFails(c) PROVE QueueFresh'
  <2>1. JobOf(c) \in Jobs
    BY <1>0, <1>14, RunType DEF Cascade, CascadeFails, At
  <2>2. FollowUp[JobOf(c)] # NoJob => FollowUp[JobOf(c)] \in Jobs
    BY <2>1, JobsAssumption
  <2> QED BY <1>11, <1>14, <2>2 DEF Cascade, CascadeFails, Catch, EnqueueNext
<1>15. ASSUME NEW c \in Coroutines,
              \/ Lock(c) \/ Succeed(c) \/ AckTask(c) \/ Fail(c) \/ BackOff(c) \/ DeadLetter(c)
       PROVE  QueueFresh'
  BY <1>11, <1>15 DEF Lock, Succeed, AckTask, Catch, Fail, BackOff, DeadLetter, Acked,
                      AckedIfPossible, Stream
<1> QED BY <1>1, <1>2, <1>3, <1>4, <1>5, <1>6, <1>7, <1>8, <1>9, <1>10, <1>12, <1>13, <1>14, <1>15
        DEF Next, Work

-----------------------------------------------------------------------------
\* A message that was put back under another requeue count, by a coroutine
\* that will acknowledge it.
Replaced(m) == \E c \in Coroutines : At(c, {"requeued"}) /\ run[c].msg = m

\* The coroutines that bring an open job back, and those that bring a
\* finished one to its follow-up, once its message is acknowledged.
Retrying == {"sleep"}
Following == {"acked", "failed", "sleep"}

\* What carries job j: a timer, a message, or a coroutine at one of "steps".
Carrier(j, steps) ==
  \/ j \in timers \/ \E p \in Pods : j \in scan[p]
  \/ \E i \in DOMAIN queue : queue[i].job = j
  \/ \E m \in pending : m.job = j /\ ~Replaced(m)
  \/ \E c \in Coroutines : At(c, steps) /\ JobOf(c) = j /\ run[c].msg \notin pending

NextIsNew(j) == FollowUp[j] # NoJob /\ settled[FollowUp[j]] = "new"

\* The strengthening of NoJobLost and FollowUpsCome: a pending message that
\* is replaced carries nothing, and neither does a coroutine whose message
\* is still pending.
JobInv == \A j \in Jobs :
  /\ settled[j] = "open" /\ j \notin lost => Carrier(j, Retrying)
  /\ settled[j] = "done" /\ NextIsNew(j) /\ lost \cap {j, FollowUp[j]} = {} =>
       Carrier(j, Following)

\* Where a job needs no carrier any more.
Over(j, steps) ==
  \/ j \in lost \/ settled[j] \in {"dead", "dropped"}
  \/ steps = Retrying /\ settled[j] # "open"
  \/ steps = Following /\ (~NextIsNew(j) \/ FollowUp[j] \in lost)

LEMMA Appended ==
  ASSUME StreamOK, NEW m, queue' = Append(queue, m)
  PROVE  /\ \A i \in DOMAIN queue : i \in DOMAIN queue' /\ queue'[i] = queue[i]
         /\ \E i \in DOMAIN queue' : queue'[i] = m
<1> DEFINE n == Len(queue)
<1>1. /\ n \in Nat /\ DOMAIN queue = 1..n /\ DOMAIN queue' = 1..(n + 1)
      /\ queue'[n + 1] = m /\ \A i \in 1..n : queue'[i] = queue[i]
  BY AppendProperties DEF StreamOK
<1>2. n + 1 \in 1..(n + 1) /\ \A i \in 1..n : i \in 1..(n + 1)
  BY <1>1
<1> QED BY <1>1, <1>2

\* The stream grows, and the new message carries its job.
LEMMA EnqueueCarries ==
  ASSUME StreamOK, NEW j, NEW retry, NEW requeue, Enqueue(j, retry, requeue)
  PROVE  /\ \A steps : Carrier(j, steps)'
         /\ \A i \in DOMAIN queue : i \in DOMAIN queue' /\ queue'[i] = queue[i]
BY Appended DEF Enqueue, Carrier

\* Steps after which everything that carried the job still does.
LEMMA CarrierFrame ==
  ASSUME NEW j, NEW steps, Carrier(j, steps),
         j \in timers => j \in timers',
         \A p \in Pods : j \in scan[p] => j \in scan'[p],
         \A i \in DOMAIN queue : i \in DOMAIN queue' /\ queue'[i] = queue[i],
         \A m \in pending : m.job = j /\ ~Replaced(m) => m \in pending',
         \A c \in Coroutines : At(c, {"requeued"})' =>
           JobOf(c)' # j \/ (At(c, {"requeued"}) /\ run'[c].msg = run[c].msg),
         \A c \in Coroutines : At(c, steps) /\ JobOf(c) = j /\ run[c].msg \notin pending =>
           At(c, steps)' /\ run'[c].msg = run[c].msg /\ run'[c].msg \notin pending'
  PROVE  Carrier(j, steps)'
<1>1. ASSUME NEW m \in pending, m.job = j, ~Replaced(m) PROVE m \in pending' /\ ~Replaced(m)'
  BY <1>1 DEF Replaced, JobOf
<1>2. ASSUME NEW c \in Coroutines, At(c, steps), JobOf(c) = j, run[c].msg \notin pending
      PROVE  At(c, steps)' /\ JobOf(c)' = j /\ run'[c].msg \notin pending'
  BY <1>2 DEF JobOf
<1> QED BY <1>1, <1>2 DEF Carrier

\* A step of one coroutine that moves on, and neither acknowledges nor takes
\* a message of the job.
LEMMA CarrierMove ==
  ASSUME TypeInv, NEW j, NEW steps, Carrier(j, steps), NEW c \in Coroutines, NEW to, Go(c, to),
         UNCHANGED <<timers, scan, up>>,
         \A i \in DOMAIN queue : i \in DOMAIN queue' /\ queue'[i] = queue[i],
         pending' = pending \/ (pending' = pending \ {run[c].msg} /\ JobOf(c) # j),
         run[c].step \in steps => JobOf(c) # j \/ to \in steps,
         to = "requeued" => JobOf(c) # j
  PROVE  Carrier(j, steps)'
<1>1. /\ run'[c].msg = run[c].msg /\ run'[c].step = to
      /\ \A d \in Coroutines \ {c} : run'[d] = run[d]
  BY MoveOf
<1>2. \A m \in pending : m.job = j => m \in pending'
  BY DEF JobOf
<1>3. \A d \in Coroutines : At(d, {"requeued"})' =>
           JobOf(d)' # j \/ (At(d, {"requeued"}) /\ run'[d].msg = run[d].msg)
  BY <1>1 DEF At, JobOf
<1>4. \A d \in Coroutines : At(d, steps) /\ JobOf(d) = j /\ run[d].msg \notin pending =>
           At(d, steps)' /\ run'[d].msg = run[d].msg /\ run'[d].msg \notin pending'
  BY <1>1 DEF At, JobOf
<1> QED BY <1>2, <1>3, <1>4, CarrierFrame

\* The producers hand a job on, from a timer to a scanner to the stream.
LEMMA ProducersCarry ==
  ASSUME TypeInv, NEW j \in Jobs, NEW steps, Carrier(j, steps),
         \/ \E i \in Jobs : Notify(i)
         \/ \E p \in Pods : Scan(p) \/ ScanEnqueue(p) \/ ScanFails(p) \/ Stop(p)
         \/ \E k \in LockKeys : Expire(k)
  PROVE  (Carrier(j, steps) \/ Over(j, steps))'
<1>0. StreamOK /\ scan \in [Pods -> SUBSET Jobs]
  BY DEF TypeInv, RestOK
<1>1. UNCHANGED <<run, up, pending>>
  BY DEF Notify, Scan, ScanEnqueue, ScanFails, Stop, Expire, Stream
<1>2. \A d \in Coroutines : At(d, {"requeued"})' => At(d, {"requeued"}) /\ run'[d].msg = run[d].msg
  BY <1>1 DEF At
<1>3. \A d \in Coroutines : At(d, steps) => At(d, steps)' /\ run'[d].msg = run[d].msg
  BY <1>1 DEF At
<1>4. ASSUME j \in timers => j \in timers', \A p \in Pods : j \in scan[p] => j \in scan'[p],
             \A i \in DOMAIN queue : i \in DOMAIN queue' /\ queue'[i] = queue[i]
      PROVE  Carrier(j, steps)'
  BY <1>1, <1>2, <1>3, <1>4, CarrierFrame
<1>5. ASSUME NEW i \in Jobs, Notify(i) PROVE Carrier(j, steps)'
  <2>1. \A k \in DOMAIN queue : k \in DOMAIN queue' /\ queue'[k] = queue[k]
    BY <1>0, <1>5, EnqueueCarries DEF Notify
  <2> QED BY <1>4, <1>5, <2>1 DEF Notify
<1>6. ASSUME NEW p \in Pods, Scan(p) PROVE Carrier(j, steps)'
  <2>1. PICK batch \in SUBSET timers \ {{}} :
          scan' = [scan EXCEPT ![p] = batch] /\ timers' = timers \ batch
    BY <1>6 DEF Scan
  <2>2. scan[p] = {} /\ UNCHANGED queue
    BY <1>6 DEF Scan, Stream
  <2>3. CASE j \in batch
    <3>1. j \in scan'[p]
      BY <1>0, <2>1, <2>3
    <3> QED BY <3>1 DEF Carrier
  <2>4. CASE j \notin batch
    <3>1. j \in timers => j \in timers'
      BY <2>1, <2>4
    <3>2. \A q \in Pods : j \in scan[q] => j \in scan'[q]
      BY <1>0, <2>1, <2>2
    <3> QED BY <1>4, <2>2, <3>1, <3>2
  <2> QED BY <2>3, <2>4
<1>7. ASSUME NEW p \in Pods, ScanEnqueue(p) PROVE Carrier(j, steps)'
  <2>1. PICK i \in scan[p] : scan' = [scan EXCEPT ![p] = @ \ {i}] /\ Enqueue(i, 0, 0)
    BY <1>7 DEF ScanEnqueue
  <2>2. Carrier(i, steps)' /\ \A k \in DOMAIN queue : k \in DOMAIN queue' /\ queue'[k] = queue[k]
    BY <1>0, <2>1, EnqueueCarries
  <2>3. CASE i # j
    <3>1. \A q \in Pods : j \in scan[q] => j \in scan'[q]
      BY <1>0, <2>1, <2>3
    <3>2. UNCHANGED timers
      BY <1>7 DEF ScanEnqueue
    <3> QED BY <1>4, <2>2, <3>1, <3>2
  <2> QED BY <2>2, <2>3
<1>8. ASSUME NEW p \in Pods, ScanFails(p) PROVE (Carrier(j, steps) \/ Over(j, steps))'
  <2>1. scan' = [scan EXCEPT ![p] = {}] /\ lost' = lost \cup scan[p] /\ UNCHANGED <<timers, queue>>
    BY <1>8 DEF ScanFails, Stream
  <2>2. CASE j \in scan[p]
    BY <2>1, <2>2 DEF Over
  <2>3. CASE j \notin scan[p]
    <3>1. \A q \in Pods : j \in scan[q] => j \in scan'[q]
      BY <1>0, <2>1, <2>3
    <3> QED BY <1>4, <2>1, <3>1
  <2> QED BY <2>2, <2>3
<1>9. ASSUME NEW p \in Pods, Stop(p) PROVE Carrier(j, steps)'
  BY <1>4, <1>9 DEF Stop, Stream
<1>10. ASSUME NEW k \in LockKeys, Expire(k) PROVE Carrier(j, steps)'
  BY <1>4, <1>10 DEF Expire, Stream
<1> QED BY <1>5, <1>6, <1>7, <1>8, <1>9, <1>10

\* What a dying process takes with it is lost; the rest is with others.
LEMMA CrashCarries ==
  ASSUME TypeInv, NEW j \in Jobs, NEW steps, steps \subseteq Following, Carrier(j, steps),
         NEW p \in Pods, Crash(p)
  PROVE  (Carrier(j, steps) \/ Over(j, steps))'
<1> SUFFICES ASSUME j \notin lost' PROVE Carrier(j, steps)'
  BY DEF Over
<1>1. /\ scan \in [Pods -> SUBSET Jobs] /\ scan' = [scan EXCEPT ![p] = {}] /\ up' = up \ {p}
      /\ UNCHANGED <<timers, queue, pending>>
      /\ \A d \in Coroutines : run'[d] = IF PodOf[d] = p THEN Idle ELSE run[d]
  BY DEF TypeInv, RestOK, Crash, Stream
<1>2. j \notin scan[p] /\ \A d \in Coroutines : PodOf[d] = p /\ OnlyHere(d) => JobOf(d) # j
  BY DEF Crash
<1>3. \A q \in Pods : j \in scan[q] => j \in scan'[q]
  BY <1>1, <1>2
<1>4. \A d \in Coroutines : At(d, {"requeued"})' => At(d, {"requeued"}) /\ run'[d].msg = run[d].msg
  BY <1>1 DEF At
<1>5. ASSUME NEW d \in Coroutines, At(d, steps), JobOf(d) = j, run[d].msg \notin pending
      PROVE  At(d, steps)' /\ run'[d].msg = run[d].msg
  <2>1. PodOf[d] # p
    BY <1>2, <1>5 DEF OnlyHere, At, Following
  <2> QED BY <1>1, <1>5, <2>1 DEF At
<1> QED BY <1>1, <1>3, <1>4, <1>5, CarrierFrame

\* Reading a message takes it from the stream to the pending ones, and
\* claiming it leaves it there.
LEMMA TakeCarries ==
  ASSUME TypeInv, QueueFresh, NEW j \in Jobs, NEW steps, steps \subseteq Following,
         Carrier(j, steps),
         NEW c \in Coroutines, Consume(c) \/ \E m \in pending : Claim(c, m)
  PROVE  Carrier(j, steps)'
<1>1. /\ run[c].step = "idle" /\ run'[c].step \in {"lock", "permit"}
      /\ \A d \in Coroutines \ {c} : run'[d] = run[d]
      /\ UNCHANGED <<timers, scan, up>>
  BY ProcessOf DEF Consume, Claim, At
<1>2. \A d \in Coroutines : At(d, {"requeued"})' => At(d, {"requeued"}) /\ run'[d] = run[d]
  BY <1>1 DEF At
<1>3. \A d \in Coroutines : At(d, steps) => At(d, steps)' /\ run'[d] = run[d]
  BY <1>1 DEF At, Following
<1>4. CASE \E m \in pending : Claim(c, m)
  <2>1. UNCHANGED <<queue, pending>>
    BY <1>4 DEF Claim, Stream
  <2> QED BY <1>1, <1>2, <1>3, <2>1, CarrierFrame
<1>5. CASE Consume(c)
  <2> DEFINE n == Len(queue)
  <2>1. /\ n \in Nat \ {0} /\ DOMAIN queue = 1..n /\ queue' = Tail(queue)
        /\ pending' = pending \cup {queue[1]}
    BY <1>5 DEF Consume, TypeInv, StreamOK
  <2>2. \A i \in 1..n : i # 1 => i - 1 \in DOMAIN queue' /\ queue'[i - 1] = queue[i]
    BY <2>1 DEF TypeInv, StreamOK
  <2>3. PICK m \in Message : m = queue[1]
    BY <2>1, ElementOfSeq DEF TypeInv, StreamOK
  <2>4. m \in pending' /\ ~Replaced(m)'
    <3>1. \A d \in Coroutines : run[d].msg # m
      BY <2>1, <2>3 DEF QueueFresh
    <3>2. \A d \in Coroutines : At(d, {"requeued"})' => run'[d].msg # m
      BY <1>2, <3>1
    <3> QED BY <2>1, <2>3, <3>2 DEF Replaced
  <2>5. ASSUME NEW i \in DOMAIN queue, queue[i].job = j PROVE Carrier(j, steps)'
    <3>1. CASE i = 1
      BY <2>3, <2>4, <2>5, <3>1 DEF Carrier
    <3>2. CASE i # 1
      BY <2>1, <2>2, <2>5, <3>2 DEF Carrier
    <3> QED BY <3>1, <3>2
  <2>6. ASSUME NEW x \in pending, x.job = j, ~Replaced(x) PROVE Carrier(j, steps)'
    <3>1. x \in pending' /\ ~Replaced(x)'
      BY <1>2, <2>1, <2>6 DEF Replaced
    <3> QED BY <2>6, <3>1 DEF Carrier
  <2>7. ASSUME NEW d \in Coroutines, At(d, steps), JobOf(d) = j, run[d].msg \notin pending
        PROVE  Carrier(j, steps)'
    <3>1. At(d, steps)' /\ JobOf(d)' = j /\ run'[d].msg \notin pending'
      BY <1>3, <2>1, <2>7 DEF QueueFresh, JobOf
    <3> QED BY <3>1 DEF Carrier
  <2> QED BY <1>1, <2>5, <2>6, <2>7 DEF Carrier
<1> QED BY <1>4, <1>5

\* A coroutine that leaves returns to no job; the message it acknowledges is
\* replaced, or was the last try.
LEMMA LeaveCarries ==
  ASSUME TypeInv, NEW j \in Jobs, NEW steps, steps \subseteq Following, Carrier(j, steps),
         NEW c \in Coroutines, GivenUp(c) \/ Finally(c)
  PROVE  (Carrier(j, steps) \/ Over(j, steps))'
<1>1. /\ At(c, {"requeued", "dropping", "release"}) /\ Leave(c)
      /\ UNCHANGED <<up, timers, scan, queue>>
  BY DEF GivenUp, Finally, At, Stream
<1>2. /\ run'[c] = Idle
      /\ \A d \in Coroutines \ {c} :
           \/ run'[d] = run[d]
           \/ run[d].step = "permit" /\ run'[d].step = "lock" /\ run'[d].msg = run[d].msg
  BY <1>1, LeaveOf DEF At, Steps
<1>3. \A d \in Coroutines : At(d, {"requeued"})' => At(d, {"requeued"}) /\ run'[d].msg = run[d].msg
  BY <1>1, <1>2 DEF At, Idle
<1>4. \A d \in Coroutines : At(d, steps) => At(d, steps)' /\ run'[d].msg = run[d].msg
  BY <1>1, <1>2 DEF At, Following
<1>5. pending' \subseteq pending /\ (\A m \in pending : m # run[c].msg => m \in pending')
  BY DEF GivenUp, Finally, AckedIfPossible, Acked, Stream
<1>6. ASSUME \A m \in pending : m.job = j /\ ~Replaced(m) => m \in pending'
      PROVE  Carrier(j, steps)'
  BY <1>1, <1>3, <1>4, <1>5, <1>6, CarrierFrame
<1>7. CASE run[c].step = "requeued"
  <2>1. Replaced(run[c].msg)
    BY <1>1, <1>7 DEF Replaced, At
  <2> QED BY <1>5, <1>6, <2>1
<1>8. CASE run[c].step = "dropping"
  <2>1. settled' = [settled EXCEPT ![JobOf(c)] = "dropped"]
    BY <1>8 DEF GivenUp, Finally, Settle, At
  <2>2. CASE JobOf(c) = j
    <3>1. settled'[j] = "dropped"
      BY <2>1, <2>2 DEF TypeInv, RestOK
    <3> QED BY <3>1 DEF Over
  <2>3. CASE JobOf(c) # j
    BY <1>5, <1>6, <2>3 DEF JobOf
  <2> QED BY <2>2, <2>3
<1>9. CASE run[c].step = "release"
  <2>1. UNCHANGED pending
    BY <1>9 DEF GivenUp, Finally, At, Stream
  <2> QED BY <1>6, <2>1
<1> QED BY <1>1, <1>7, <1>8, <1>9 DEF At

\* Getting the lock or not: a coroutine that gives up puts the job back first.
LEMMA LockCarries ==
  ASSUME TypeInv, NEW j \in Jobs, NEW steps, steps \subseteq Following, Carrier(j, steps),
         NEW c \in Coroutines, Lock(c) \/ LockFails(c) \/ RenewFails(c) \/ GiveUp(c)
  PROVE  Carrier(j, steps)'
<1>0. StreamOK
  BY DEF TypeInv
<1>1. UNCHANGED <<timers, scan, up, pending>>
  BY DEF Lock, LockFails, RenewFails, GiveUp, Stream
<1>2. CASE Lock(c)
  <2>1. \E to \in {"exec", "wait"} : Go(c, to)
    BY <1>2 DEF Lock
  <2>2. run[c].step \notin steps /\ UNCHANGED queue
    BY <1>2 DEF Lock, At, Following, Stream
  <2> QED BY <1>1, <2>1, <2>2, CarrierMove
<1>3. CASE LockFails(c) \/ RenewFails(c)
  <2>1. run[c].step # "requeued" /\ UNCHANGED queue
    BY <1>3 DEF LockFails, RenewFails, At, InTask, Stream
  <2>2. /\ \/ run[c].step \notin steps /\ run'[c].step = "idle"
           \/ run'[c].step = run[c].step /\ run'[c].msg = run[c].msg
        /\ \A d \in Coroutines \ {c} : run'[d] = run[d]
    BY <1>3 DEF LockFails, RenewFails, Idle, At, Following, TypeInv, RunsOK, Runs
  <2>3. \A d \in Coroutines : At(d, {"requeued"})' =>
          At(d, {"requeued"}) /\ run'[d].msg = run[d].msg
    BY <1>1, <2>1, <2>2 DEF At
  <2>4. \A d \in Coroutines : At(d, steps) => At(d, steps)' /\ run'[d].msg = run[d].msg
    BY <1>1, <2>1, <2>2 DEF At
  <2> QED BY <1>1, <2>1, <2>3, <2>4, CarrierFrame
<1>4. CASE GiveUp(c)
  <2>1. run[c].step \notin steps
    BY <1>4 DEF GiveUp, At, Following
  <2>2. CASE Go(c, "dropping") /\ UNCHANGED queue
    BY <1>1, <2>1, <2>2, CarrierMove
  <2>3. CASE Go(c, "requeued") /\ Enqueue(JobOf(c), run[c].msg.retry, run[c].msg.requeue + 1)
    <3>1. PICK i, a, b : i = JobOf(c) /\ Enqueue(i, a, b)
      BY <2>3
    <3>2. CASE i = j
      BY <1>0, <3>1, <3>2, EnqueueCarries
    <3>3. CASE i # j
      <4>1. \A k \in DOMAIN queue : k \in DOMAIN queue' /\ queue'[k] = queue[k]
        BY <1>0, <3>1, EnqueueCarries
      <4> QED BY <1>1, <2>3, <3>1, <3>3, <4>1, CarrierMove
    <3> QED BY <3>2, <3>3
  <2> QED BY <1>4, <2>2, <2>3 DEF GiveUp
<1> QED BY <1>2, <1>3, <1>4

\* Executing: an acknowledged job is settled, and the coroutine goes on to
\* its follow-up.
LEMMA ExecuteCarries ==
  ASSUME TypeInv, NEW j \in Jobs, NEW steps, steps \in {Retrying, Following}, Carrier(j, steps),
         NEW c \in Coroutines, Succeed(c) \/ AckTask(c) \/ Fail(c)
  PROVE  (Carrier(j, steps) \/ Over(j, steps))'
<1>1. run[c].step \in {"exec", "acking"} /\ PodOf[c] \in up /\ UNCHANGED <<timers, scan, up, queue>>
  BY DEF Succeed, AckTask, Catch, Fail, At, Stream
<1>2. run[c].step \notin steps
  BY <1>1 DEF Retrying, Following
<1>3. CASE UNCHANGED pending /\ \E to \in {"release", "acking", "failed"} : Go(c, to)
  BY <1>1, <1>2, <1>3, CarrierMove
<1>4. CASE Acked(c) /\ Settle(JobOf(c), "done") /\ Go(c, "acked")
  <2>1. CASE JobOf(c) # j
    BY <1>1, <1>2, <1>4, <2>1, CarrierMove DEF Acked
  <2>2. CASE JobOf(c) = j /\ steps = Retrying
    <3>1. settled'[j] # "open"
      BY <1>4, <2>2 DEF Settle, TypeInv, RestOK
    <3> QED BY <2>2, <3>1 DEF Over
  <2>3. CASE JobOf(c) = j /\ steps = Following
    <3>1. run'[c].msg = run[c].msg /\ run'[c].step = "acked"
      BY <1>4, MoveOf
    <3>2. At(c, steps)' /\ JobOf(c)' = j /\ run'[c].msg \notin pending'
      BY <1>1, <1>4, <2>3, <3>1 DEF At, Following, JobOf, Acked
    <3> QED BY <3>2 DEF Carrier
  <2> QED BY <2>1, <2>2, <2>3
<1> QED BY <1>3, <1>4 DEF Succeed, AckTask, Catch, Fail, Stream

\* The cascade ends with the follow-up, or fails and is tried again.
LEMMA CascadeCarries ==
  ASSUME TypeInv, NEW j \in Jobs, NEW steps, steps \in {Retrying, Following}, Carrier(j, steps),
         NEW c \in Coroutines, Cascade(c) \/ CascadeFails(c)
  PROVE  (Carrier(j, steps) \/ Over(j, steps))'
<1>0. StreamOK
  BY DEF TypeInv
<1>1. run[c].step = "acked" /\ PodOf[c] \in up /\ UNCHANGED <<timers, scan, up, pending>>
  BY DEF Cascade, CascadeFails, At
<1>2. \A k \in DOMAIN queue : k \in DOMAIN queue' /\ queue'[k] = queue[k]
  BY <1>0, EnqueueCarries DEF Cascade, CascadeFails, EnqueueNext
<1>3. CASE CascadeFails(c)
  <2>1. CASE ~run[c].lockLost
    <3>1. Go(c, "failed") /\ (run[c].step \in steps => "failed" \in steps)
      BY <1>1, <1>3, <2>1 DEF CascadeFails, Catch, Retrying, Following
    <3> QED BY <1>1, <1>2, <3>1, CarrierMove
  <2>2. CASE JobOf(c) # j \/ steps = Retrying
    <3>1. run[c].step \in steps => JobOf(c) # j
      BY <1>1, <2>2 DEF Retrying
    <3>2. \E to \in {"release", "failed"} : Go(c, to)
      BY <1>3 DEF CascadeFails, Catch
    <3>3. CASE "failed" \in steps \/ run[c].step \notin steps \/ JobOf(c) # j
      BY <1>1, <1>2, <3>1, <3>2, CarrierMove
    <3> QED BY <3>1, <3>3
  <2>3. CASE run[c].lockLost /\ JobOf(c) = j /\ steps = Following
    <3>1. CASE FollowUp[j] = NoJob
      BY <2>3, <3>1 DEF Over, NextIsNew
    <3>2. CASE FollowUp[j] # NoJob /\ EnqueueNext(FollowUp[j])
      <4>1. settled'[FollowUp[j]] # "new"
        BY <3>2, JobsAssumption DEF EnqueueNext, TypeInv, RestOK
      <4> QED BY <2>3, <4>1 DEF Over, NextIsNew
    <3>3. CASE FollowUp[j] # NoJob /\ lost' = lost \cup {FollowUp[j]}
      BY <2>3, <3>3 DEF Over
    <3> QED BY <1>3, <2>3, <3>1, <3>2, <3>3 DEF CascadeFails
  <2> QED BY <2>1, <2>2, <2>3
<1>4. CASE Cascade(c)
  <2>1. CASE JobOf(c) # j \/ steps = Retrying
    <3>1. run[c].step \in steps => JobOf(c) # j
      BY <1>1, <2>1 DEF Retrying
    <3>2. Go(c, "release")
      BY <1>4 DEF Cascade
    <3> QED BY <1>1, <1>2, <3>1, <3>2, CarrierMove
  <2>2. CASE JobOf(c) = j /\ steps = Following
    <3>1. ~NextIsNew(j)'
      <4>1. CASE FollowUp[j] = NoJob
        BY <4>1 DEF NextIsNew
      <4>2. CASE FollowUp[j] # NoJob
        <5>1. EnqueueNext(FollowUp[j]) /\ FollowUp[j] \in Jobs
          BY <1>4, <2>2, <4>2, JobsAssumption DEF Cascade
        <5>2. settled'[FollowUp[j]] # "new"
          BY <5>1 DEF EnqueueNext, TypeInv, RestOK
        <5> QED BY <5>2 DEF NextIsNew
      <4> QED BY <4>1, <4>2
    <3> QED BY <2>2, <3>1 DEF Over
  <2> QED BY <2>1, <2>2
<1> QED BY <1>3, <1>4

\* After a failure: the coroutine keeps the job until it is back in the stream.
LEMMA RetryCarries ==
  ASSUME TypeInv, NEW j \in Jobs, NEW steps, steps \in {Retrying, Following}, Carrier(j, steps),
         NEW c \in Coroutines, BackOff(c) \/ ReEnqueue(c) \/ DeadLetter(c)
  PROVE  (Carrier(j, steps) \/ Over(j, steps))'
<1>0. StreamOK
  BY DEF TypeInv
<1>1. /\ At(c, {"failed", "sleep"}) /\ UNCHANGED <<timers, scan, up>>
      /\ pending' = pending \/ pending' = pending \ {run[c].msg}
  BY DEF BackOff, ReEnqueue, DeadLetter, At, AckedIfPossible, Acked
<1>2. \A k \in DOMAIN queue : k \in DOMAIN queue' /\ queue'[k] = queue[k]
  BY <1>0, EnqueueCarries DEF BackOff, ReEnqueue, DeadLetter
<1>3. CASE JobOf(c) # j
  <2>1. \E to \in {"sleep", "release"} : Go(c, to)
    BY DEF BackOff, ReEnqueue, DeadLetter
  <2> QED BY <1>1, <1>2, <1>3, <2>1, CarrierMove
<1>4. CASE JobOf(c) = j /\ BackOff(c)
  <2>1. Go(c, "sleep") /\ "sleep" \in steps
    BY <1>4 DEF BackOff, Retrying, Following
  <2>2. run'[c].msg = run[c].msg /\ run'[c].step = "sleep"
    BY <2>1, MoveOf
  <2>3. At(c, steps)' /\ JobOf(c)' = j
    BY <1>1, <1>4, <2>1, <2>2 DEF At, JobOf
  <2>4. CASE pending' = pending
    BY <1>1, <1>2, <2>1, <2>4, CarrierMove
  <2>5. CASE pending' = pending \ {run[c].msg}
    <3>1. run'[c].msg \notin pending'
      BY <2>2, <2>5
    <3> QED BY <2>3, <3>1 DEF Carrier
  <2> QED BY <1>1, <2>4, <2>5
<1>5. CASE JobOf(c) = j /\ ReEnqueue(c)
  <2>1. CASE lost' = lost \cup {JobOf(c)}
    BY <1>5, <2>1 DEF Over
  <2>2. CASE Enqueue(JobOf(c), run[c].msg.retry + 1, run[c].msg.requeue)
    <3>1. PICK a, b : Enqueue(j, a, b)
      BY <1>5, <2>2
    <3> QED BY <1>0, <3>1, EnqueueCarries
  <2> QED BY <1>5, <2>1, <2>2 DEF ReEnqueue
<1>6. CASE JobOf(c) = j /\ DeadLetter(c)
  <2>1. settled'[j] = "dead"
    BY <1>6 DEF DeadLetter, Settle, TypeInv, RestOK
  <2> QED BY <2>1 DEF Over
<1> QED BY <1>3, <1>4, <1>5, <1>6

\* A step leaves every job its carrier, unless the job is over or lost.
LEMMA CarrierKept ==
  ASSUME TypeInv, QueueFresh, [Next]_vars,
         NEW j \in Jobs, NEW steps, steps \in {Retrying, Following}, Carrier(j, steps)
  PROVE  (Carrier(j, steps) \/ Over(j, steps))'
<1>0. steps \subseteq Following
  BY DEF Retrying, Following
<1>1. CASE UNCHANGED vars
  BY <1>1 DEF vars, Stream, Carrier, Replaced, At, JobOf
<1>2. CASE Next
  BY <1>0, <1>2, ProducersCarry, CrashCarries, TakeCarries, LeaveCarries, LockCarries,
     ExecuteCarries, CascadeCarries, RetryCarries DEF Next, Work
<1> QED BY <1>1, <1>2

\* How the fate of a job changes: it opens with a carrier, and is done while
\* a coroutine is on its way to the follow-up.
Advances(j) ==
  /\ settled[j] # "new" => settled'[j] # "new"
  /\ settled'[j] = "open" => settled[j] = "open" \/ Carrier(j, Retrying)'
  /\ settled'[j] = "done" => settled[j] = "done" \/ Carrier(j, Following)'

LEMMA Begins ==
  ASSUME TypeInv, [Next]_vars, NEW j \in Jobs
  PROVE  Advances(j)
<1>0. StreamOK /\ settled \in [Jobs -> {"new", "open", "done", "dead", "dropped"}]
  BY DEF TypeInv, RestOK
<1>1. CASE UNCHANGED settled
  BY <1>1 DEF Advances
<1>2. ASSUME NEW i \in Jobs, Notify(i) PROVE Advances(j)
  <2>1. settled' = [settled EXCEPT ![i] = "open"] /\ settled[i] = "new"
    BY <1>2 DEF Notify
  <2>2. Carrier(i, Retrying)'
    <3>1. CASE Enqueue(i, 0, 0)
      BY <1>0, <3>1, EnqueueCarries
    <3>2. CASE timers' = timers \cup {i}
      BY <3>2 DEF Carrier
    <3> QED BY <1>2, <3>1, <3>2 DEF Notify
  <2>3. CASE i = j
    BY <1>0, <2>1, <2>2, <2>3 DEF Advances
  <2>4. CASE i # j
    BY <1>0, <2>1, <2>4 DEF Advances
  <2> QED BY <2>3, <2>4
<1>3. ASSUME NEW i \in Jobs, EnqueueNext(i) PROVE Advances(j)
  <2>1. settled' = [settled EXCEPT ![i] = IF @ = "new" THEN "open" ELSE @]
    BY <1>3 DEF EnqueueNext
  <2>2. Carrier(i, Retrying)'
    BY <1>0, <1>3, EnqueueCarries DEF EnqueueNext
  <2>3. CASE i = j
    <3>1. settled'[j] = IF settled[j] = "new" THEN "open" ELSE settled[j]
      BY <1>0, <2>1, <2>3
    <3> QED BY <2>2, <2>3, <3>1 DEF Advances
  <2>4. CASE i # j
    BY <1>0, <2>1, <2>4 DEF Advances
  <2> QED BY <2>3, <2>4
<1>4. ASSUME NEW c \in Coroutines, NEW how \in {"dead", "dropped"}, Settle(JobOf(c), how),
             run[c].step # "idle"
      PROVE  Advances(j)
  BY <1>0, <1>4 DEF Settle, Advances
<1>5. ASSUME NEW c \in Coroutines, AckTask(c) PROVE Advances(j)
  <2>1. CASE Acked(c) /\ Settle(JobOf(c), "done") /\ Go(c, "acked")
    <3>1. PICK i : i = JobOf(c)
      OBVIOUS
    <3>2. /\ \A k \in Jobs : k # i => settled'[k] = settled[k]
          /\ i \in Jobs => settled'[i] = IF settled[i] = "open" THEN "done" ELSE settled[i]
      BY <1>0, <2>1, <3>1 DEF Settle
    <3>3. Carrier(i, Following)'
      <4>1. run'[c].msg = run[c].msg /\ run'[c].step = "acked"
        BY <2>1, MoveOf
      <4>2. At(c, Following)' /\ JobOf(c)' = i /\ run'[c].msg \notin pending'
        BY <1>5, <2>1, <3>1, <4>1 DEF AckTask, At, Following, JobOf, Acked
      <4> QED BY <4>2 DEF Carrier
    <3>4. CASE i = j
      BY <3>2, <3>3, <3>4 DEF Advances
    <3>5. CASE i # j
      BY <3>2, <3>5 DEF Advances
    <3> QED BY <3>4, <3>5
  <2> QED BY <1>1, <1>5, <2>1 DEF AckTask
<1>6. ASSUME NEW c \in Coroutines, Cascade(c) \/ CascadeFails(c) PROVE Advances(j)
  <2>1. JobOf(c) \in Jobs
    BY <1>6, RunType DEF Cascade, CascadeFails, At, TypeInv
  <2>2. FollowUp[JobOf(c)] # NoJob => FollowUp[JobOf(c)] \in Jobs
    BY <2>1, JobsAssumption
  <2> QED BY <1>1, <1>3, <1>6, <2>2 DEF Cascade, CascadeFails
<1>7. ASSUME NEW c \in Coroutines, DeadLetter(c) \/ GivenUp(c) PROVE Advances(j)
  BY <1>1, <1>4, <1>7 DEF DeadLetter, GivenUp, At
<1>8. ASSUME NEW p \in Pods, Scan(p) \/ ScanEnqueue(p) \/ ScanFails(p) \/ Stop(p) \/ Crash(p)
      PROVE  Advances(j)
  BY <1>1, <1>8 DEF Scan, ScanEnqueue, ScanFails, Stop, Crash
<1>9. ASSUME NEW c \in Coroutines,
             \/ Consume(c) \/ (\E m \in pending : Claim(c, m)) \/ Lock(c) \/ LockFails(c)
             \/ GiveUp(c) \/ RenewFails(c) \/ Succeed(c) \/ Fail(c) \/ BackOff(c) \/ ReEnqueue(c)
             \/ Finally(c)
      PROVE  Advances(j)
  BY <1>1, <1>9 DEF Consume, Claim, Lock, LockFails, GiveUp, RenewFails, Succeed, AckTask, Catch,
                    Fail, BackOff,
                    ReEnqueue, Finally
<1>10. ASSUME NEW k \in LockKeys, Expire(k) PROVE Advances(j)
  BY <1>1, <1>10 DEF Expire
<1>11. CASE UNCHANGED vars
  BY <1>1, <1>11 DEF vars
<1>12. CASE Next
  BY <1>2, <1>5, <1>6, <1>7, <1>8, <1>9, <1>10, <1>12 DEF Next, Work
<1> QED BY <1>11, <1>12

LEMMA LostStay == [Next]_vars => lost \subseteq lost'
<1>1. ASSUME NEW j \in Jobs, Notify(j) PROVE lost \subseteq lost'
  BY <1>1 DEF Notify
<1>2. ASSUME NEW p \in Pods, Scan(p) \/ ScanEnqueue(p) \/ ScanFails(p) \/ Stop(p) \/ Crash(p)
      PROVE  lost \subseteq lost'
  BY <1>2 DEF Scan, ScanEnqueue, ScanFails, Stop, Crash
<1>3. ASSUME NEW c \in Coroutines,
             \/ Consume(c) \/ (\E m \in pending : Claim(c, m)) \/ Lock(c) \/ LockFails(c)
             \/ GiveUp(c) \/ GivenUp(c) \/ RenewFails(c) \/ Succeed(c) \/ AckTask(c) \/ Fail(c)
      PROVE  lost \subseteq lost'
  BY <1>3 DEF Consume, Claim, Lock, LockFails, GiveUp, GivenUp, RenewFails, Succeed, AckTask,
              Catch, Fail
<1>4. ASSUME NEW c \in Coroutines,
             \/ Cascade(c) \/ CascadeFails(c) \/ BackOff(c) \/ ReEnqueue(c) \/ DeadLetter(c)
             \/ Finally(c)
      PROVE  lost \subseteq lost'
  BY <1>4 DEF Cascade, CascadeFails, BackOff, ReEnqueue, DeadLetter, Finally
<1>5. ASSUME NEW k \in LockKeys, Expire(k) PROVE lost \subseteq lost'
  BY <1>5 DEF Expire
<1>6. CASE UNCHANGED vars
  BY <1>6 DEF vars
<1> QED BY <1>1, <1>2, <1>3, <1>4, <1>5, <1>6 DEF Next, Work

LEMMA JobStep == TypeInv /\ QueueFresh /\ JobInv /\ [Next]_vars => JobInv'
<1> SUFFICES ASSUME TypeInv, QueueFresh, JobInv, [Next]_vars, NEW j \in Jobs
             PROVE  /\ settled'[j] = "open" /\ j \notin lost' => Carrier(j, Retrying)'
                    /\ settled'[j] = "done" /\ NextIsNew(j)' /\ lost' \cap {j, FollowUp[j]} = {} =>
                         Carrier(j, Following)'
  BY DEF JobInv
<1>0. lost \subseteq lost'
  BY LostStay
<1>1. Retrying # Following
  BY DEF Retrying, Following
<1>2. ASSUME settled'[j] = "open", j \notin lost' PROVE Carrier(j, Retrying)'
  <2>1. CASE settled[j] = "open"
    <3>1. Carrier(j, Retrying)
      BY <1>0, <1>2, <2>1 DEF JobInv
    <3>2. (Carrier(j, Retrying) \/ Over(j, Retrying))'
      BY <3>1, CarrierKept
    <3> QED BY <1>1, <1>2, <3>2 DEF Over
  <2> QED BY <1>2, <2>1, Begins DEF Advances
<1>3. ASSUME settled'[j] = "done", NextIsNew(j)', lost' \cap {j, FollowUp[j]} = {}
      PROVE  Carrier(j, Following)'
  <2>1. NextIsNew(j)
    <3>1. FollowUp[j] \in Jobs /\ settled'[FollowUp[j]] = "new"
      BY <1>3, JobsAssumption DEF NextIsNew
    <3> QED BY <1>3, <3>1, Begins DEF NextIsNew, Advances
  <2>2. CASE settled[j] = "done"
    <3>1. Carrier(j, Following)
      BY <1>0, <1>3, <2>1, <2>2 DEF JobInv
    <3>2. (Carrier(j, Following) \/ Over(j, Following))'
      BY <3>1, CarrierKept
    <3> QED BY <1>1, <1>3, <3>2 DEF Over
  <2> QED BY <1>3, <2>2, Begins DEF Advances
<1> QED BY <1>2, <1>3

LEMMA JobInvariant == Spec => [](QueueFresh /\ JobInv)
<1>1. Init => QueueFresh /\ JobInv
  BY DEF Init, QueueFresh, JobInv
<1> QED BY <1>1, FreshStep, JobStep, TypeInvariant, PTL DEF Spec

\* Whatever fails, and in whatever order processes die and messages are
\* claimed: a job that is not settled is in a timer, a scan, a message or a
\* coroutine that will enqueue it again, but for those the code keeps nowhere.
THEOREM JobsKept == Spec => []NoJobLost
<1>1. JobInv => NoJobLost
  BY DEF JobInv, Retrying, Carrier, NoJobLost, Carried
<1> QED BY <1>1, JobInvariant, PTL

\* An acknowledged task whose follow-up is not enqueued is still in the hands
\* of a coroutine on its way to it, or will run again; when it is not, the code
\* has lost it with a process or a failed call, as "lost" records.
THEOREM FollowUpsKept == Spec => []FollowUpsCome
<1>1. JobInv => FollowUpsCome
  <2> SUFFICES ASSUME JobInv, NEW j \in Jobs, lost \cap {j, FollowUp[j]} = {}, settled[j] = "done",
                      FollowUp[j] # NoJob, settled[FollowUp[j]] = "new"
               PROVE  Carried(j) \/ \E c \in Coroutines : At(c, {"acked", "failed"}) /\ JobOf(c) = j
    BY DEF FollowUpsCome, Cascades
  <2>1. Carrier(j, Following)
    BY DEF JobInv, NextIsNew
  <2> QED BY <2>1 DEF Carrier, Carried, Following, At
<1> QED BY <1>1, JobInvariant, PTL

-----------------------------------------------------------------------------
\* No failing call, no end of a process, no claim of a message in live hands.
Quiet == faults \cap {"slow", "redis", "crash", "stop"} = {}

\* A message that stands for its job: unread, unacknowledged and not replaced,
\* or acknowledged by a coroutine that owes a retry or a follow-up.
Live(m) ==
  \/ \E i \in DOMAIN queue : queue[i] = m
  \/ m \in pending /\ ~Replaced(m)
  \/ \E c \in Coroutines : run[c].step \in {"acked", "sleep"} /\ run[c].msg = m

LiveJob(j) == \E m \in Message : m.job = j /\ Live(m)

\* One token per job: a timer, a claimed timer or a live message.
OneToken == \A j \in Jobs :
  /\ \A m, n \in Message : m.job = j /\ n.job = j /\ Live(m) /\ Live(n) => m = n
  /\ j \in timers => ~LiveJob(j) /\ \A p \in Pods : j \notin scan[p]
  /\ \A p, q \in Pods : j \in scan[p] => ~LiveJob(j) /\ (j \in scan[q] => p = q)

HasToken(j) == LiveJob(j) \/ j \in timers \/ \E p \in Pods : j \in scan[p]

\* A job that is new has no token yet, and the follow-up of a job that is new
\* or has one is new.
NewJobs == \A j \in Jobs :
  /\ settled[j] = "new" => ~HasToken(j)
  /\ FollowUp[j] # NoJob /\ (settled[j] = "new" \/ HasToken(j)) => settled[FollowUp[j]] = "new"

\* A message is in one pair of hands, which acknowledge it once.
HoldOnce ==
  /\ \A c, d \in Coroutines :
       run[c].step # "idle" /\ run[d].step # "idle" /\ run[c].msg = run[d].msg => c = d
  /\ \A c \in Coroutines :
       /\ run[c].step \in {"acked", "sleep"} => run[c].msg \notin pending
       /\ run[c].step \in {"permit", "lock", "wait", "requeued", "dropping", "exec", "acking", "failed"} =>
            run[c].msg \in pending

OneInv == Quiet => up = Pods /\ stopping = {} /\ HoldOnce /\ OneToken /\ NewJobs

\* Steps that make no job new or old and bring no token.
LEMMA TokensFrame ==
  ASSUME OneToken, NewJobs, timers' \subseteq timers,
         \A p \in Pods : scan'[p] \subseteq scan[p],
         \A m \in Message : Live(m)' => Live(m),
         \A j \in Jobs : settled'[j] = "new" <=> settled[j] = "new"
  PROVE  OneToken' /\ NewJobs'
<1>1. \A j \in Jobs : LiveJob(j)' => LiveJob(j)
  BY DEF LiveJob
<1>2. OneToken'
  BY <1>1 DEF OneToken
<1>3. NewJobs'
  BY <1>1, JobsAssumption DEF NewJobs, HasToken
<1> QED BY <1>2, <1>3

\* A retry or a requeue: another message of the job takes the place of one.
LEMMA TokensReplaced ==
  ASSUME OneToken, NewJobs, UNCHANGED <<timers, scan, settled>>,
         NEW old \in Message, NEW new \in Message, new.job = old.job, Live(old),
         \A m \in Message : Live(m)' => m = new \/ (Live(m) /\ m # old)
  PROVE  OneToken' /\ NewJobs'
<1>1. \A j \in Jobs : LiveJob(j)' => LiveJob(j)
  BY DEF LiveJob
<1>2. ASSUME NEW j \in Jobs, NEW m \in Message, NEW n \in Message, m.job = j, n.job = j,
             Live(m)', Live(n)'
      PROVE  m = n
  BY <1>2 DEF OneToken
<1>3. OneToken'
  BY <1>1, <1>2 DEF OneToken
<1>4. NewJobs'
  BY <1>1, JobsAssumption DEF NewJobs, HasToken
<1> QED BY <1>3, <1>4

\* A claimed timer becomes a message.
LEMMA TokensScanned ==
  ASSUME OneToken, NewJobs, UNCHANGED <<timers, settled>>, scan \in [Pods -> SUBSET Jobs],
         NEW p \in Pods, NEW new \in Message, new.job \in scan[p],
         scan' = [scan EXCEPT ![p] = @ \ {new.job}],
         \A m \in Message : Live(m)' => m = new \/ Live(m)
  PROVE  OneToken' /\ NewJobs'
<1>1. \A j \in Jobs : LiveJob(j)' => LiveJob(j) \/ j = new.job
  BY DEF LiveJob
<1>2. new.job \in Jobs /\ ~LiveJob(new.job) /\ new.job \notin timers
      /\ \A q \in Pods : new.job \notin scan'[q]
  BY DEF OneToken
<1>3. \A q \in Pods : scan'[q] \subseteq scan[q]
  OBVIOUS
<1>4. ASSUME NEW j \in Jobs, NEW m \in Message, NEW n \in Message, m.job = j, n.job = j,
             Live(m)', Live(n)'
      PROVE  m = n
  BY <1>2, <1>4 DEF OneToken, LiveJob
<1>5. OneToken'
  BY <1>1, <1>2, <1>3, <1>4 DEF OneToken
<1>6. \A j \in Jobs : HasToken(j)' => HasToken(j)
  BY <1>1, <1>3 DEF HasToken
<1>7. NewJobs'
  BY <1>6, JobsAssumption DEF NewJobs
<1> QED BY <1>5, <1>7

\* A job that was new gets its first token; for a follow-up, that of its
\* predecessor goes.
LEMMA TokensCreated ==
  ASSUME OneToken, NewJobs, TypeInv,
         NEW i \in Jobs, settled[i] = "new", settled' = [settled EXCEPT ![i] = "open"],
         UNCHANGED scan,
         \/ timers' = timers \cup {i} /\ \A m \in Message : Live(m)' => Live(m)
         \/ /\ UNCHANGED timers
            /\ \E new \in Message : new.job = i /\ \A m \in Message : Live(m)' => m = new \/ Live(m),
         \A j \in Jobs : FollowUp[j] = i => settled[j] # "new" /\ ~HasToken(j)'
  PROVE  OneToken' /\ NewJobs'
<1>1. ~HasToken(i) /\ settled'[i] = "open" /\ \A j \in Jobs : j # i => settled'[j] = settled[j]
  BY DEF NewJobs, TypeInv, RestOK
<1>2. \A j \in Jobs : j # i => (HasToken(j)' => HasToken(j))
  BY DEF HasToken, LiveJob
<1>3. FollowUp[i] # NoJob => FollowUp[i] # i /\ settled[FollowUp[i]] = "new"
  BY DEF NewJobs
<1>4. NewJobs'
  BY <1>1, <1>2, <1>3, JobsAssumption DEF NewJobs
<1>5. CASE timers' = timers \cup {i} /\ \A m \in Message : Live(m)' => Live(m)
  <2>1. \A j \in Jobs : LiveJob(j)' => LiveJob(j)
    BY <1>5 DEF LiveJob
  <2>2. ~LiveJob(i) /\ \A p \in Pods : i \notin scan[p]
    BY <1>1 DEF HasToken
  <2>3. ASSUME NEW j \in Jobs, j \in timers' PROVE ~LiveJob(j)' /\ \A p \in Pods : j \notin scan'[p]
    <3>1. CASE j = i
      BY <2>1, <2>2, <3>1
    <3>2. CASE j # i
      BY <1>5, <2>1, <2>3, <3>2 DEF OneToken
    <3> QED BY <3>1, <3>2
  <2>4. ASSUME NEW j \in Jobs, NEW p \in Pods, NEW q \in Pods, j \in scan'[p]
        PROVE  ~LiveJob(j)' /\ (j \in scan'[q] => p = q)
    BY <2>1, <2>4 DEF OneToken
  <2>5. ASSUME NEW j \in Jobs, NEW m \in Message, NEW n \in Message, m.job = j, n.job = j,
               Live(m)', Live(n)'
        PROVE  m = n
    BY <1>5, <2>5 DEF OneToken
  <2> QED BY <1>4, <2>3, <2>4, <2>5 DEF OneToken
<1>6. ASSUME UNCHANGED timers, NEW new \in Message, new.job = i,
             \A m \in Message : Live(m)' => m = new \/ Live(m)
      PROVE  OneToken'
  <2>1. \A m \in Message : m.job = i => ~Live(m)
    BY <1>1 DEF HasToken, LiveJob
  <2>2. ASSUME NEW j \in Jobs, NEW m \in Message, NEW n \in Message, m.job = j, n.job = j,
               Live(m)', Live(n)'
        PROVE  m = n
    BY <1>6, <2>1, <2>2 DEF OneToken
  <2>3. \A j \in Jobs : j # i => (LiveJob(j)' => LiveJob(j))
    BY <1>6 DEF LiveJob
  <2>4. i \notin timers /\ \A p \in Pods : i \notin scan[p]
    BY <1>1 DEF HasToken
  <2> QED BY <1>6, <2>2, <2>3, <2>4 DEF OneToken
<1> QED BY <1>4, <1>5, <1>6

\* The scanner of a process claims timers.
LEMMA TokensClaimed ==
  ASSUME OneToken, NewJobs, TypeInv, NEW p \in Pods, Scan(p)
  PROVE  OneToken' /\ NewJobs'
<1>1. PICK batch \in SUBSET timers \ {{}} :
        scan' = [scan EXCEPT ![p] = batch] /\ timers' = timers \ batch
  BY DEF Scan
<1>2. scan[p] = {} /\ scan \in [Pods -> SUBSET Jobs] /\ UNCHANGED <<settled, run, up, queue, pending>>
  BY DEF Scan, TypeInv, RestOK, Stream
<1>3. \A m \in Message : Live(m)' <=> Live(m)
  BY <1>2 DEF Live, Replaced, At
<1>4. \A j \in Jobs : LiveJob(j)' <=> LiveJob(j)
  BY <1>3 DEF LiveJob
<1>5. \A q \in Pods, j \in Jobs : j \in scan'[q] <=> j \in scan[q] \/ (q = p /\ j \in batch)
  BY <1>1, <1>2
<1>6. \A j \in Jobs : HasToken(j)' => HasToken(j)
  BY <1>1, <1>4, <1>5 DEF HasToken
<1>7. NewJobs'
  BY <1>2, <1>6, JobsAssumption DEF NewJobs
<1>8. OneToken'
  BY <1>1, <1>3, <1>4, <1>5 DEF OneToken
<1> QED BY <1>7, <1>8

\* What an enqueued message makes live.
LEMMA EnqueueLive ==
  ASSUME TypeInv, NEW j \in Jobs, NEW retry \in Nat, NEW requeue \in Nat, Enqueue(j, retry, requeue)
  PROVE  \E new \in Message :
           /\ new.job = j /\ new \notin pending
           /\ \A i \in DOMAIN queue : queue[i] # new
           /\ \A c \in Coroutines : run[c].msg # new
           /\ \A m : (\E i \in DOMAIN queue' : queue'[i] = m) <=>
                       m = new \/ \E i \in DOMAIN queue : queue[i] = m
<1>1. PICK new \in Message :
        /\ new.job = j /\ queue' = Append(queue, new) /\ new \notin pending
        /\ \A i \in DOMAIN queue : queue[i] # new
        /\ \A c \in Coroutines : run[c].msg # new
  BY EnqueueFresh DEF TypeInv
<1> DEFINE n == Len(queue)
<1>2. /\ n \in Nat /\ DOMAIN queue = 1..n /\ DOMAIN queue' = 1..(n + 1)
      /\ queue'[n + 1] = new /\ \A i \in 1..n : queue'[i] = queue[i]
  BY <1>1, AppendProperties DEF TypeInv, StreamOK
<1>3. n + 1 \in 1..(n + 1) /\ \A i \in 1..(n + 1) : i \in 1..n \/ i = n + 1
  BY <1>2
<1>4. \A i \in 1..n : i \in 1..(n + 1)
  BY <1>2
<1> HIDE DEF n
<1>5. ASSUME NEW m
      PROVE  (\E i \in DOMAIN queue' : queue'[i] = m) <=>
                m = new \/ \E i \in DOMAIN queue : queue[i] = m
  BY <1>2, <1>3, <1>4
<1> QED BY <1>1, <1>5

\* Without the faults of Quiet, steps that cannot happen.
LEMMA QuietFacts ==
  ASSUME [Next]_vars, Quiet'
  PROVE  /\ Quiet
         /\ ~Fault("slow") /\ ~Fault("redis") /\ ~Fault("crash") /\ ~Fault("stop")
<1>1. faults \subseteq faults'
  BY FaultsStay DEF vars
<1> QED BY <1>1 DEF Quiet, Fault

LEMMA ProcessesStay ==
  ASSUME [Next]_vars, Quiet', stopping = {}
  PROVE  UNCHANGED <<up, stopping>>
<1>1. ~Fault("crash") /\ ~Fault("stop")
  BY QuietFacts
<1>2. ASSUME NEW p \in Pods, Scan(p) \/ ScanEnqueue(p) \/ ScanFails(p) \/ Stop(p) \/ Crash(p)
      PROVE  UNCHANGED <<up, stopping>>
  BY <1>1, <1>2 DEF Scan, ScanEnqueue, ScanFails, Stop, Crash
<1>3. ASSUME NEW c \in Coroutines,
             \/ Consume(c) \/ (\E m \in pending : Claim(c, m)) \/ Lock(c) \/ LockFails(c)
             \/ GiveUp(c) \/ GivenUp(c) \/ RenewFails(c) \/ Succeed(c) \/ AckTask(c) \/ Fail(c)
      PROVE  UNCHANGED <<up, stopping>>
  BY <1>3 DEF Consume, Claim, Lock, LockFails, GiveUp, GivenUp, RenewFails, Succeed, AckTask,
              Catch, Fail
<1>4. ASSUME NEW c \in Coroutines,
             \/ Cascade(c) \/ CascadeFails(c) \/ BackOff(c) \/ ReEnqueue(c) \/ DeadLetter(c)
             \/ Finally(c)
      PROVE  UNCHANGED <<up, stopping>>
  BY <1>4 DEF Cascade, CascadeFails, BackOff, ReEnqueue, DeadLetter, Finally
<1>5. ASSUME NEW k \in LockKeys, Expire(k) PROVE UNCHANGED <<up, stopping>>
  BY <1>5 DEF Expire
<1>6. ASSUME NEW j \in Jobs, Notify(j) PROVE UNCHANGED <<up, stopping>>
  BY <1>6 DEF Notify
<1>7. CASE UNCHANGED vars
  BY <1>7 DEF vars
<1>8. CASE Next
  BY <1>2, <1>3, <1>4, <1>5, <1>6, <1>8 DEF Next, Work
<1> QED BY <1>7, <1>8

Unacked == {"permit", "lock", "wait", "requeued", "dropping", "exec", "acking", "failed"}

\* A coroutine takes a message that nobody holds.
LEMMA HoldTake ==
  ASSUME TypeInv, QueueFresh, HoldOnce, up = Pods, ~Fault("slow"), NEW c \in Coroutines,
         Consume(c) \/ \E m \in pending : Claim(c, m)
  PROVE  HoldOnce'
<1>1. \E m \in pending' : /\ Process(c, m) /\ run[c].step = "idle"
                          /\ \A d \in Coroutines : run[d].step # "idle" => run[d].msg # m
                          /\ pending \subseteq pending' /\ pending' \subseteq pending \cup {m}
  <2>1. CASE Consume(c)
    <3>1. /\ Head(queue) = queue[1] /\ 1 \in DOMAIN queue /\ pending' = pending \cup {queue[1]}
          /\ Process(c, queue[1]) /\ run[c].step = "idle"
      BY <2>1 DEF Consume, TypeInv, StreamOK, At
    <3> QED BY <3>1 DEF QueueFresh
  <2>2. ASSUME NEW m \in pending, Claim(c, m)
        PROVE  /\ Process(c, m) /\ run[c].step = "idle" /\ UNCHANGED pending
               /\ \A d \in Coroutines : run[d].step # "idle" => run[d].msg # m
    <3>1. ~Held(m) /\ Process(c, m) /\ run[c].step = "idle" /\ UNCHANGED pending
      BY <2>2 DEF Claim, At, Stream
    <3>2. ASSUME NEW d \in Coroutines, run[d].step # "idle" PROVE At(d, Steps \ {"idle"})
      BY <3>2, PoolAssumption DEF At, TypeInv, RunsOK, Runs
    <3> QED BY <3>1, <3>2 DEF Held
  <2> QED BY <2>1, <2>2
<1>2. PICK m \in pending' : /\ Process(c, m) /\ run[c].step = "idle"
                            /\ \A d \in Coroutines : run[d].step # "idle" => run[d].msg # m
                            /\ pending \subseteq pending' /\ pending' \subseteq pending \cup {m}
  BY <1>1
<1>3. /\ run'[c].msg = m /\ run'[c].step \in {"lock", "permit"}
      /\ \A d \in Coroutines \ {c} : run'[d] = run[d]
  BY <1>2, ProcessOf
<1>4. ASSUME NEW d \in Coroutines, NEW e \in Coroutines, run'[d].step # "idle",
             run'[e].step # "idle", run'[d].msg = run'[e].msg
      PROVE  d = e
  BY <1>2, <1>3, <1>4 DEF HoldOnce
<1>5. ASSUME NEW d \in Coroutines
      PROVE  /\ run'[d].step \in {"acked", "sleep"} => run'[d].msg \notin pending'
             /\ run'[d].step \in Unacked => run'[d].msg \in pending'
  <2>1. CASE d = c
    BY <1>2, <1>3, <2>1
  <2>2. CASE d # c
    BY <1>2, <1>3, <2>2 DEF HoldOnce, Unacked
  <2> QED BY <2>1, <2>2
<1> QED BY <1>4, <1>5 DEF HoldOnce, Unacked

\* A coroutine moves on, and acknowledges at most its own message.
LEMMA HoldMove ==
  ASSUME HoldOnce, NEW c \in Coroutines, run[c].step # "idle",
         run'[c].step # "idle" => run'[c].msg = run[c].msg,
         \A d \in Coroutines \ {c} :
           \/ run'[d] = run[d]
           \/ run[d].step = "permit" /\ run'[d].step = "lock" /\ run'[d].msg = run[d].msg,
         \/ /\ pending' = pending
            /\ run'[c].step \in Unacked => run[c].step \in Unacked
            /\ run'[c].step \in {"acked", "sleep"} => run[c].step \in {"acked", "sleep"}
         \/ /\ pending' = pending \ {run[c].msg}
            /\ run'[c].step \notin Unacked
  PROVE  HoldOnce'
<1>1. ASSUME NEW d \in Coroutines, NEW e \in Coroutines, run'[d].step # "idle",
             run'[e].step # "idle", run'[d].msg = run'[e].msg
      PROVE  d = e
  <2>1. \A x \in Coroutines : run'[x].step # "idle" => run[x].step # "idle" /\ run'[x].msg = run[x].msg
    OBVIOUS
  <2> QED BY <1>1, <2>1 DEF HoldOnce
<1>2. ASSUME NEW d \in Coroutines
      PROVE  /\ run'[d].step \in {"acked", "sleep"} => run'[d].msg \notin pending'
             /\ run'[d].step \in Unacked => run'[d].msg \in pending'
  <2>1. CASE d = c
    BY <2>1 DEF HoldOnce, Unacked
  <2>2. CASE d # c
    <3>1. /\ run'[d].step \in {"acked", "sleep"} => run[d].step \in {"acked", "sleep"}
          /\ run'[d].step \in Unacked => run[d].step \in Unacked
          /\ run'[d].msg = run[d].msg
      BY <2>2 DEF Unacked
    <3>2. run[d].step \in Unacked => run[d].msg # run[c].msg
      BY <2>2 DEF HoldOnce, Unacked
    <3> QED BY <3>1, <3>2 DEF HoldOnce, Unacked
  <2> QED BY <2>1, <2>2
<1> QED BY <1>1, <1>2 DEF HoldOnce, Unacked

LEMMA HoldStep ==
  ASSUME TypeInv, QueueFresh, HoldOnce, up = Pods, stopping = {}, Quiet', [Next]_vars
  PROVE  HoldOnce'
<1>0. ~Fault("slow") /\ ~Fault("redis") /\ ~Fault("crash")
  BY QuietFacts
<1>1. CASE UNCHANGED <<run, pending>>
  BY <1>1 DEF HoldOnce
<1>2. ASSUME NEW p \in Pods, Scan(p) \/ ScanEnqueue(p) \/ ScanFails(p) \/ Stop(p) \/ Crash(p)
      PROVE  HoldOnce'
  BY <1>0, <1>1, <1>2 DEF Scan, ScanEnqueue, ScanFails, Stop, Crash, Stream
<1>3. ASSUME NEW c \in Coroutines, Consume(c) \/ \E m \in pending : Claim(c, m) PROVE HoldOnce'
  BY <1>0, <1>3, HoldTake
<1>4. ASSUME NEW c \in Coroutines, GivenUp(c) \/ Finally(c) PROVE HoldOnce'
  <2>1. At(c, {"requeued", "dropping", "release"}) /\ Leave(c) /\ UNCHANGED up
    BY <1>4 DEF GivenUp, Finally, At
  <2>2. /\ run'[c] = Idle
        /\ \A d \in Coroutines \ {c} :
             \/ run'[d] = run[d]
             \/ run[d].step = "permit" /\ run'[d].step = "lock" /\ run'[d].msg = run[d].msg
    BY <2>1, LeaveOf DEF At, Steps
  <2>3. pending' = pending \/ pending' = pending \ {run[c].msg}
    BY <1>4 DEF GivenUp, Finally, AckedIfPossible, Acked, Stream
  <2> QED BY <2>1, <2>2, <2>3, HoldMove DEF Idle, At, Unacked
<1>5. ASSUME NEW c \in Coroutines, NEW to, Go(c, to), run[c].step # "idle",
             \/ /\ pending' = pending
                /\ to \in Unacked => run[c].step \in Unacked
                /\ to \in {"acked", "sleep"} => run[c].step \in {"acked", "sleep"}
             \/ /\ pending' = pending \ {run[c].msg}
                /\ to \notin Unacked
      PROVE  HoldOnce'
  <2>1. /\ run'[c].msg = run[c].msg /\ run'[c].step = to
        /\ \A d \in Coroutines \ {c} : run'[d] = run[d]
    BY <1>5, MoveOf
  <2> QED BY <1>5, <2>1, HoldMove
<1>6. ASSUME NEW c \in Coroutines, Lock(c) \/ GiveUp(c) \/ Fail(c) PROVE HoldOnce'
  BY <1>5, <1>6 DEF Lock, GiveUp, Fail, Catch, At, Unacked, Stream
<1>7. ASSUME NEW c \in Coroutines, Succeed(c) \/ AckTask(c) PROVE HoldOnce'
  BY <1>0, <1>5, <1>7 DEF Succeed, AckTask, Acked, At, Unacked, Stream
<1>8. ASSUME NEW c \in Coroutines, Cascade(c) \/ CascadeFails(c) \/ ReEnqueue(c) PROVE HoldOnce'
  BY <1>0, <1>5, <1>8 DEF Cascade, CascadeFails, ReEnqueue, At, Unacked
<1>9. ASSUME NEW c \in Coroutines, BackOff(c) \/ DeadLetter(c) PROVE HoldOnce'
  BY <1>0, <1>5, <1>9 DEF BackOff, DeadLetter, AckedIfPossible, Acked, At, Unacked
<1>10. ASSUME NEW c \in Coroutines, LockFails(c) PROVE HoldOnce'
  <2>1. /\ run[c].step # "idle" /\ run'[c] = Idle /\ UNCHANGED pending
        /\ \A d \in Coroutines \ {c} : run'[d] = run[d]
    BY <1>10 DEF LockFails, At, Stream, TypeInv, RunsOK
  <2> QED BY <2>1, HoldMove DEF Idle, Unacked
<1>11. ASSUME NEW c \in Coroutines, RenewFails(c) PROVE HoldOnce'
  <2>1. /\ run[c].step # "idle" /\ run'[c].step = run[c].step /\ run'[c].msg = run[c].msg
        /\ UNCHANGED pending /\ \A d \in Coroutines \ {c} : run'[d] = run[d]
    BY <1>11 DEF RenewFails, At, InTask, Stream, TypeInv, RunsOK, Runs
  <2> QED BY <2>1, HoldMove
<1>12. ASSUME NEW j \in Jobs, Notify(j) PROVE HoldOnce'
  BY <1>1, <1>12 DEF Notify
<1>13. ASSUME NEW k \in LockKeys, Expire(k) PROVE HoldOnce'
  BY <1>1, <1>13 DEF Expire, Stream
<1>14. CASE UNCHANGED vars
  BY <1>1, <1>14 DEF vars, Stream
<1>15. CASE Next
  BY <1>2, <1>3, <1>4, <1>6, <1>7, <1>8, <1>9, <1>10, <1>11, <1>12, <1>13, <1>15 DEF Next, Work
<1> QED BY <1>14, <1>15

\* A coroutine that acknowledges its message keeps it live, if it goes on to
\* a retry or a follow-up.
LEMMA LiveMove ==
  ASSUME TypeInv, HoldOnce, NEW c \in Coroutines, run[c].step # "idle",
         UNCHANGED <<queue, up>>, pending' \subseteq pending,
         \A d \in Coroutines \ {c} :
           \/ run'[d] = run[d]
           \/ run[d].step = "permit" /\ run'[d].step = "lock" /\ run'[d].msg = run[d].msg,
         run'[c].step = "requeued" => run[c].step = "requeued",
         run[c].step = "requeued" =>
           run[c].msg \notin pending' \/ (run'[c].step = "requeued" /\ run'[c].msg = run[c].msg),
         run'[c].step \in {"acked", "sleep"} =>
           /\ run'[c].msg = run[c].msg
           /\ run[c].step \in (Unacked \ {"requeued"}) \cup {"acked", "sleep"}
  PROVE  \A m \in Message : Live(m)' => Live(m)
<1> SUFFICES ASSUME NEW m \in Message, Live(m)' PROVE Live(m)
  OBVIOUS
<1>1. CASE \E i \in DOMAIN queue' : queue'[i] = m
  BY <1>1 DEF Live
<1>2. CASE m \in pending' /\ ~Replaced(m)'
  <2>1. ASSUME Replaced(m) PROVE FALSE
    <3>1. PICK d \in Coroutines : At(d, {"requeued"}) /\ run[d].msg = m
      BY <2>1 DEF Replaced
    <3>2. At(d, {"requeued"})' /\ run'[d].msg = m
      BY <1>2, <3>1 DEF At
    <3> QED BY <1>2, <3>2 DEF Replaced
  <2> QED BY <1>2, <2>1 DEF Live
<1>3. ASSUME NEW d \in Coroutines, run'[d].step \in {"acked", "sleep"}, run'[d].msg = m
      PROVE  Live(m)
  <2>1. CASE d # c \/ run[c].step \in {"acked", "sleep"}
    BY <1>3, <2>1 DEF Live
  <2>2. CASE d = c /\ run[c].step \in Unacked \ {"requeued"}
    <3>1. m \in pending /\ run[c].msg = m
      BY <1>3, <2>2 DEF HoldOnce, Unacked
    <3>2. ~Replaced(m)
      BY <2>2, <3>1 DEF Replaced, HoldOnce, At, Unacked
    <3> QED BY <3>1, <3>2 DEF Live
  <2> QED BY <1>3, <2>1, <2>2
<1> QED BY <1>1, <1>2, <1>3 DEF Live

\* Taking a message leaves it live or not.
LEMMA LiveTake ==
  ASSUME TypeInv, NEW c \in Coroutines, Consume(c) \/ \E m \in pending : Claim(c, m)
  PROVE  \A m \in Message : Live(m)' => Live(m)
<1>1. /\ run[c].step = "idle" /\ run'[c].step \in {"lock", "permit"} /\ UNCHANGED up
      /\ \A d \in Coroutines \ {c} : run'[d] = run[d]
  BY ProcessOf DEF Consume, Claim, At
<1>2. ASSUME NEW m \in Message, Live(m)' PROVE Live(m)
  <2>1. Replaced(m) => Replaced(m)'
    BY <1>1 DEF Replaced, At
  <2>2. \A d \in Coroutines : run'[d].step \in {"acked", "sleep"} => run'[d] = run[d]
    BY <1>1
  <2>3. CASE \E e \in pending : Claim(c, e)
    BY <1>2, <2>1, <2>2, <2>3 DEF Claim, Stream, Live
  <2>4. CASE Consume(c)
    <3>1. /\ queue' = Tail(queue) /\ queue # <<>> /\ pending' = pending \cup {queue[1]}
          /\ queue \in Seq(Message)
      BY <2>4 DEF Consume, TypeInv, StreamOK
    <3>2. 1 \in DOMAIN queue
          /\ \A i \in DOMAIN queue' : i + 1 \in DOMAIN queue /\ queue'[i] = queue[i + 1]
      BY <3>1
    <3> QED BY <1>2, <2>1, <2>2, <3>1, <3>2 DEF Live
  <2> QED BY <2>3, <2>4
<1> QED BY <1>2

\* The message of a coroutine gives way to the one that it enqueues.
LEMMA LiveReplace ==
  ASSUME TypeInv, QueueFresh, HoldOnce, NEW c \in Coroutines, PodOf[c] \in up,
         UNCHANGED <<pending, up>>,
         \/ run[c].step = "wait" /\ Go(c, "requeued")
         \/ run[c].step \in {"acked", "sleep"} /\ Go(c, "release"),
         NEW j \in Jobs, NEW retry \in Nat, NEW requeue \in Nat, Enqueue(j, retry, requeue)
  PROVE  /\ run[c].msg \in Message /\ Live(run[c].msg)
         /\ \E new \in Message :
              new.job = j /\ \A m \in Message : Live(m)' => m = new \/ (Live(m) /\ m # run[c].msg)
<1>1. /\ run'[c].msg = run[c].msg
      /\ run[c].step = "wait" => run'[c].step = "requeued"
      /\ run'[c].step \in {"requeued", "release"}
      /\ \A d \in Coroutines \ {c} : run'[d] = run[d]
  BY MoveOf
<1>2. run[c].msg \in Message
  BY RunType DEF TypeInv
<1>3. Live(run[c].msg)
  BY DEF HoldOnce, Live, Replaced, At
<1>4. PICK new \in Message :
        /\ new.job = j /\ new \notin pending
        /\ \A d \in Coroutines : run[d].msg # new
        /\ \A m : (\E i \in DOMAIN queue' : queue'[i] = m) <=>
                    m = new \/ \E i \in DOMAIN queue : queue[i] = m
  BY EnqueueLive
<1>5. PICK old \in Message : old = run[c].msg
  BY <1>2
<1>6. ~Live(old)'
  <2>1. ~(\E i \in DOMAIN queue' : queue'[i] = old)
    BY <1>4, <1>5 DEF QueueFresh
  <2>2. old \in pending => Replaced(old)'
    <3>1. old \in pending => run[c].step = "wait"
      BY <1>5 DEF HoldOnce
    <3>2. run[c].step = "wait" => At(c, {"requeued"})' /\ run'[c].msg = old
      BY <1>1, <1>5 DEF At
    <3> QED BY <3>1, <3>2 DEF Replaced
  <2>3. ASSUME NEW d \in Coroutines, run'[d].step \in {"acked", "sleep"} PROVE run'[d].msg # old
    BY <1>1, <1>5, <2>3 DEF HoldOnce
  <2> QED BY <2>1, <2>2, <2>3 DEF Live
<1>7. ASSUME NEW m \in Message, Live(m)', m # new PROVE Live(m)
  <2>1. Replaced(m) => Replaced(m)'
    BY <1>1 DEF Replaced, At
  <2>2. \A d \in Coroutines : run'[d].step \in {"acked", "sleep"} => run'[d] = run[d]
    BY <1>1
  <2> QED BY <1>4, <1>7, <2>1, <2>2 DEF Live
<1>8. \A m \in Message : Live(m)' => m = new \/ (Live(m) /\ m # run[c].msg)
  BY <1>5, <1>6, <1>7
<1> QED BY <1>2, <1>3, <1>4, <1>8

\* A coroutine that will settle its job has its live message.
LEMMA HolderIsLive ==
  ASSUME TypeInv, HoldOnce, NewJobs, NEW c \in Coroutines,
         run[c].step \in {"dropping", "exec", "acking", "failed", "acked", "sleep"}
  PROVE  /\ JobOf(c) \in Jobs /\ run[c].msg \in Message /\ Live(run[c].msg) /\ LiveJob(JobOf(c))
         /\ settled[JobOf(c)] # "new"
<1>1. JobOf(c) \in Jobs /\ run[c].msg \in Message
  BY RunType DEF TypeInv
<1>2. Live(run[c].msg)
  <2>1. CASE run[c].step \in {"acked", "sleep"}
    BY <2>1 DEF Live
  <2>2. CASE run[c].step \in {"dropping", "exec", "acking", "failed"}
    <3>1. run[c].msg \in pending /\ ~Replaced(run[c].msg)
      BY <2>2 DEF HoldOnce, Replaced, At
    <3> QED BY <3>1 DEF Live
  <2> QED BY <2>1, <2>2
<1>3. LiveJob(JobOf(c))
  BY <1>1, <1>2 DEF LiveJob, JobOf
<1> QED BY <1>1, <1>2, <1>3 DEF NewJobs, HasToken

\* The producers: a job that is new gets its first token, a timer is handed on.
LEMMA TokensProduced ==
  ASSUME TypeInv, OneToken, NewJobs,
         \/ \E j \in Jobs : Notify(j)
         \/ \E p \in Pods : Scan(p) \/ ScanEnqueue(p)
  PROVE  OneToken' /\ NewJobs'
<1>1. ASSUME NEW j \in Jobs, Notify(j) PROVE OneToken' /\ NewJobs'
  <2>1. /\ settled[j] = "new" /\ settled' = [settled EXCEPT ![j] = "open"]
        /\ \A i \in Jobs : FollowUp[i] # j
        /\ UNCHANGED <<scan, pending, run, up>>
    BY <1>1 DEF Notify
  <2>2. \A m \in Message : Replaced(m)' <=> Replaced(m)
    BY <2>1 DEF Replaced, At
  <2>3. CASE timers' = timers \cup {j} /\ UNCHANGED queue
    <3>1. \A m \in Message : Live(m)' => Live(m)
      BY <2>1, <2>2, <2>3 DEF Live
    <3> QED BY <2>1, <2>3, <3>1, TokensCreated
  <2>4. CASE Enqueue(j, 0, 0) /\ UNCHANGED timers
    <3>1. PICK new \in Message :
            /\ new.job = j
            /\ \A m : (\E i \in DOMAIN queue' : queue'[i] = m) <=>
                        m = new \/ \E i \in DOMAIN queue : queue[i] = m
      BY <2>4, EnqueueLive
    <3>2. \A m \in Message : Live(m)' => m = new \/ Live(m)
      BY <2>1, <2>2, <3>1 DEF Live
    <3> QED BY <2>1, <2>4, <3>1, <3>2, TokensCreated
  <2> QED BY <1>1, <2>3, <2>4 DEF Notify
<1>2. ASSUME NEW p \in Pods, ScanEnqueue(p) PROVE OneToken' /\ NewJobs'
  <2>1. PICK j \in scan[p] : scan' = [scan EXCEPT ![p] = @ \ {j}] /\ Enqueue(j, 0, 0)
    BY <1>2 DEF ScanEnqueue
  <2>2. /\ j \in Jobs /\ scan \in [Pods -> SUBSET Jobs]
        /\ UNCHANGED <<timers, settled, pending, run, up>>
    BY <1>2, <2>1 DEF TypeInv, RestOK, ScanEnqueue
  <2>3. PICK new \in Message :
          /\ new.job = j
          /\ \A m : (\E i \in DOMAIN queue' : queue'[i] = m) <=>
                      m = new \/ \E i \in DOMAIN queue : queue[i] = m
    BY <2>1, <2>2, EnqueueLive
  <2>4. \A m \in Message : Replaced(m)' <=> Replaced(m)
    BY <2>2 DEF Replaced, At
  <2>5. \A m \in Message : Live(m)' => m = new \/ Live(m)
    BY <2>2, <2>3, <2>4 DEF Live
  <2> QED BY <2>1, <2>2, <2>3, <2>5, TokensScanned
<1> QED BY <1>1, <1>2, TokensClaimed

\* The cascade: the token of an L2 ends and that of its own L3 begins.
LEMMA TokensCascade ==
  ASSUME TypeInv, QueueFresh, HoldOnce, OneToken, NewJobs, NEW c \in Coroutines, Cascade(c)
  PROVE  OneToken' /\ NewJobs'
<1>1. PICK j \in Jobs : j = JobOf(c)
  BY RunType DEF Cascade, At, TypeInv
<1>2. /\ run[c].step = "acked" /\ PodOf[c] \in up /\ Go(c, "release")
      /\ UNCHANGED <<timers, scan, pending, up>>
  BY DEF Cascade, At
<1>3. LiveJob(j) /\ settled[j] # "new" /\ Live(run[c].msg) /\ run[c].msg \in Message
  BY <1>1, <1>2, HolderIsLive
<1>4. CASE FollowUp[j] = NoJob
  <2>1. UNCHANGED <<queue, settled>>
    BY <1>1, <1>4, JobsAssumption DEF Cascade
  <2>2. run'[c].step = "release" /\ \A d \in Coroutines \ {c} : run'[d] = run[d]
    BY <1>2, MoveOf
  <2>3. \A m \in Message : Live(m)' => Live(m)
    BY <1>2, <2>1, <2>2, LiveMove
  <2> QED BY <1>2, <2>1, <2>3, TokensFrame
<1>5. CASE FollowUp[j] # NoJob
  <2>1. PICK i \in Jobs : i = FollowUp[j]
    BY <1>5, JobsAssumption
  <2>2. settled[i] = "new" /\ i # j
    BY <1>3, <1>5, <2>1 DEF NewJobs, HasToken
  <2>3. settled' = [settled EXCEPT ![i] = "open"] /\ Enqueue(i, 0, 0)
    BY <1>1, <1>5, <2>1, <2>2 DEF Cascade, EnqueueNext, TypeInv, RestOK
  <2>4. PICK old \in Message : old = run[c].msg
    BY <1>3
  <2>5. PICK new \in Message :
          new.job = i /\ \A m \in Message : Live(m)' => m = new \/ (Live(m) /\ m # old)
    BY <1>2, <2>3, <2>4, LiveReplace
  <2>6. ~HasToken(j)'
    <3>1. old.job = j /\ Live(old)
      BY <1>1, <1>3, <2>4 DEF JobOf
    <3>2. ~LiveJob(j)'
      BY <2>2, <2>5, <3>1 DEF LiveJob, OneToken
    <3>3. j \notin timers /\ \A p \in Pods : j \notin scan[p]
      BY <1>3 DEF OneToken
    <3> QED BY <1>2, <3>2, <3>3 DEF HasToken
  <2>7. \A k \in Jobs : FollowUp[k] = i => settled[k] # "new" /\ ~HasToken(k)'
    <3>1. ASSUME NEW k \in Jobs, FollowUp[k] = i PROVE k = j
      BY <1>5, <2>1, <3>1, FollowUpAssumption
    <3> QED BY <1>3, <2>6, <3>1
  <2>8. \E x \in Message : x.job = i /\ \A m \in Message : Live(m)' => m = x \/ Live(m)
    BY <2>5
  <2> QED BY <1>2, <2>2, <2>3, <2>7, <2>8, TokensCreated
<1> QED BY <1>4, <1>5

\* A retry and a requeue.
LEMMA TokensPutBack ==
  ASSUME TypeInv, QueueFresh, HoldOnce, OneToken, NewJobs, NEW c \in Coroutines,
         GiveUp(c) \/ ReEnqueue(c), ~Fault("redis")
  PROVE  OneToken' /\ NewJobs'
<1>1. /\ PodOf[c] \in up /\ UNCHANGED <<pending, up, timers, scan, settled>>
      /\ run[c].step \in {"wait", "sleep"}
  BY DEF GiveUp, ReEnqueue, At
<1>2. CASE Go(c, "dropping") /\ UNCHANGED queue
  <2>1. run'[c].step = "dropping" /\ \A d \in Coroutines \ {c} : run'[d] = run[d]
    BY <1>2, MoveOf
  <2>2. \A m \in Message : Live(m)' => Live(m)
    BY <1>1, <1>2, <2>1, LiveMove
  <2> QED BY <1>1, <2>2, TokensFrame
<1>3. ASSUME NEW j \in Jobs, NEW retry \in Nat, NEW requeue \in Nat, j = JobOf(c),
             Enqueue(j, retry, requeue),
             \/ run[c].step = "wait" /\ Go(c, "requeued")
             \/ run[c].step = "sleep" /\ Go(c, "release")
      PROVE  OneToken' /\ NewJobs'
  <2>1. PICK old \in Message : old = run[c].msg /\ Live(old) /\ old.job = j
    BY <1>1, <1>3, LiveReplace DEF JobOf
  <2>2. PICK new \in Message :
          new.job = j /\ \A m \in Message : Live(m)' => m = new \/ (Live(m) /\ m # old)
    BY <1>1, <1>3, <2>1, LiveReplace
  <2> QED BY <1>1, <2>1, <2>2, TokensReplaced
<1>4. JobOf(c) \in Jobs /\ run[c].msg.retry \in Nat /\ run[c].msg.requeue \in Nat
  BY <1>1, RunType DEF TypeInv
<1>5. run[c].msg.retry + 1 \in Nat /\ run[c].msg.requeue + 1 \in Nat
  BY <1>4
<1>6. CASE GiveUp(c)
  <2>1. run[c].step = "wait"
    BY <1>6 DEF GiveUp, At
  <2> QED BY <1>2, <1>3, <1>4, <1>5, <1>6, <2>1 DEF GiveUp
<1>7. CASE ReEnqueue(c)
  <2>1. run[c].step = "sleep"
    BY <1>7 DEF ReEnqueue, At
  <2> QED BY <1>3, <1>4, <1>5, <1>7, <2>1 DEF ReEnqueue
<1> QED BY <1>6, <1>7

\* A coroutine that takes, executes, fails or returns brings no token.
LEMMA TokensWorked ==
  ASSUME TypeInv, QueueFresh, HoldOnce, OneToken, NewJobs, NEW c \in Coroutines, ~Fault("redis"),
         \/ Consume(c) \/ (\E m \in pending : Claim(c, m))
         \/ Lock(c) \/ LockFails(c) \/ RenewFails(c) \/ GivenUp(c) \/ Finally(c)
         \/ Succeed(c) \/ AckTask(c) \/ Fail(c) \/ BackOff(c) \/ DeadLetter(c)
  PROVE  OneToken' /\ NewJobs'
<1>0. UNCHANGED <<timers, scan, up>>
  BY DEF Consume, Claim, Lock, LockFails, RenewFails, GivenUp, Finally, Succeed, AckTask, Catch,
         Fail, BackOff,
         DeadLetter
<1>1. ASSUME UNCHANGED settled \/ \E how \in {"done", "dead", "dropped"} :
               Settle(JobOf(c), how) /\ settled[JobOf(c)] # "new"
      PROVE  \A j \in Jobs : settled'[j] = "new" <=> settled[j] = "new"
  BY <1>1 DEF Settle, TypeInv, RestOK
<1>2. ASSUME UNCHANGED settled \/ \E how \in {"done", "dead", "dropped"} :
               Settle(JobOf(c), how) /\ settled[JobOf(c)] # "new",
             \A m \in Message : Live(m)' => Live(m)
      PROVE  OneToken' /\ NewJobs'
  BY <1>0, <1>1, <1>2, TokensFrame
<1>3. ASSUME NEW to, Go(c, to), UNCHANGED queue, pending' \subseteq pending,
             run[c].step \notin {"idle", "requeued"}, to # "requeued",
             to \in {"acked", "sleep"} =>
               run[c].step \in (Unacked \ {"requeued"}) \cup {"acked", "sleep"}
      PROVE  \A m \in Message : Live(m)' => Live(m)
  <2>1. /\ run'[c].step = to /\ run'[c].msg = run[c].msg
        /\ \A d \in Coroutines \ {c} : run'[d] = run[d]
    BY <1>3, MoveOf
  <2> QED BY <1>0, <1>3, <2>1, LiveMove
<1>4. CASE Consume(c) \/ \E m \in pending : Claim(c, m)
  <2>1. UNCHANGED settled
    BY <1>4 DEF Consume, Claim
  <2> QED BY <1>2, <1>4, <2>1, LiveTake
<1>5. CASE Lock(c) \/ Fail(c)
  <2>1. UNCHANGED <<settled, queue, pending>>
    BY <1>5 DEF Lock, Fail, Catch, Stream
  <2>2. \A m \in Message : Live(m)' => Live(m)
    BY <1>3, <1>5, <2>1 DEF Lock, Fail, Catch, At
  <2> QED BY <1>2, <2>1, <2>2
<1>6. CASE LockFails(c) \/ RenewFails(c)
  <2>1. UNCHANGED <<settled, queue, pending>> /\ run[c].step \notin {"idle", "requeued"}
    BY <1>6 DEF LockFails, RenewFails, Stream, At, InTask
  <2>2. /\ \/ run'[c].step = "idle"
           \/ run'[c].step = run[c].step /\ run'[c].msg = run[c].msg
        /\ \A d \in Coroutines \ {c} : run'[d] = run[d]
    BY <1>6 DEF LockFails, RenewFails, Idle, TypeInv, RunsOK, Runs
  <2>3. \A m \in Message : Live(m)' => Live(m)
    BY <1>0, <2>1, <2>2, LiveMove
  <2> QED BY <1>2, <2>1, <2>3
<1>7. CASE GivenUp(c) \/ Finally(c)
  <2>1. /\ At(c, {"requeued", "dropping", "release"}) /\ Leave(c)
        /\ UNCHANGED <<up, queue>> /\ pending' \subseteq pending
    BY <1>7 DEF GivenUp, Finally, At, AckedIfPossible, Acked, Stream
  <2>2. run[c].step = "requeued" => run[c].msg \notin pending'
    BY <1>7 DEF GivenUp, Finally, At, AckedIfPossible, Acked
  <2>3. /\ run'[c] = Idle
        /\ \A d \in Coroutines \ {c} :
             \/ run'[d] = run[d]
             \/ run[d].step = "permit" /\ run'[d].step = "lock" /\ run'[d].msg = run[d].msg
    BY <2>1, LeaveOf DEF At, Steps
  <2>4. \A m \in Message : Live(m)' => Live(m)
    BY <2>1, <2>2, <2>3, LiveMove DEF Idle, At
  <2>5. UNCHANGED settled \/ (Settle(JobOf(c), "dropped") /\ settled[JobOf(c)] # "new")
    BY <1>7, HolderIsLive DEF GivenUp, Finally, At
  <2> QED BY <1>2, <2>4, <2>5
<1>8. CASE Succeed(c) \/ AckTask(c)
  <2>1. run[c].step \in {"exec", "acking"} /\ UNCHANGED queue /\ settled[JobOf(c)] # "new"
    BY <1>8, HolderIsLive DEF Succeed, AckTask, At, Stream
  <2>2. pending' \subseteq pending /\ \E to \in {"release", "acking", "acked"} : Go(c, to)
    BY <1>8 DEF Succeed, AckTask, Acked, Stream
  <2>3. \A m \in Message : Live(m)' => Live(m)
    BY <1>3, <2>1, <2>2 DEF Unacked
  <2>4. UNCHANGED settled \/ Settle(JobOf(c), "done")
    BY <1>8 DEF Succeed, AckTask
  <2> QED BY <1>2, <2>1, <2>3, <2>4
<1>9. CASE BackOff(c) \/ DeadLetter(c)
  <2>1. run[c].step = "failed" /\ UNCHANGED queue /\ settled[JobOf(c)] # "new"
    BY <1>9, HolderIsLive DEF BackOff, DeadLetter, At
  <2>2. pending' \subseteq pending /\ \E to \in {"release", "sleep"} : Go(c, to)
    BY <1>9 DEF BackOff, DeadLetter, AckedIfPossible, Acked
  <2>3. \A m \in Message : Live(m)' => Live(m)
    BY <1>3, <2>1, <2>2 DEF Unacked
  <2>4. UNCHANGED settled \/ Settle(JobOf(c), "dead")
    BY <1>9 DEF BackOff, DeadLetter
  <2> QED BY <1>2, <2>1, <2>3, <2>4
<1> QED BY <1>4, <1>5, <1>6, <1>7, <1>8, <1>9

LEMMA TokensStep ==
  ASSUME TypeInv, QueueFresh, HoldOnce, OneToken, NewJobs, stopping = {}, Quiet', [Next]_vars
  PROVE  OneToken' /\ NewJobs'
<1>1. ~Fault("redis") /\ ~Fault("crash") /\ ~Fault("stop")
  BY QuietFacts
<1>2. ASSUME UNCHANGED <<timers, scan, settled, queue, pending, run, up>>
      PROVE  OneToken' /\ NewJobs'
  <2>1. \A m \in Message : Live(m)' => Live(m)
    BY <1>2 DEF Live, Replaced, At
  <2> QED BY <1>2, <2>1, TokensFrame
<1>3. CASE UNCHANGED vars
  BY <1>2, <1>3 DEF vars, Stream
<1>4. ASSUME NEW k \in LockKeys, Expire(k) PROVE OneToken' /\ NewJobs'
  BY <1>2, <1>4 DEF Expire, Stream
<1>5. ASSUME NEW p \in Pods, ScanFails(p) \/ Stop(p) \/ Crash(p) PROVE FALSE
  BY <1>1, <1>5 DEF ScanFails, Stop, Crash
<1>6. ASSUME NEW c \in Coroutines, CascadeFails(c) PROVE FALSE
  BY <1>1, <1>6 DEF CascadeFails
<1>7. CASE Next
  BY <1>1, <1>4, <1>5, <1>6, <1>7, TokensProduced, TokensCascade, TokensPutBack, TokensWorked
     DEF Next, Work
<1> QED BY <1>3, <1>7

LEMMA OneStep == TypeInv /\ QueueFresh /\ OneInv /\ [Next]_vars => OneInv'
<1> SUFFICES ASSUME TypeInv, QueueFresh, OneInv, [Next]_vars, Quiet' PROVE OneInv'
  BY DEF OneInv
<1>1. up = Pods /\ stopping = {} /\ HoldOnce /\ OneToken /\ NewJobs
  BY QuietFacts DEF OneInv
<1>2. up' = Pods /\ stopping' = {}
  BY <1>1, ProcessesStay
<1>3. HoldOnce'
  BY <1>1, HoldStep
<1>4. OneToken' /\ NewJobs'
  BY <1>1, TokensStep
<1> QED BY <1>2, <1>3, <1>4 DEF OneInv

\* A set of at most one element.
LEMMA AtMostOne ==
  ASSUME NEW S, \A x, y \in S : x = y
  PROVE  S = {} \/ Cardinality(S) = 1
<1>1. CASE \E x \in S : TRUE
  <2>1. PICK x \in S : TRUE
    BY <1>1
  <2>2. S = {x}
    BY <2>1
  <2> QED BY <2>2, FS_Singleton
<1> QED BY <1>1

\* The sum of Messages: a live message is in one of its three sets, once.
LEMMA OneMessage ==
  ASSUME TypeInv, QueueFresh, OneInv, Quiet, NEW j \in Jobs
  PROVE  Messages(j) <= 1
<1> DEFINE I == {i \in DOMAIN queue : queue[i].job = j}
           P == {m \in pending : m.job = j /\ ~Replaced(m)}
           R == {c \in Coroutines : OnlyHere(c) /\ run[c].step # "acked" /\ JobOf(c) = j}
<1>0. HoldOnce /\ OneToken
  BY DEF OneInv
<1>1. Messages(j) = Cardinality(I) + Cardinality(P) + Cardinality(R)
  BY DEF Messages, Replaced
<1>2. ASSUME NEW i \in I PROVE queue[i] \in Message /\ queue[i].job = j /\ Live(queue[i])
  BY <1>2, ElementOfSeq, LenProperties DEF Live, TypeInv, StreamOK
<1>3. ASSUME NEW m \in P PROVE m \in Message /\ m.job = j /\ Live(m)
  BY <1>3 DEF Live, TypeInv, StreamOK
<1>4. ASSUME NEW c \in R
      PROVE  /\ run[c].step = "sleep" /\ run[c].msg \in Message /\ run[c].msg.job = j
             /\ Live(run[c].msg) /\ run[c].msg \notin pending
  <2>1. run[c].step = "sleep" /\ run[c].msg \notin pending /\ run[c].msg.job = j
    BY <1>0, <1>4 DEF OnlyHere, At, HoldOnce, JobOf
  <2> QED BY <2>1, RunType DEF Live, TypeInv
<1>5. \A m, n \in Message : m.job = j /\ n.job = j /\ Live(m) /\ Live(n) => m = n
  BY <1>0 DEF OneToken
<1>6. I = {} \/ Cardinality(I) = 1
  <2>1. \A x, y \in I : x = y
    BY <1>2, <1>5 DEF QueueFresh
  <2> QED BY <2>1, AtMostOne
<1>7. P = {} \/ Cardinality(P) = 1
  <2>1. \A x, y \in P : x = y
    BY <1>3, <1>5
  <2> QED BY <2>1, AtMostOne
<1>8. R = {} \/ Cardinality(R) = 1
  <2>1. \A x, y \in R : x = y
    BY <1>0, <1>4, <1>5 DEF HoldOnce
  <2> QED BY <2>1, AtMostOne
<1>9. I = {} \/ P = {}
  BY <1>2, <1>3, <1>5 DEF QueueFresh
<1>10. I = {} \/ R = {}
  BY <1>2, <1>4, <1>5 DEF QueueFresh
<1>11. P = {} \/ R = {}
  BY <1>3, <1>4, <1>5
<1> HIDE DEF I, P, R
<1> QED BY <1>1, <1>6, <1>7, <1>8, <1>9, <1>10, <1>11, FS_EmptySet

\* As long as no call fails, no process ends and no message is claimed from
\* live hands, no job has two messages: every retry and requeue replaces one.
THEOREM MessagesReplaced == Spec => []OneMessagePerJob
<1>1. Init => OneInv
  <2> SUFFICES ASSUME Init PROVE OneInv
    OBVIOUS
  <2>1. \A m : ~Live(m)
    BY DEF Init, Live, Idle
  <2>2. HoldOnce
    BY DEF Init, Idle, HoldOnce
  <2>3. OneToken /\ NewJobs
    BY <2>1, JobsAssumption DEF Init, OneToken, NewJobs, HasToken, LiveJob
  <2> QED BY <2>2, <2>3 DEF Init, OneInv
<1>2. TypeInv /\ QueueFresh /\ OneInv => OneMessagePerJob
  BY OneMessage DEF OneMessagePerJob, Quiet
<1> QED BY <1>1, <1>2, OneStep, TypeInvariant, JobInvariant, PTL DEF Spec
=============================================================================
