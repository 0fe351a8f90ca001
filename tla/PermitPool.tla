------------------------------ MODULE PermitPool ------------------------------
(***************************************************************************)
(* WorkerPermitPool: a counting semaphore with a FIFO of waiters.  A       *)
(* permit that comes back goes to the first waiter and the counter stays.  *)
(***************************************************************************)
EXTENDS Integers, Sequences

CONSTANTS
  Pods,       \* worker processes, each with a pool
  Coroutines, \* consume loops and recovered tasks
  PodOf,      \* the process of a coroutine
  Capacity    \* permits of a pool

ASSUME PoolAssumption ==
  /\ PodOf \in [Coroutines -> Pods]
  /\ Capacity \in Nat \ {0}

VARIABLES
  inFlight,  \* _inFlight of the pool of a process
  waiters    \* its waiting acquire calls, oldest first

Pool == <<inFlight, waiters>>

PoolInit ==
  /\ inFlight = [p \in Pods |-> 0]
  /\ waiters = [p \in Pods |-> <<>>]

\* Mutant: one permit too many.
HasPermitAtCapacity(p) == inFlight[p] <= Capacity

HasPermit(p) == inFlight[p] < Capacity

\* acquire: a permit at once, or a place in the queue.
Acquire(c) ==
  LET p == PodOf[c]
  IN IF HasPermit(p)
     THEN inFlight' = [inFlight EXCEPT ![p] = @ + 1] /\ UNCHANGED waiters
     ELSE waiters' = [waiters EXCEPT ![p] = Append(@, c)] /\ UNCHANGED inFlight

\* Mutant: the promise of the first waiter is never resolved.
WokenNobody(p) == {}

\* The waiters that a release wakes.
Woken(p) == IF waiters[p] = <<>> THEN {} ELSE {Head(waiters[p])}

\* Mutant: the counter goes down although the permit is handed over.
ReleaseCountingDown(p) ==
  /\ inFlight' = [inFlight EXCEPT ![p] = IF @ > 0 THEN @ - 1 ELSE @]
  /\ waiters' = [waiters EXCEPT ![p] = IF @ = <<>> THEN @ ELSE Tail(@)]

\* release: an unpaired one throws, which its only caller logs.
Release(p) ==
  IF waiters[p] = <<>>
  THEN inFlight' = [inFlight EXCEPT ![p] = IF @ > 0 THEN @ - 1 ELSE @] /\ UNCHANGED waiters
  ELSE waiters' = [waiters EXCEPT ![p] = Tail(@)] /\ UNCHANGED inFlight
=============================================================================
