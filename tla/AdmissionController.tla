------------------------- MODULE AdmissionController -------------------------
(***************************************************************************)
(* createMutationAdmissionController, server/runtimeResilience.js: the FIFO *)
(* gate in front of every expensive piece of work of the server.  The       *)
(* process builds some fifteen of them (request bodies, mutations, heavy    *)
(* and standard work, passwords, streams, ...).                             *)
(*                                                                         *)
(* The JavaScript is single threaded, so a call of acquire, release, close, *)
(* an abort event or a timer is one step.  The only handler with a loop is  *)
(* release: its call of drain() is unrolled into one step per iteration,    *)
(* and nothing else can happen while `draining` holds, exactly as no other  *)
(* callback runs before the release call returns.                           *)
(*                                                                         *)
(* Left out: the counters of the diagnostics snapshot and the wait times.   *)
(***************************************************************************)
EXTENDS Naturals, Sequences, FiniteSets, SequencesExt

CONSTANTS Requests,               \* calls of acquire that may be under way
          Keys,                   \* accounts or addresses
          NoKey,                  \* the empty key: not limited per key
          KeyOf,                  \* the key each request is admitted under
          MaxActive,              \* maxActive
          MaxQueued,              \* maxQueued
          MaxActivePerKey,        \* maxActivePerKey
          MaxQueuedPerKey,        \* maxQueuedPerKey
          QueueWhenPerKeyActive   \* queueWhenPerKeyActive

\* positiveInteger() replaces a limit that is not a positive integer.
ASSUME LimitsAssumption ==
  /\ MaxActive \in Nat \ {0}
  /\ MaxQueued \in Nat \ {0}
  /\ MaxActivePerKey \in Nat \ {0}
  /\ MaxQueuedPerKey \in Nat \ {0}
  /\ QueueWhenPerKeyActive \in BOOLEAN

ASSUME RequestsAssumption ==
  /\ IsFiniteSet(Requests)
  /\ NoKey \notin Keys
  /\ KeyOf \in [Requests -> Keys \cup {NoKey}]

VARIABLES queue,         \* the waiters, oldest first
          active,        \* the number of leases that are out
          activeByKey,   \* the same per key; a key with none is 0
          queuedByKey,   \* the number of waiters per key
          closed,
          status,        \* where each caller stands
          draining       \* a release call is inside drain()

vars == <<queue, active, activeByKey, queuedByKey, closed, status, draining>>

\* "new": has not called acquire.  "queued": awaits the promise.  "held": the
\* promise resolved with a release function.  "released": it was called.
\* "refused": the promise was rejected, whatever the reason.
Status == {"new", "queued", "held", "released", "refused"}

\* updateKeyCount: the empty key is not counted, a count never goes below 0.
KeyCountUp(count, k) ==
  IF k = NoKey THEN count ELSE [count EXCEPT ![k] = @ + 1]
KeyCountDown(count, k) ==
  IF k = NoKey \/ count[k] = 0 THEN count ELSE [count EXCEPT ![k] = @ - 1]

KeySaturated(k) == k # NoKey /\ activeByKey[k] >= MaxActivePerKey
KeyQueueFull(k) == k # NoKey /\ queuedByKey[k] >= MaxQueuedPerKey

Init ==
  /\ queue = <<>>
  /\ active = 0
  /\ activeByKey = [k \in Keys |-> 0]
  /\ queuedByKey = [k \in Keys |-> 0]
  /\ closed = FALSE
  /\ status = [r \in Requests |-> "new"]
  /\ draining = FALSE

------------------------------------------------------------------------------
\* grant(): the bookkeeping of one lease, and who holds it.
Grant(r) ==
  /\ active' = active + 1
  /\ activeByKey' = KeyCountUp(activeByKey, KeyOf[r])
  /\ status' = [status EXCEPT ![r] = "held"]

Refuse(r) ==
  /\ status' = [status EXCEPT ![r] = "refused"]
  /\ UNCHANGED <<queue, active, activeByKey, queuedByKey>>

\* enqueue(): refused when either queue limit is reached.
Enqueue(r) ==
  \/ /\ Len(queue) >= MaxQueued \/ KeyQueueFull(KeyOf[r])
     /\ Refuse(r)
  \/ /\ Len(queue) < MaxQueued
     /\ ~KeyQueueFull(KeyOf[r])
     /\ queue' = Append(queue, r)
     /\ queuedByKey' = KeyCountUp(queuedByKey, KeyOf[r])
     /\ status' = [status EXCEPT ![r] = "queued"]
     /\ UNCHANGED <<active, activeByKey>>

\* acquire() when the caller's signal is aborted already.
AcquireAborted(r) ==
  /\ ~draining
  /\ status[r] = "new"
  /\ Refuse(r)
  /\ UNCHANGED <<closed, draining>>

Acquire(r) ==
  /\ ~draining
  /\ status[r] = "new"
  /\ \/ /\ closed
        /\ Refuse(r)
     \/ /\ ~closed
        /\ KeySaturated(KeyOf[r])
        /\ IF QueueWhenPerKeyActive THEN Enqueue(r) ELSE Refuse(r)
     \/ /\ ~closed
        /\ ~KeySaturated(KeyOf[r])
        /\ active < MaxActive
        /\ Grant(r)
        /\ UNCHANGED <<queue, queuedByKey>>
     \/ /\ ~closed
        /\ ~KeySaturated(KeyOf[r])
        /\ active >= MaxActive
        /\ Enqueue(r)
  /\ UNCHANGED <<closed, draining>>

\* A waiter leaves the queue: removeWaiter and markWaiterDequeued.
Dequeue(i) ==
  /\ queue' = RemoveAt(queue, i)
  /\ queuedByKey' = KeyCountDown(queuedByKey, KeyOf[queue[i]])

\* The waiter's timer fires or its signal aborts.  Both listeners live exactly
\* as long as the waiter is in the queue: settleWaiter clears them.
Abandon(i) ==
  /\ ~draining
  /\ Dequeue(i)
  /\ status' = [status EXCEPT ![queue[i]] = "refused"]
  /\ UNCHANGED <<active, activeByKey, closed, draining>>

\* Mutant: a release does not call drain().
ReleaseWithoutDrain(r) ==
  /\ ~draining
  /\ status[r] = "held"
  /\ active' = active - 1
  /\ activeByKey' = KeyCountDown(activeByKey, KeyOf[r])
  /\ status' = [status EXCEPT ![r] = "released"]
  /\ UNCHANGED <<queue, queuedByKey, closed, draining>>

\* The release function of a lease, first call; drain() is next unless closed.
Release(r) ==
  /\ ~draining
  /\ status[r] = "held"
  /\ active' = IF active = 0 THEN 0 ELSE active - 1
  /\ activeByKey' = KeyCountDown(activeByKey, KeyOf[r])
  /\ status' = [status EXCEPT ![r] = "released"]
  /\ draining' = ~closed
  /\ UNCHANGED <<queue, queuedByKey, closed>>

\* Mutant: a lease without the `released` flag.
ReleaseTwice(r) ==
  /\ ~draining
  /\ status[r] = "released"
  /\ active' = active - 1
  /\ UNCHANGED <<queue, activeByKey, queuedByKey, closed, status, draining>>

\* The `released` flag of the lease makes every further call do nothing.
ReleaseAgain(r) ==
  /\ ~draining
  /\ status[r] = "released"
  /\ UNCHANGED vars

\* Mutant: drain() looks at the head of the queue only.
AdmissibleHead == {i \in 1..Len(queue) : i = 1 /\ ~KeySaturated(KeyOf[queue[i]])}

\* The waiters drain() may admit, by their place in the queue.
Admissible == {i \in 1..Len(queue) : ~KeySaturated(KeyOf[queue[i]])}

DrainGoesOn == active < MaxActive /\ Admissible # {}

\* Mutant: the newest admissible waiter is admitted.
DrainNewest ==
  /\ draining
  /\ DrainGoesOn
  /\ \E i \in Admissible :
       /\ \A j \in Admissible : i >= j
       /\ Dequeue(i)
       /\ Grant(queue[i])
  /\ UNCHANGED <<closed, draining>>

\* One iteration of drain(): findIndex takes the oldest admissible waiter.
DrainOne ==
  /\ draining
  /\ DrainGoesOn
  /\ \E i \in Admissible :
       /\ \A j \in Admissible : i <= j
       /\ Dequeue(i)
       /\ Grant(queue[i])
  /\ UNCHANGED <<closed, draining>>

DrainDone ==
  /\ draining
  /\ ~DrainGoesOn
  /\ draining' = FALSE
  /\ UNCHANGED <<queue, active, activeByKey, queuedByKey, closed, status>>

\* Mutant: close() also forgets the leases that are out.
CloseForgetsLeases ==
  /\ ~draining
  /\ ~closed
  /\ closed' = TRUE
  /\ queue' = <<>>
  /\ active' = 0
  /\ activeByKey' = [k \in Keys |-> 0]
  /\ queuedByKey' = [k \in Keys |-> 0]
  /\ status' = [r \in Requests |->
                  IF status[r] = "queued" THEN "refused" ELSE status[r]]
  /\ UNCHANGED draining

\* close(): every waiter is refused; leases that are out stay out.
Close ==
  /\ ~draining
  /\ ~closed
  /\ closed' = TRUE
  /\ queue' = <<>>
  /\ queuedByKey' = [k \in Keys |-> 0]
  /\ status' = [r \in Requests |->
                  IF status[r] = "queued" THEN "refused" ELSE status[r]]
  /\ UNCHANGED <<active, activeByKey, draining>>

\* A caller that is done makes room for the next request of the same account.
NextRequest(r) ==
  /\ ~draining
  /\ status[r] \in {"released", "refused"}
  /\ status' = [status EXCEPT ![r] = "new"]
  /\ UNCHANGED <<queue, active, activeByKey, queuedByKey, closed, draining>>

Next ==
  \/ \E r \in Requests : \/ AcquireAborted(r) \/ Acquire(r)
                         \/ Release(r) \/ ReleaseAgain(r) \/ NextRequest(r)
  \/ \E i \in 1..Len(queue) : Abandon(i)
  \/ DrainOne \/ DrainDone \/ Close

Spec == Init /\ [][Next]_vars

\* Every lease is released in the end (the HTTP lifecycle binding and the
\* finally blocks of the callers), and drain() runs to its end.  The fairness
\* is strong because the unrolled drain() of another release disables a
\* release for a few steps, which in the program is no time at all.  Nothing
\* is assumed of timers or aborts: a waiter is not saved by its own timeout.
Fairness ==
  /\ \A r \in Requests : SF_vars(Release(r))
  /\ WF_vars(DrainOne \/ DrainDone)

FairSpec == Spec /\ Fairness

------------------------------------------------------------------------------
Held == {r \in Requests : status[r] = "held"}
HeldWithKey(k) == {r \in Held : KeyOf[r] = k}
QueuedWithKey(k) == {r \in Requests : status[r] = "queued" /\ KeyOf[r] = k}

TypeOK ==
  /\ queue \in Seq(Requests)
  /\ active \in Nat
  /\ activeByKey \in [Keys -> Nat]
  /\ queuedByKey \in [Keys -> Nat]
  /\ closed \in BOOLEAN
  /\ status \in [Requests -> Status]
  /\ draining \in BOOLEAN

\* The counters are the leases: no path -- a grant at once, a grant from
\* drain(), a release, a second call of a release function, a close -- counts
\* a lease twice or forgets one.
LeasesCounted ==
  /\ active = Cardinality(Held)
  /\ \A k \in Keys : activeByKey[k] = Cardinality(HeldWithKey(k))

\* The queue holds every caller whose promise is pending, once, and nobody
\* else: no waiter is lost, granted while still queued, or queued twice.
QueueIsTheWaiters ==
  /\ \A r \in Requests :
       status[r] = "queued" <=> \E i \in 1..Len(queue) : queue[i] = r
  /\ \A i, j \in 1..Len(queue) : queue[i] = queue[j] => i = j

WaitersCounted ==
  \A k \in Keys : queuedByKey[k] = Cardinality(QueuedWithKey(k))

\* The limits the gate exists for hold of the leases themselves.
WithinLimits ==
  /\ Cardinality(Held) <= MaxActive
  /\ \A k \in Keys : Cardinality(HeldWithKey(k)) <= MaxActivePerKey

\* The gate is work conserving: outside a drain() no waiter is left behind
\* that could be admitted.  acquire() lets a newcomer pass without a look at
\* the queue, so this is all that keeps it from overtaking a waiter.
NobodyLeftBehind ==
  ~draining /\ active < MaxActive =>
    \A i \in 1..Len(queue) : KeySaturated(KeyOf[queue[i]])

\* A closed gate has no waiter: nobody waits for a drain() that never comes.
ClosedHasNoWaiters == closed => queue = <<>>

\* Every waiter is settled in the end, even if its own timer never fires:
\* a saturated key cannot starve the waiters behind it, nor newcomers it.
EveryWaiterSettles ==
  \A r \in Requests : status[r] = "queued" ~> status[r] # "queued"

\* The gate implements the fair semaphore.
Promise == INSTANCE FairSemaphore WITH
  inside <- Held, line <- queue,
  Capacity <- MaxActive, KeyCapacity <- MaxActivePerKey

ImplementsFairSemaphore == Promise!Spec
==============================================================================
