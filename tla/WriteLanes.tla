----------------------------- MODULE WriteLanes -----------------------------
(***************************************************************************)
(* withWriteLock and its lanes, server/storage.js: every cycle of reading   *)
(* the store, changing it and writing it back runs inside it.  An operation *)
(* names the tenant lanes it commits into, or none, which means all of them *)
(* ("global").  Waiters queue in order of arrival; a drain admits all that  *)
(* can start, and stops at a global one that cannot.                        *)
(*                                                                         *)
(* A call made inside a running operation inherits its lanes through        *)
(* AsyncLocalStorage and runs at once.  The operation's body need not wait   *)
(* for it: a timer or a promise that the body leaves behind has its context  *)
(* too, and its call may go on after the lanes were given back.              *)
(*                                                                         *)
(* The JavaScript is single threaded: the loop of a drain is unrolled into  *)
(* one step per iteration (`scan` is its index) and nothing else happens    *)
(* until it returns.  An operation may be called again after it returned.   *)
(***************************************************************************)
EXTENDS Naturals, Sequences, FiniteSets, SequencesExt

CONSTANTS Operations,   \* callers of withWriteLock
          Lanes,        \* tenant keys, the settings key included
          LanesOf,      \* the lanes each operation asks for; {} is global
          Nested,       \* pairs <<o, p>>: p may be called in the context of o
          Awaited,      \* the pairs in Nested whose call the body of o awaits
          NoOwner

ASSUME OperationsAssumption ==
  /\ IsFiniteSet(Operations)
  /\ LanesOf \in [Operations -> SUBSET Lanes]
  /\ Nested \subseteq Operations \X Operations
  /\ Awaited \subseteq Nested
  /\ NoOwner \notin Operations

VARIABLES waiters,   \* writeLaneWaiters
          active,    \* activeWriteLanes: the operations that hold their lanes
          owner,     \* the operation whose lanes an inner call runs under
          scan       \* the index of the drain under way, 0 when none is

vars == <<waiters, active, owner, scan>>

Global(o) == LanesOf[o] = {}

Conflict(o, p) == Global(o) \/ Global(p) \/ LanesOf[o] \cap LanesOf[p] # {}

\* Mutant: the lanes of one active operation are compared, not of all.
CanStartBesideOne(o) == active = {} \/ \E p \in active : ~Conflict(o, p)

\* canStartWriteOperation
CanStart(o) == \A p \in active : ~Conflict(o, p)

Waiting(o) == o \in ToSet(waiters)
Inside(o) == owner[o] # NoOwner
Idle(o) == o \notin active /\ ~Waiting(o) /\ ~Inside(o)

\* The body of o is suspended in an inner call, or in the queue for one.
Awaits(o) == \E p \in Operations : owner[p] = o /\ <<o, p>> \in Awaited

Init ==
  /\ waiters = <<>>
  /\ active = {}
  /\ owner = [o \in Operations |-> NoOwner]
  /\ scan = 0

------------------------------------------------------------------------------
\* A call without a live owner in its context: push, then drain.  A task that
\* outlived its owner finds owner.active false and comes here too.
Call(o) ==
  /\ scan = 0
  /\ Idle(o)
  /\ waiters' = Append(waiters, o)
  /\ scan' = 1
  /\ UNCHANGED <<active, owner>>

\* Mutant: a call from inside a running operation queues for its own lanes.
CallInsideQueues(o, p) ==
  /\ scan = 0
  /\ <<p, o>> \in Nested
  /\ p \in active
  /\ Idle(o)
  /\ owner' = [owner EXCEPT ![o] = p]
  /\ waiters' = Append(waiters, o)
  /\ scan' = 1
  /\ UNCHANGED active

\* `inheritedOwner?.active`: the inner call runs under its caller's lanes.
CallInside(o, p) ==
  /\ scan = 0
  /\ <<p, o>> \in Nested
  /\ p \in active
  /\ Idle(o)
  /\ owner' = [owner EXCEPT ![o] = p]
  /\ UNCHANGED <<waiters, active, scan>>

\* An inner call returns, its caller's lanes still held or not; nothing is
\* released.
ReturnInside(o) ==
  /\ scan = 0
  /\ Inside(o)
  /\ ~Waiting(o)
  /\ owner' = [owner EXCEPT ![o] = NoOwner]
  /\ UNCHANGED <<waiters, active, scan>>

\* Mutant: the lanes are given back but nobody is woken.
ReleaseWithoutDrain(o) ==
  /\ scan = 0
  /\ o \in active
  /\ ~Awaits(o)
  /\ active' = active \ {o}
  /\ UNCHANGED <<waiters, owner, scan>>

\* The body returned or threw: `finally` calls releaseWriteLane, and looks at
\* no inner call.  Only a body that awaits one has not returned yet.
Release(o) ==
  /\ scan = 0
  /\ o \in active
  /\ ~Awaits(o)
  /\ active' = active \ {o}
  /\ scan' = 1
  /\ UNCHANGED <<waiters, owner>>

\* Mutant: the waiter runs but keeps its place in the queue.
DrainGrantKeepsPlace ==
  /\ scan \in 1..Len(waiters)
  /\ CanStart(waiters[scan])
  /\ active' = active \cup {waiters[scan]}
  /\ scan' = scan + 1
  /\ UNCHANGED <<owner, waiters>>

\* One iteration of drainWriteLaneWaiters that admits the waiter.
DrainGrant ==
  /\ scan \in 1..Len(waiters)
  /\ CanStart(waiters[scan])
  /\ active' = active \cup {waiters[scan]}
  /\ waiters' = RemoveAt(waiters, scan)
  /\ UNCHANGED <<owner, scan>>

\* Mutant: a blocked global waiter is passed over like any other.
DrainSkipAny ==
  /\ scan \in 1..Len(waiters)
  /\ ~CanStart(waiters[scan])
  /\ scan' = scan + 1
  /\ UNCHANGED <<waiters, active, owner>>

\* A blocked tenant waiter is passed over.
DrainSkip ==
  /\ scan \in 1..Len(waiters)
  /\ ~CanStart(waiters[scan])
  /\ ~Global(waiters[scan])
  /\ scan' = scan + 1
  /\ UNCHANGED <<waiters, active, owner>>

\* A blocked global waiter is a barrier; so is the end of the queue.
DrainEnd ==
  /\ scan # 0
  /\ \/ scan > Len(waiters)
     \/ /\ scan <= Len(waiters)
        /\ Global(waiters[scan])
        /\ ~CanStart(waiters[scan])
  /\ scan' = 0
  /\ UNCHANGED <<waiters, active, owner>>

Drain == DrainGrant \/ DrainSkip \/ DrainEnd

Next ==
  \/ \E o \in Operations : Call(o) \/ ReturnInside(o) \/ Release(o)
  \/ \E o, p \in Operations : CallInside(o, p)
  \/ Drain

Spec == Init /\ [][Next]_vars

\* The event loop runs a drain to its end; the body of an operation and of an
\* inner call ends, however many inner calls it makes on the way.
Fairness ==
  /\ WF_vars(Drain)
  /\ \A o \in Operations : SF_vars(Release(o))
  /\ \A o \in {n[2] : n \in Nested} : SF_vars(ReturnInside(o))

FairSpec == Spec /\ Fairness

------------------------------------------------------------------------------
TypeOK ==
  /\ waiters \in Seq(Operations)
  /\ IsInjective(waiters)
  /\ active \subseteq Operations
  /\ active \cap ToSet(waiters) = {}
  /\ owner \in [Operations -> Operations \cup {NoOwner}]
  /\ scan \in Nat

\* No two operations that were admitted ever hold a common lane, whatever order
\* they were called in: the reason withWriteLock exists (storage.js:185-187).
LanesExclusive == \A o, p \in active : o # p => ~Conflict(o, p)

\* After a drain a waiter that could start is only held back by a global
\* waiter in front of it: no wakeup is lost, and with no lane held the queue
\* is empty (drainWriteLaneWaiters).
NobodyForgotten ==
  scan = 0 =>
    \A j \in 1..Len(waiters) :
      CanStart(waiters[j]) => \E i \in 1..(j - 1) : Global(waiters[i])

\* An operation is never admitted past an earlier one that is global or whose
\* lanes are among its own (a blocked global request is a barrier,
\* storage.js:276-279, and one lane is served in order of arrival).
NoOvertaking ==
  [][\A i, j \in 1..Len(waiters) :
       i < j /\ LanesOf[waiters[i]] \subseteq LanesOf[waiters[j]]
         => (waiters[j] \in active' => waiters[i] \in active')]_vars

\* Every call that asks for all lanes or for a single one gets to run, although
\* new callers keep arriving and inner calls wait for nobody.  (A call for
\* several lanes can starve: see the next property.)
EveryCallRuns ==
  \A o \in Operations :
    Cardinality(LanesOf[o]) <= 1 => (Waiting(o) ~> o \in active)

\* A call for several lanes is passed over whenever one of them is taken
\* (storage.js:280), and that is the only way it starves: once no call that
\* conflicts with it waits along with it, it runs, although the lanes come free
\* one by one and inner calls go on.
SeveralLanesComeFree ==
  \A o \in Operations :
    Cardinality(LanesOf[o]) > 1 =>
      []<>(~Waiting(o) \/ \E p \in Operations \ {o} : Waiting(p) /\ Conflict(o, p))

\* The lanes implement the lane lock.
Promise == INSTANCE LaneLock WITH held <- {<<o, LanesOf[o]>> : o \in active}
ImplementsLaneLock == Promise!Spec
==============================================================================
