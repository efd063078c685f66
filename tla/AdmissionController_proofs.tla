---------------------- MODULE AdmissionController_proofs ----------------------
(***************************************************************************)
(* Proofs about AdmissionController, for every set of requests, keys and    *)
(* limits.  IInv is the conjunction of what the runs check; it is inductive *)
(* once it also says that a closed gate is not draining.                    *)
(***************************************************************************)
EXTENDS AdmissionController, SequenceFacts, FiniteSetTheorems, TLAPS

Waiters == {r \in Requests : status[r] = "queued"}

IInv ==
  /\ TypeOK
  /\ LeasesCounted
  /\ QueueIsTheWaiters
  /\ WaitersCounted
  /\ active <= MaxActive
  /\ \A k \in Keys : activeByKey[k] <= MaxActivePerKey
  /\ NobodyLeftBehind
  /\ ClosedHasNoWaiters
  /\ closed => ~draining

------------------------------------------------------------------------------
(* Lemmas about the data. *)

\* The set of requests in one state, and in one state with one key, is finite.
LEMMA RequestSetsFinite ==
  /\ IsFiniteSet(Held)
  /\ \A k : IsFiniteSet(HeldWithKey(k)) /\ IsFiniteSet(QueuedWithKey(k))
BY RequestsAssumption, FS_Subset DEF Held, HeldWithKey, QueuedWithKey

\* One element less.
LEMMA CardinalityWithout ==
  ASSUME NEW S, IsFiniteSet(S), NEW x \in S
  PROVE  /\ Cardinality(S \ {x}) = Cardinality(S) - 1
         /\ Cardinality(S) \in Nat /\ Cardinality(S) > 0
<1>1. Cardinality(S) \in Nat
  BY FS_CardinalityType
<1>2. Cardinality(S) # 0
  BY FS_EmptySet
<1> QED
  BY <1>1, <1>2, FS_RemoveElement

\* Counting up and down keeps counts natural numbers.
LEMMA KeyCountsTyped ==
  ASSUME NEW count \in [Keys -> Nat], NEW k \in Keys \cup {NoKey}
  PROVE  /\ KeyCountUp(count, k) \in [Keys -> Nat]
         /\ KeyCountDown(count, k) \in [Keys -> Nat]
<1>1. CASE k = NoKey
  BY <1>1 DEF KeyCountUp, KeyCountDown
<1>2. CASE k # NoKey
  <2>1. k \in Keys /\ count[k] \in Nat /\ count[k] + 1 \in Nat
    BY <1>2
  <2>2. count[k] # 0 => count[k] - 1 \in Nat
    BY <2>1
  <2> QED
    BY <1>2, <2>1, <2>2 DEF KeyCountUp, KeyCountDown
<1> QED
  BY <1>1, <1>2

------------------------------------------------------------------------------
(* What the three bookkeeping operations preserve. *)

\* A lease is granted to r, which holds none.
LEMMA GrantCounts ==
  ASSUME TypeOK, LeasesCounted, NEW r \in Requests, status[r] # "held", Grant(r)
  PROVE  LeasesCounted'
<1>1. Held' = Held \cup {r} /\ r \notin Held
  BY DEF Held, Grant, TypeOK
<1>2. active' = Cardinality(Held')
  BY <1>1, RequestSetsFinite, FS_AddElement DEF LeasesCounted, Grant
<1>3. ASSUME NEW k \in Keys
      PROVE  activeByKey'[k] = Cardinality(HeldWithKey(k)')
  <2>1. CASE KeyOf[r] = k
    <3>1. HeldWithKey(k)' = HeldWithKey(k) \cup {r} /\ r \notin HeldWithKey(k)
      BY <1>1, <2>1 DEF HeldWithKey
    <3>2. activeByKey'[k] = activeByKey[k] + 1
      BY <2>1, RequestsAssumption DEF Grant, KeyCountUp, TypeOK
    <3> QED
      BY <3>1, <3>2, RequestSetsFinite, FS_AddElement DEF LeasesCounted
  <2>2. CASE KeyOf[r] # k
    <3>1. HeldWithKey(k)' = HeldWithKey(k)
      BY <1>1, <2>2 DEF HeldWithKey
    <3>2. activeByKey'[k] = activeByKey[k]
      BY <2>2, RequestsAssumption DEF Grant, KeyCountUp, TypeOK
    <3> QED
      BY <3>1, <3>2 DEF LeasesCounted
  <2> QED
    BY <2>1, <2>2
<1> QED
  BY <1>2, <1>3 DEF LeasesCounted

\* A lease is released.
LEMMA ReleaseCounts ==
  ASSUME TypeOK, LeasesCounted, NEW r \in Requests, Release(r)
  PROVE  LeasesCounted' /\ active' = active - 1 /\ active > 0
<1>1. Held' = Held \ {r} /\ r \in Held
  BY DEF Held, Release, TypeOK
<1>2. Cardinality(Held') = Cardinality(Held) - 1 /\ Cardinality(Held) > 0
  BY <1>1, RequestSetsFinite, CardinalityWithout
<1>3. active' = active - 1 /\ active > 0 /\ active' = Cardinality(Held')
  BY <1>2 DEF LeasesCounted, Release, TypeOK
<1>4. ASSUME NEW k \in Keys
      PROVE  activeByKey'[k] = Cardinality(HeldWithKey(k)')
  <2>1. CASE KeyOf[r] = k
    <3>1. HeldWithKey(k)' = HeldWithKey(k) \ {r} /\ r \in HeldWithKey(k)
      BY <1>1, <2>1 DEF HeldWithKey
    <3>2. /\ Cardinality(HeldWithKey(k)') = Cardinality(HeldWithKey(k)) - 1
          /\ Cardinality(HeldWithKey(k)) > 0
      BY <3>1, RequestSetsFinite, CardinalityWithout
    <3>3. activeByKey'[k] = activeByKey[k] - 1
      BY <2>1, <3>2, RequestsAssumption
      DEF Release, KeyCountDown, TypeOK, LeasesCounted
    <3> QED
      BY <3>2, <3>3 DEF LeasesCounted
  <2>2. CASE KeyOf[r] # k
    <3>1. HeldWithKey(k)' = HeldWithKey(k)
      BY <1>1, <2>2 DEF HeldWithKey
    <3>2. activeByKey'[k] = activeByKey[k]
      BY <2>2, RequestsAssumption DEF Release, KeyCountDown, TypeOK
    <3> QED
      BY <3>1, <3>2 DEF LeasesCounted
  <2> QED
    BY <2>1, <2>2
<1> QED
  BY <1>3, <1>4 DEF LeasesCounted

\* r joins the queue.
LEMMA EnqueueCounts ==
  ASSUME TypeOK, WaitersCounted, NEW r \in Requests, status[r] # "queued",
         queuedByKey' = KeyCountUp(queuedByKey, KeyOf[r]),
         status' = [status EXCEPT ![r] = "queued"]
  PROVE  WaitersCounted'
<1> SUFFICES ASSUME NEW k \in Keys
             PROVE  queuedByKey'[k] = Cardinality(QueuedWithKey(k)')
  BY DEF WaitersCounted
<1>1. CASE KeyOf[r] = k
  <2>1. QueuedWithKey(k)' = QueuedWithKey(k) \cup {r} /\ r \notin QueuedWithKey(k)
    BY <1>1 DEF QueuedWithKey, TypeOK
  <2>2. queuedByKey'[k] = queuedByKey[k] + 1
    BY <1>1, RequestsAssumption DEF KeyCountUp, TypeOK
  <2> QED
    BY <2>1, <2>2, RequestSetsFinite, FS_AddElement DEF WaitersCounted
<1>2. CASE KeyOf[r] # k
  <2>1. QueuedWithKey(k)' = QueuedWithKey(k)
    BY <1>2 DEF QueuedWithKey, TypeOK
  <2>2. queuedByKey'[k] = queuedByKey[k]
    BY <1>2, RequestsAssumption DEF KeyCountUp, TypeOK
  <2> QED
    BY <2>1, <2>2 DEF WaitersCounted
<1> QED
  BY <1>1, <1>2

\* r leaves the queue for another status.
LEMMA DequeueCounts ==
  ASSUME TypeOK, WaitersCounted, NEW r \in Requests, status[r] = "queued",
         queuedByKey' = KeyCountDown(queuedByKey, KeyOf[r]),
         NEW st, st # "queued",
         status' = [status EXCEPT ![r] = st]
  PROVE  WaitersCounted'
<1> SUFFICES ASSUME NEW k \in Keys
             PROVE  queuedByKey'[k] = Cardinality(QueuedWithKey(k)')
  BY DEF WaitersCounted
<1>1. CASE KeyOf[r] = k
  <2>1. QueuedWithKey(k)' = QueuedWithKey(k) \ {r} /\ r \in QueuedWithKey(k)
    BY <1>1 DEF QueuedWithKey, TypeOK
  <2>2. /\ Cardinality(QueuedWithKey(k)') = Cardinality(QueuedWithKey(k)) - 1
        /\ Cardinality(QueuedWithKey(k)) > 0
    BY <2>1, RequestSetsFinite, CardinalityWithout
  <2>3. queuedByKey'[k] = queuedByKey[k] - 1
    BY <1>1, <2>2, RequestsAssumption DEF KeyCountDown, TypeOK, WaitersCounted
  <2> QED
    BY <2>2, <2>3 DEF WaitersCounted
<1>2. CASE KeyOf[r] # k
  <2>1. QueuedWithKey(k)' = QueuedWithKey(k)
    BY <1>2 DEF QueuedWithKey, TypeOK
  <2>2. queuedByKey'[k] = queuedByKey[k]
    BY <1>2, RequestsAssumption DEF KeyCountDown, TypeOK
  <2> QED
    BY <2>1, <2>2 DEF WaitersCounted
<1> QED
  BY <1>1, <1>2

\* The place of a waiter that joins the queue.
LEMMA AppendKeepsQueue ==
  ASSUME TypeOK, QueueIsTheWaiters, NEW r \in Requests, status[r] # "queued",
         queue' = Append(queue, r), status' = [status EXCEPT ![r] = "queued"]
  PROVE  QueueIsTheWaiters' /\ queue' \in Seq(Requests)
<1>1. /\ queue' \in Seq(Requests)
      /\ Len(queue') = Len(queue) + 1
      /\ Len(queue) \in Nat
      /\ \A i \in 1..Len(queue) : queue'[i] = queue[i]
      /\ queue'[Len(queue) + 1] = r
  BY AppendProperties, LenProperties DEF TypeOK
<1>2. \A i \in 1..Len(queue) : queue[i] # r
  BY DEF QueueIsTheWaiters
<1>3. ASSUME NEW p \in Requests
      PROVE  status'[p] = "queued" <=> \E i \in 1..Len(queue') : queue'[i] = p
  <2>1. CASE p = r
    BY <2>1, <1>1 DEF TypeOK
  <2>2. CASE p # r
    <3>1. status'[p] = status[p]
      BY <2>2 DEF TypeOK
    <3>2. (\E i \in 1..Len(queue') : queue'[i] = p)
            <=> (\E i \in 1..Len(queue) : queue[i] = p)
      BY <2>2, <1>1
    <3> QED
      BY <3>1, <3>2 DEF QueueIsTheWaiters
  <2> QED
    BY <2>1, <2>2
<1>4. ASSUME NEW i \in 1..Len(queue'), NEW j \in 1..Len(queue'),
             queue'[i] = queue'[j]
      PROVE  i = j
  BY <1>1, <1>2, <1>4 DEF QueueIsTheWaiters
<1> QED
  BY <1>1, <1>3, <1>4 DEF QueueIsTheWaiters

\* The places of the others when a waiter leaves the queue.
LEMMA RemoveKeepsQueue ==
  ASSUME TypeOK, QueueIsTheWaiters, NEW i \in 1..Len(queue),
         queue' = RemoveAt(queue, i), NEW st, st # "queued",
         status' = [status EXCEPT ![queue[i]] = st]
  PROVE  /\ QueueIsTheWaiters' /\ queue' \in Seq(Requests)
         /\ \A j \in 1..Len(queue') : \E m \in 1..Len(queue) :
              m # i /\ queue'[j] = queue[m]
<1>0. Len(queue) \in Nat /\ i \in Nat /\ queue[i] \in Requests
  BY ElementOfSeq, LenProperties DEF TypeOK
<1>1. /\ queue' \in Seq(Requests)
      /\ Len(queue') = Len(queue) - 1
      /\ \A j \in 1..(Len(queue) - 1) :
           queue'[j] = IF j < i THEN queue[j] ELSE queue[j + 1]
  BY RemoveAtPlaces DEF TypeOK
<1>2. ASSUME NEW j \in 1..Len(queue')
      PROVE  /\ j < i => j \in 1..Len(queue) /\ queue'[j] = queue[j]
             /\ ~(j < i) => /\ j + 1 \in 1..Len(queue) /\ j + 1 # i
                            /\ queue'[j] = queue[j + 1]
  BY <1>0, <1>1
<1>3. ASSUME NEW m \in 1..Len(queue), m # i
      PROVE  \E j \in 1..Len(queue') : queue'[j] = queue[m]
  <2>1. CASE m < i
    BY <2>1, <1>0, <1>1
  <2>2. CASE m > i
    <3>1. m - 1 \in 1..Len(queue') /\ ~(m - 1 < i) /\ (m - 1) + 1 = m
      BY <2>2, <1>0, <1>1
    <3>2. queue'[m - 1] = queue[m]
      BY <3>1, <1>2
    <3> QED
      BY <3>1, <3>2
  <2> QED
    BY <2>1, <2>2, <1>0, <1>3
<1>4. \A j \in 1..Len(queue') : \E m \in 1..Len(queue) :
         m # i /\ queue'[j] = queue[m]
  BY <1>0, <1>2
<1>5. \A m \in 1..Len(queue) : m # i => queue[m] # queue[i]
  BY DEF QueueIsTheWaiters
<1>6. ASSUME NEW p \in Requests
      PROVE  status'[p] = "queued" <=> \E j \in 1..Len(queue') : queue'[j] = p
  <2>1. CASE p = queue[i]
    <3>1. status'[p] # "queued"
      BY <2>1, <1>0 DEF TypeOK
    <3>2. \A j \in 1..Len(queue') : queue'[j] # p
      BY <2>1, <1>4, <1>5
    <3> QED
      BY <3>1, <3>2
  <2>2. CASE p # queue[i]
    <3>1. status'[p] = status[p]
      BY <2>2, <1>0 DEF TypeOK
    <3>2. (\E j \in 1..Len(queue') : queue'[j] = p)
            <=> (\E m \in 1..Len(queue) : queue[m] = p)
      <4>1. ASSUME NEW j \in 1..Len(queue'), queue'[j] = p
            PROVE  \E m \in 1..Len(queue) : queue[m] = p
        BY <4>1, <1>4
      <4>2. ASSUME NEW m \in 1..Len(queue), queue[m] = p
            PROVE  \E j \in 1..Len(queue') : queue'[j] = p
        BY <4>2, <2>2, <1>3
      <4> QED
        BY <4>1, <4>2
    <3> QED
      BY <3>1, <3>2 DEF QueueIsTheWaiters
  <2> QED
    BY <2>1, <2>2
<1>7. ASSUME NEW j \in 1..Len(queue'), NEW h \in 1..Len(queue'),
             queue'[j] = queue'[h]
      PROVE  j = h
  BY <1>0, <1>1, <1>2, <1>7 DEF QueueIsTheWaiters
<1> QED
  BY <1>1, <1>4, <1>6, <1>7 DEF QueueIsTheWaiters

------------------------------------------------------------------------------
(* The steps preserve IInv, one lemma per step that changes something. *)

\* A change of status outside the queue and the leases disturbs nothing.
LEMMA StatusOnlyKeepsIInv ==
  ASSUME IInv, NEW r \in Requests, NEW st \in {"new", "refused"},
         status[r] \notin {"queued", "held"},
         status' = [status EXCEPT ![r] = st],
         UNCHANGED <<queue, active, activeByKey, queuedByKey, closed, draining>>
  PROVE  IInv'
<1> USE DEF IInv
<1>1. TypeOK'
  BY DEF TypeOK, Status
<1>2. Held' = Held /\ \A k : HeldWithKey(k)' = HeldWithKey(k)
  BY DEF Held, HeldWithKey, TypeOK
<1>3. LeasesCounted'
  BY <1>2 DEF LeasesCounted
<1>4. \A p \in Requests : status'[p] = "queued" <=> status[p] = "queued"
  BY DEF TypeOK
<1>5. QueueIsTheWaiters'
  BY <1>4 DEF QueueIsTheWaiters
<1>6. \A k : QueuedWithKey(k)' = QueuedWithKey(k)
  BY <1>4 DEF QueuedWithKey
<1>7. WaitersCounted'
  BY <1>6 DEF WaitersCounted
<1>8. NobodyLeftBehind' /\ ClosedHasNoWaiters'
  BY DEF NobodyLeftBehind, ClosedHasNoWaiters, KeySaturated
<1> QED
  BY <1>1, <1>3, <1>5, <1>7, <1>8

\* A newcomer that could not be admitted joins the queue.
LEMMA JoinKeepsIInv ==
  ASSUME IInv, NEW r \in Requests, status[r] = "new", ~draining, ~closed,
         active >= MaxActive \/ KeySaturated(KeyOf[r]),
         Enqueue(r), UNCHANGED <<closed, draining>>
  PROVE  IInv'
<1>1. CASE Refuse(r)
  BY <1>1, StatusOnlyKeepsIInv DEF Refuse
<1>2. CASE /\ queue' = Append(queue, r)
           /\ queuedByKey' = KeyCountUp(queuedByKey, KeyOf[r])
           /\ status' = [status EXCEPT ![r] = "queued"]
           /\ UNCHANGED <<active, activeByKey>>
  <2> USE <1>2 DEF IInv
  <2>1. QueueIsTheWaiters' /\ queue' \in Seq(Requests)
    BY AppendKeepsQueue
  <2>2. TypeOK'
    <3>1. queuedByKey' \in [Keys -> Nat]
      BY KeyCountsTyped, RequestsAssumption DEF TypeOK
    <3> QED
      BY <2>1, <3>1 DEF TypeOK, Status
  <2>3. Held' = Held /\ \A k : HeldWithKey(k)' = HeldWithKey(k)
    BY DEF Held, HeldWithKey, TypeOK
  <2>4. LeasesCounted'
    BY <2>3 DEF LeasesCounted
  <2>5. WaitersCounted'
    BY EnqueueCounts
  <2>6. ASSUME active' < MaxActive, NEW i \in 1..Len(queue')
        PROVE  KeySaturated(KeyOf[queue[i]])'
    <3>1. KeySaturated(KeyOf[r])
      BY <2>6, LimitsAssumption DEF TypeOK
    <3>2. /\ Len(queue') = Len(queue) + 1
          /\ Len(queue) \in Nat
          /\ \A j \in 1..Len(queue) : queue'[j] = queue[j]
          /\ queue'[Len(queue) + 1] = r
      BY AppendProperties, LenProperties DEF TypeOK
    <3>3. \A j \in 1..Len(queue) : KeySaturated(KeyOf[queue[j]])
      BY <2>6 DEF NobodyLeftBehind
    <3>4. KeySaturated(KeyOf[queue'[i]])
      BY <3>1, <3>2, <3>3
    <3> QED
      BY <3>4 DEF KeySaturated
  <2>7. NobodyLeftBehind' /\ ClosedHasNoWaiters'
    BY <2>6 DEF NobodyLeftBehind, ClosedHasNoWaiters
  <2> QED
    BY <2>1, <2>2, <2>4, <2>5, <2>7
<1> QED
  BY <1>1, <1>2 DEF Enqueue

\* A newcomer is admitted at once.
LEMMA AdmitKeepsIInv ==
  ASSUME IInv, NEW r \in Requests, status[r] = "new", ~draining, ~closed,
         ~KeySaturated(KeyOf[r]), active < MaxActive, Grant(r),
         UNCHANGED <<queue, queuedByKey, closed, draining>>
  PROVE  IInv'
<1> USE DEF IInv
<1>1. TypeOK'
  <2>1. activeByKey' \in [Keys -> Nat]
    BY KeyCountsTyped, RequestsAssumption DEF TypeOK, Grant
  <2> QED
    BY <2>1 DEF TypeOK, Status, Grant
<1>2. LeasesCounted'
  BY GrantCounts
<1>3. \A p \in Requests : status'[p] = "queued" <=> status[p] = "queued"
  BY DEF TypeOK, Grant
<1>4. QueueIsTheWaiters'
  BY <1>3 DEF QueueIsTheWaiters
<1>5. \A k : QueuedWithKey(k)' = QueuedWithKey(k)
  BY <1>3 DEF QueuedWithKey
<1>6. WaitersCounted'
  BY <1>5 DEF WaitersCounted
<1>7. active' <= MaxActive
  BY LimitsAssumption DEF Grant, TypeOK
<1>8. \A k \in Keys : /\ activeByKey'[k] <= MaxActivePerKey
                       /\ activeByKey'[k] >= activeByKey[k]
  BY LimitsAssumption, RequestsAssumption DEF Grant, KeyCountUp, KeySaturated, TypeOK
<1>9. NobodyLeftBehind'
  <2> SUFFICES ASSUME active' < MaxActive, NEW i \in 1..Len(queue)
               PROVE  KeySaturated(KeyOf[queue[i]])'
    BY DEF NobodyLeftBehind
  <2>1. queue[i] \in Requests
    BY ElementOfSeq DEF TypeOK
  <2>2. KeySaturated(KeyOf[queue[i]])
    BY DEF NobodyLeftBehind
  <2>3. KeyOf[queue[i]] \in Keys
    BY <2>1, <2>2, RequestsAssumption DEF KeySaturated
  <2> QED
    BY <2>2, <2>3, <1>1, <1>8, LimitsAssumption DEF KeySaturated, TypeOK
<1>10. ClosedHasNoWaiters'
  BY DEF ClosedHasNoWaiters
<1> QED
  BY <1>1, <1>2, <1>4, <1>6, <1>7, <1>8, <1>9, <1>10

LEMMA AcquireKeepsIInv ==
  ASSUME IInv, NEW r \in Requests, Acquire(r)
  PROVE  IInv'
<1> USE DEF Acquire
<1>1. CASE Refuse(r)
  BY <1>1, StatusOnlyKeepsIInv DEF Refuse
<1>2. CASE ~closed /\ KeySaturated(KeyOf[r]) /\ Enqueue(r)
  BY <1>2, JoinKeepsIInv
<1>3. CASE /\ ~closed /\ ~KeySaturated(KeyOf[r]) /\ active < MaxActive
           /\ Grant(r) /\ UNCHANGED <<queue, queuedByKey>>
  BY <1>3, AdmitKeepsIInv
<1>4. CASE ~closed /\ active >= MaxActive /\ Enqueue(r)
  BY <1>4, JoinKeepsIInv
<1> QED
  BY <1>1, <1>2, <1>3, <1>4

LEMMA AbandonKeepsIInv ==
  ASSUME IInv, NEW i \in 1..Len(queue), Abandon(i)
  PROVE  IInv'
<1> USE DEF IInv, Abandon, Dequeue
<1>0. queue[i] \in Requests /\ status[queue[i]] = "queued"
  BY ElementOfSeq DEF TypeOK, QueueIsTheWaiters
<1>1. /\ QueueIsTheWaiters' /\ queue' \in Seq(Requests)
      /\ \A j \in 1..Len(queue') : \E m \in 1..Len(queue) :
           m # i /\ queue'[j] = queue[m]
  BY RemoveKeepsQueue
<1>2. TypeOK'
  <2>1. queuedByKey' \in [Keys -> Nat]
    BY <1>0, KeyCountsTyped, RequestsAssumption DEF TypeOK
  <2> QED
    BY <1>0, <1>1, <2>1 DEF TypeOK, Status
<1>3. Held' = Held /\ \A k : HeldWithKey(k)' = HeldWithKey(k)
  BY <1>0 DEF Held, HeldWithKey, TypeOK
<1>4. LeasesCounted'
  BY <1>3 DEF LeasesCounted
<1>5. WaitersCounted'
  BY <1>0, DequeueCounts
<1>6. NobodyLeftBehind'
  BY <1>1 DEF NobodyLeftBehind, KeySaturated
<1>7. ClosedHasNoWaiters'
  <2>1. Len(queue) > 0
    BY LenProperties DEF TypeOK
  <2>2. ~closed
    BY <2>1 DEF ClosedHasNoWaiters
  <2> QED
    BY <2>2 DEF ClosedHasNoWaiters
<1> QED
  BY <1>1, <1>2, <1>4, <1>5, <1>6, <1>7

LEMMA ReleaseKeepsIInv ==
  ASSUME IInv, NEW r \in Requests, Release(r)
  PROVE  IInv'
<1> USE DEF IInv
<1>1. LeasesCounted' /\ active' = active - 1 /\ active > 0
  BY ReleaseCounts
<1>2. TypeOK'
  <2>1. activeByKey' \in [Keys -> Nat]
    BY KeyCountsTyped, RequestsAssumption DEF TypeOK, Release
  <2>2. active' \in Nat
    BY DEF TypeOK, Release
  <2> QED
    BY <2>1, <2>2 DEF TypeOK, Status, Release
<1>3. \A p \in Requests : status'[p] = "queued" <=> status[p] = "queued"
  BY DEF TypeOK, Release
<1>4. QueueIsTheWaiters'
  BY <1>3 DEF QueueIsTheWaiters, Release
<1>5. \A k : QueuedWithKey(k)' = QueuedWithKey(k)
  BY <1>3 DEF QueuedWithKey
<1>6. WaitersCounted'
  BY <1>5 DEF WaitersCounted, Release
<1>7. active' <= MaxActive
  BY <1>1, LimitsAssumption DEF TypeOK
<1>8. \A k \in Keys : activeByKey'[k] <= MaxActivePerKey
  BY LimitsAssumption, RequestsAssumption DEF Release, KeyCountDown, TypeOK
<1>9. NobodyLeftBehind'
  <2>1. CASE closed
    BY <2>1 DEF NobodyLeftBehind, ClosedHasNoWaiters, Release
  <2>2. CASE ~closed
    BY <2>2 DEF NobodyLeftBehind, Release
  <2> QED
    BY <2>1, <2>2
<1>10. ClosedHasNoWaiters' /\ (closed' => ~draining')
  BY DEF ClosedHasNoWaiters, Release
<1> QED
  BY <1>1, <1>2, <1>4, <1>6, <1>7, <1>8, <1>9, <1>10

LEMMA DrainOneKeepsIInv ==
  ASSUME IInv, DrainOne
  PROVE  IInv'
<1> USE DEF IInv
<1>0. PICK i \in Admissible : Dequeue(i) /\ Grant(queue[i])
  BY DEF DrainOne
<1>1. i \in 1..Len(queue) /\ ~KeySaturated(KeyOf[queue[i]])
  BY DEF Admissible
<1>2. queue[i] \in Requests /\ status[queue[i]] = "queued"
  BY <1>1, ElementOfSeq DEF TypeOK, QueueIsTheWaiters
<1>3. UNCHANGED <<closed, draining>> /\ draining /\ active < MaxActive
  BY DEF DrainOne, DrainGoesOn
<1>4. QueueIsTheWaiters' /\ queue' \in Seq(Requests)
  BY <1>0, <1>1, RemoveKeepsQueue DEF Dequeue, Grant
<1>5. TypeOK'
  <2>1. queuedByKey' \in [Keys -> Nat] /\ activeByKey' \in [Keys -> Nat]
    BY <1>0, <1>2, KeyCountsTyped, RequestsAssumption DEF TypeOK, Dequeue, Grant
  <2> QED
    BY <1>0, <1>2, <1>3, <1>4, <2>1 DEF TypeOK, Status, Grant
<1>6. LeasesCounted'
  BY <1>0, <1>2, GrantCounts
<1>7. WaitersCounted'
  BY <1>0, <1>2, DequeueCounts DEF Dequeue, Grant
<1>8. active' <= MaxActive
  BY <1>0, <1>3, LimitsAssumption DEF Grant, TypeOK
<1>9. \A k \in Keys : activeByKey'[k] <= MaxActivePerKey
  BY <1>0, <1>1, <1>2, LimitsAssumption, RequestsAssumption
  DEF Grant, KeyCountUp, KeySaturated, TypeOK
<1>10. NobodyLeftBehind' /\ ClosedHasNoWaiters' /\ (closed' => ~draining')
  BY <1>3 DEF NobodyLeftBehind, ClosedHasNoWaiters
<1> QED
  BY <1>4, <1>5, <1>6, <1>7, <1>8, <1>9, <1>10

LEMMA DrainDoneKeepsIInv ==
  ASSUME IInv, DrainDone
  PROVE  IInv'
<1> USE DEF IInv, DrainDone
<1>0. /\ Held' = Held
      /\ \A k : HeldWithKey(k)' = HeldWithKey(k) /\ QueuedWithKey(k)' = QueuedWithKey(k)
  BY DEF Held, HeldWithKey, QueuedWithKey
<1>1. TypeOK' /\ LeasesCounted' /\ QueueIsTheWaiters' /\ WaitersCounted'
  BY <1>0 DEF TypeOK, LeasesCounted, QueueIsTheWaiters, WaitersCounted
<1>2. NobodyLeftBehind'
  BY DEF NobodyLeftBehind, DrainGoesOn, Admissible, KeySaturated
<1>3. ClosedHasNoWaiters' /\ (closed' => ~draining')
  BY DEF ClosedHasNoWaiters
<1> QED
  BY <1>1, <1>2, <1>3

LEMMA CloseKeepsIInv ==
  ASSUME IInv, Close
  PROVE  IInv'
<1> USE DEF IInv, Close
<1>1. TypeOK'
  BY DEF TypeOK, Status
<1>2. \A p \in Requests : /\ status'[p] # "queued"
                          /\ status'[p] = "held" <=> status[p] = "held"
  BY DEF TypeOK
<1>3. Held' = Held /\ \A k : HeldWithKey(k)' = HeldWithKey(k)
  BY <1>2 DEF Held, HeldWithKey
<1>4. LeasesCounted'
  BY <1>3 DEF LeasesCounted
<1>5. QueueIsTheWaiters'
  BY <1>2 DEF QueueIsTheWaiters
<1>6. \A k : QueuedWithKey(k)' = {}
  BY <1>2 DEF QueuedWithKey
<1>7. WaitersCounted'
  BY <1>6, FS_EmptySet DEF WaitersCounted
<1>8. NobodyLeftBehind' /\ ClosedHasNoWaiters' /\ (closed' => ~draining')
  BY DEF NobodyLeftBehind, ClosedHasNoWaiters
<1> QED
  BY <1>1, <1>4, <1>5, <1>7, <1>8

------------------------------------------------------------------------------
(* The theorems. *)

LEMMA InitIInv == Init => IInv
<1> SUFFICES ASSUME Init PROVE IInv
  OBVIOUS
<1> USE DEF Init
<1>1. TypeOK
  <2>1. queue \in Seq(Requests)
    BY EmptySeq
  <2> QED
    BY <2>1 DEF TypeOK, Status
<1>2. Held = {} /\ (\A k : HeldWithKey(k) = {}) /\ (\A k : QueuedWithKey(k) = {})
  BY DEF Held, HeldWithKey, QueuedWithKey
<1>3. LeasesCounted /\ WaitersCounted
  BY <1>2, FS_EmptySet DEF LeasesCounted, WaitersCounted
<1>4. QueueIsTheWaiters
  BY DEF QueueIsTheWaiters
<1>5. NobodyLeftBehind /\ ClosedHasNoWaiters
  BY DEF NobodyLeftBehind, ClosedHasNoWaiters
<1> QED
  BY <1>1, <1>3, <1>4, <1>5, LimitsAssumption DEF IInv

LEMMA NextIInv == IInv /\ [Next]_vars => IInv'
<1> SUFFICES ASSUME IInv, [Next]_vars PROVE IInv'
  OBVIOUS
<1>1. ASSUME NEW r \in Requests, AcquireAborted(r) PROVE IInv'
  BY <1>1, StatusOnlyKeepsIInv DEF AcquireAborted, Refuse
<1>2. ASSUME NEW r \in Requests, Acquire(r) PROVE IInv'
  BY <1>2, AcquireKeepsIInv
<1>3. ASSUME NEW r \in Requests, Release(r) PROVE IInv'
  BY <1>3, ReleaseKeepsIInv
<1>4. ASSUME NEW r \in Requests, NextRequest(r) PROVE IInv'
  BY <1>4, StatusOnlyKeepsIInv DEF NextRequest
<1>5. ASSUME NEW i \in 1..Len(queue), Abandon(i) PROVE IInv'
  BY <1>5, AbandonKeepsIInv
<1>6. CASE DrainOne
  BY <1>6, DrainOneKeepsIInv
<1>7. CASE DrainDone
  BY <1>7, DrainDoneKeepsIInv
<1>8. CASE Close
  BY <1>8, CloseKeepsIInv
<1>9. CASE UNCHANGED vars
  BY <1>9 DEF vars, IInv, TypeOK, LeasesCounted, QueueIsTheWaiters,
     WaitersCounted, NobodyLeftBehind, ClosedHasNoWaiters, Held, HeldWithKey,
     QueuedWithKey, KeySaturated
<1> QED
  BY <1>1, <1>2, <1>3, <1>4, <1>5, <1>6, <1>7, <1>8, <1>9
  DEF Next, ReleaseAgain

THEOREM Invariance == Spec => []IInv
<1> QED
  BY InitIInv, NextIInv, PTL DEF Spec

\* The state of the gate has the types of the model.
THEOREM TypeCorrect == Spec => []TypeOK
<1> QED
  BY Invariance, PTL DEF IInv

\* The counters the gate decides by are the leases that are out.
THEOREM CountersAreLeases == Spec => []LeasesCounted
<1> QED
  BY Invariance, PTL DEF IInv

\* Neither limit of the gate is ever exceeded by the leases themselves.
THEOREM LimitsHold == Spec => []WithinLimits
<1>1. IInv => WithinLimits
  BY DEF IInv, LeasesCounted, WithinLimits
<1> QED
  BY Invariance, <1>1, PTL

\* No waiter that could be admitted is left in the queue.
THEOREM WorkConserving == Spec => []NobodyLeftBehind
<1> QED
  BY Invariance, PTL DEF IInv

------------------------------------------------------------------------------
(* The gate implements the fair semaphore: every step is one of its steps or *)
(* leaves the callers inside and the line alone.                             *)

\* What acquire() and drain() ask of the counter is what the promise asks of
\* the callers inside.
LEMMA RoomIsNotSaturated ==
  ASSUME IInv, NEW r \in Requests
  PROVE  Promise!KeyHasRoom(r) <=> ~KeySaturated(KeyOf[r])
<1>1. CASE KeyOf[r] = NoKey
  BY <1>1 DEF Promise!KeyHasRoom, KeySaturated
<1>2. CASE KeyOf[r] # NoKey
  <2>1. KeyOf[r] \in Keys
    BY <1>2, RequestsAssumption
  <2>2. Promise!InsideWithKey(KeyOf[r]) = HeldWithKey(KeyOf[r])
    BY DEF Promise!InsideWithKey, HeldWithKey
  <2>3. activeByKey[KeyOf[r]] = Cardinality(Promise!InsideWithKey(KeyOf[r]))
    BY <2>1, <2>2 DEF IInv, LeasesCounted
  <2>4. activeByKey[KeyOf[r]] \in Nat
    BY <2>1 DEF IInv, TypeOK
  <2>5. Promise!KeyHasRoom(r) <=> activeByKey[KeyOf[r]] < MaxActivePerKey
    BY <1>2, <2>3 DEF Promise!KeyHasRoom, Promise!Cardinality, Cardinality
  <2> QED
    BY <1>2, <2>4, <2>5, LimitsAssumption DEF KeySaturated
<1> QED
  BY <1>1, <1>2

LEMMA RoomIsBelowLimit ==
  ASSUME IInv
  PROVE  Promise!HasRoom <=> active < MaxActive
BY DEF IInv, LeasesCounted, Promise!HasRoom, Promise!Cardinality, Cardinality

\* A caller outside the gate is neither inside nor in the line.
LEMMA NewcomerIsOutside ==
  ASSUME IInv, NEW r \in Requests, status[r] = "new"
  PROVE  r \notin Held \cup Promise!Waiting
<1>1. r \notin Held
  BY DEF Held
<1>2. \A i \in 1..Len(queue) : queue[i] # r
  BY DEF IInv, QueueIsTheWaiters
<1> QED
  BY <1>1, <1>2 DEF Promise!Waiting

LEMMA AcquireSimulates ==
  ASSUME IInv, NEW r \in Requests, Acquire(r)
  PROVE  Promise!WalkIn(r) \/ Promise!JoinLine(r) \/ UNCHANGED <<Held, queue>>
<1>0. /\ status[r] = "new" /\ ~draining
      /\ r \notin Held \cup Promise!Waiting
      /\ status \in [Requests -> Status]
  BY NewcomerIsOutside DEF Acquire, IInv, TypeOK
<1>1. CASE Refuse(r)
  BY <1>0, <1>1 DEF Refuse, Held
<1>2. CASE /\ queue' = Append(queue, r)
           /\ status' = [status EXCEPT ![r] = "queued"]
  BY <1>0, <1>2 DEF Held, Promise!JoinLine
<1>3. CASE /\ ~KeySaturated(KeyOf[r]) /\ active < MaxActive
           /\ Grant(r) /\ UNCHANGED queue
  <2>1. Held' = Held \cup {r}
    BY <1>0, <1>3 DEF Held, Grant
  <2>2. Promise!HasRoom /\ Promise!KeyHasRoom(r)
    BY <1>3, RoomIsBelowLimit, RoomIsNotSaturated
  <2>3. \A i \in 1..Len(queue) :
          queue[i] \in Requests /\ KeySaturated(KeyOf[queue[i]])
    BY <1>0, <1>3, ElementOfSeq DEF IInv, TypeOK, NobodyLeftBehind
  <2>4. \A i \in 1..Len(queue) : ~Promise!KeyHasRoom(queue[i])
    BY <2>3, RoomIsNotSaturated
  <2> QED
    BY <1>0, <1>3, <2>1, <2>2, <2>4 DEF Promise!WalkIn
<1> QED
  BY <1>1, <1>2, <1>3 DEF Acquire, Enqueue

LEMMA DrainOneSimulates ==
  ASSUME IInv, DrainOne
  PROVE  \E i \in 1..Len(queue) : Promise!LetIn(i)
<1>1. PICK i \in Admissible :
        /\ \A j \in Admissible : i <= j
        /\ Dequeue(i)
        /\ Grant(queue[i])
  BY DEF DrainOne
<1>2. i \in 1..Len(queue) /\ ~KeySaturated(KeyOf[queue[i]])
  BY DEF Admissible
<1>3. \A j \in 1..Len(queue) : queue[j] \in Requests
  BY ElementOfSeq DEF IInv, TypeOK
<1>4. Held' = Held \cup {queue[i]}
  BY <1>1, <1>2, <1>3 DEF Held, Grant, IInv, TypeOK
<1>5. Promise!HasRoom /\ Promise!KeyHasRoom(queue[i])
  BY <1>2, <1>3, RoomIsBelowLimit, RoomIsNotSaturated DEF DrainOne, DrainGoesOn
<1>6. ASSUME NEW j \in 1..(i - 1)
      PROVE  ~Promise!KeyHasRoom(queue[j])
  <2>1. j \in 1..Len(queue) /\ ~(i <= j)
    BY <1>2, LenProperties DEF IInv, TypeOK
  <2>2. KeySaturated(KeyOf[queue[j]])
    BY <1>1, <2>1 DEF Admissible
  <2> QED
    BY <1>3, <2>1, <2>2, RoomIsNotSaturated
<1>7. Promise!LetIn(i)
  BY <1>1, <1>4, <1>5, <1>6 DEF Promise!LetIn, Dequeue, RemoveAt, Promise!RemoveAt
<1> QED
  BY <1>2, <1>7

LEMMA StepSimulates ==
  ASSUME IInv, [Next]_vars
  PROVE  [Promise!Next]_(Promise!vars)
<1>0. status \in [Requests -> Status]
  BY DEF IInv, TypeOK
<1>1. ASSUME NEW r \in Requests, Acquire(r)
      PROVE  Promise!Next \/ UNCHANGED Promise!vars
  BY <1>1, AcquireSimulates DEF Promise!Next, Promise!vars
<1>2. ASSUME NEW r \in Requests, Release(r)
      PROVE  Promise!Next
  <2>1. Held' = Held \ {r} /\ r \in Held /\ UNCHANGED queue
    BY <1>0, <1>2 DEF Release, Held
  <2> QED
    BY <2>1 DEF Promise!Next, Promise!Leave
<1>3. ASSUME NEW r \in Requests, AcquireAborted(r) \/ NextRequest(r)
      PROVE  UNCHANGED Promise!vars
  BY <1>0, <1>3 DEF AcquireAborted, Refuse, NextRequest, Held, Promise!vars
<1>4. ASSUME NEW i \in 1..Len(queue), Abandon(i)
      PROVE  Promise!Next
  <2>1. queue[i] \in Requests /\ status[queue[i]] = "queued"
    BY ElementOfSeq DEF IInv, TypeOK, QueueIsTheWaiters
  <2>2. Held' = Held /\ queue' = RemoveAt(queue, i)
    BY <1>0, <1>4, <2>1 DEF Abandon, Dequeue, Held
  <2> QED
    BY <2>2 DEF Promise!Next, Promise!GiveUp, RemoveAt, Promise!RemoveAt
<1>5. CASE DrainOne
  BY <1>5, DrainOneSimulates DEF Promise!Next
<1>6. CASE Close
  BY <1>0, <1>6 DEF Close, Held, Promise!Next, Promise!SendAway
<1>7. CASE DrainDone \/ UNCHANGED vars
  BY <1>7 DEF DrainDone, vars, Held, Promise!vars
<1> QED
  BY <1>1, <1>2, <1>3, <1>4, <1>5, <1>6, <1>7 DEF Next, ReleaseAgain, vars

\* The gate keeps its promise: bounded holders, and no overtaking.
THEOREM Refinement == Spec => ImplementsFairSemaphore
<1>1. Init => Promise!Init
  BY DEF Init, Promise!Init, Held
<1>2. IInv /\ [Next]_vars => [Promise!Next]_(Promise!vars)
  BY StepSimulates
<1> QED
  BY <1>1, <1>2, Invariance, PTL DEF Spec, ImplementsFairSemaphore, Promise!Spec
==============================================================================
