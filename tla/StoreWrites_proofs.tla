-------------------------- MODULE StoreWrites_proofs --------------------------
(***************************************************************************)
(* The optimistic concurrency of the store, for any number of requests,     *)
(* applications and lanes: whoever commits under an unchanged revision      *)
(* commits on top of what it read.                                          *)
(***************************************************************************)
EXTENDS StoreWrites, FiniteSetTheorems, SequenceTheorems, FunctionTheorems, TLAPS

\* A request that holds a snapshot.
Reading == {"calling", "locked", "stale", "writing", "planned", "retrying"}
Labels == Reading \cup {"arriving", "saved", "refused"}

Shape ==
  /\ pc \in [Requests -> Labels]
  /\ trash \in [Lanes -> SUBSET Requests]
  /\ revision \in [Lanes -> Nat]
  /\ baseTrash \in [Requests -> SUBSET Requests]
  /\ DOMAIN baseRev = Requests
  /\ DOMAIN expected = Requests

\* The snapshot of a request is never ahead of the account, and as long as the
\* account's revision stands, its trash is the one that was read.
Snapshot(r) ==
  /\ Account[r] \in DOMAIN baseRev[r]
  /\ baseRev[r][Account[r]] \in Nat
  /\ baseRev[r][Account[r]] <= revision[Account[r]]
  /\ baseRev[r][Account[r]] = revision[Account[r]] => baseTrash[r] = trash[Account[r]]

SnapshotsHonest == \A r \in Requests : pc[r] \in Reading => Snapshot(r)

\* The plan of a delete with a trash item expects the revision it read.
PlansGuarded ==
  \A r \in KeepTrash : pc[r] = "planned" =>
    /\ Account[r] \in DOMAIN expected[r]
    /\ expected[r][Account[r]] = baseRev[r][Account[r]]

IInv == Shape /\ SnapshotsHonest /\ PlansGuarded /\ TrashMatchesDeletes

USE DEF Labels, Reading

------------------------------------------------------------------------------
\* Reading a snapshot now makes it honest.
LEMMA CaptureIsHonest ==
  ASSUME NEW r \in Requests, Shape, CaptureBaseline(r), UNCHANGED <<trash, revision>>
  PROVE  /\ baseTrash' \in [Requests -> SUBSET Requests]
         /\ DOMAIN baseRev' = Requests
         /\ Snapshot(r)'
         /\ \A q \in Requests \ {r} : /\ baseRev'[q] = baseRev[q]
                                      /\ baseTrash'[q] = baseTrash[q]
<1>1. Account[r] \in Lanes
  BY StoreAssumption
<1>2. Account[r] \in LanesInScope(r)
  BY <1>1 DEF LanesInScope
<1>3. /\ DOMAIN baseRev' = Requests
      /\ baseRev'[r] = [l \in LanesInScope(r) |-> revision[l]]
      /\ \A q \in Requests \ {r} : baseRev'[q] = baseRev[q]
  BY DEF Shape, CaptureBaseline
<1>4. /\ baseTrash' \in [Requests -> SUBSET Requests]
      /\ baseTrash'[r] = trash[Account[r]]
      /\ \A q \in Requests \ {r} : baseTrash'[q] = baseTrash[q]
  BY <1>1 DEF Shape, CaptureBaseline
<1>5. baseRev'[r][Account[r]] = revision[Account[r]] /\ Account[r] \in DOMAIN baseRev'[r]
  BY <1>2, <1>3
<1>6. revision[Account[r]] \in Nat
  BY <1>1 DEF Shape
<1>7. Snapshot(r)'
  <2>1. revision' = revision /\ trash' = trash
    OBVIOUS
  <2>2. QED
    BY <1>4, <1>5, <1>6, <2>1 DEF Snapshot
<1>8. QED
  BY <1>3, <1>4, <1>7

\* A step that commits nothing and only moves requests within their snapshots.
LEMMA MovePreserves ==
  ASSUME IInv, NEW r \in Requests, NEW label \in Labels \ {"saved"},
         pc[r] # "saved", pc' = [pc EXCEPT ![r] = label],
         UNCHANGED <<trash, revision>>,
         baseTrash' \in [Requests -> SUBSET Requests], DOMAIN baseRev' = Requests,
         DOMAIN expected' = Requests,
         label \in Reading => Snapshot(r)',
         label = "planned" /\ r \in KeepTrash =>
           /\ Account[r] \in DOMAIN expected'[r]
           /\ expected'[r][Account[r]] = baseRev'[r][Account[r]],
         \A q \in Requests \ {r} : /\ baseRev'[q] = baseRev[q]
                                   /\ baseTrash'[q] = baseTrash[q]
                                   /\ expected'[q] = expected[q]
  PROVE  IInv'
<1>1. /\ trash' = trash /\ revision' = revision
      /\ pc' \in [Requests -> Labels] /\ pc'[r] = label
      /\ \A q \in Requests \ {r} : pc'[q] = pc[q]
  BY DEF IInv, Shape
<1>2. Shape'
  BY <1>1 DEF IInv, Shape
<1>3. SnapshotsHonest'
  <2>1. ASSUME NEW q \in Requests \ {r}, pc'[q] \in Reading
        PROVE  Snapshot(q)'
    <3>1. Snapshot(q)
      BY <1>1, <2>1 DEF IInv, SnapshotsHonest
    <3>2. QED
      BY <1>1, <3>1 DEF Snapshot
  <2>2. QED
    BY <1>1, <2>1 DEF SnapshotsHonest
<1>4. PlansGuarded'
  BY <1>1, StoreAssumption DEF IInv, PlansGuarded
<1>5. TrashMatchesDeletes'
  BY <1>1, StoreAssumption DEF IInv, TrashMatchesDeletes
<1>6. QED
  BY <1>2, <1>3, <1>4, <1>5 DEF IInv

------------------------------------------------------------------------------
LEMMA InitEstablishes == Init => IInv
<1>1. SUFFICES ASSUME Init PROVE IInv
  OBVIOUS
<1>2. Shape
  BY <1>1 DEF Init, Shape
<1>3. SnapshotsHonest /\ PlansGuarded
  BY <1>1, StoreAssumption DEF Init, SnapshotsHonest, PlansGuarded
<1>4. TrashMatchesDeletes
  BY <1>1, StoreAssumption DEF Init, TrashMatchesDeletes
<1>5. QED
  BY <1>2, <1>3, <1>4 DEF IInv

LEMMA HydratePreserves ==
  ASSUME IInv, NEW r \in Requests, Hydrate(r)
  PROVE  IInv'
<1>0. /\ Shape /\ pc[r] = "arriving" /\ UNCHANGED <<trash, revision>>
      /\ DOMAIN expected' = Requests /\ expected' = expected
  BY DEF IInv, Shape, Hydrate
<1>1. CASE Goto(r, "refused") /\ UNCHANGED <<apps, base, baseTrash, baseRev>>
  <2>1. /\ pc' = [pc EXCEPT ![r] = "refused"] /\ baseTrash' = baseTrash /\ baseRev' = baseRev
        /\ baseTrash' \in [Requests -> SUBSET Requests] /\ DOMAIN baseRev' = Requests
    BY <1>0, <1>1 DEF Goto, Shape
  <2>2. QED
    BY <1>0, <2>1, MovePreserves, "refused" \in Labels \ {"saved"}
<1>2. CASE CaptureBaseline(r) /\ Goto(r, "calling")
  <2>1. pc' = [pc EXCEPT ![r] = "calling"]
    BY <1>2 DEF Goto
  <2>2. QED
    BY <1>0, <1>2, <2>1, CaptureIsHonest, MovePreserves, "calling" \in Labels \ {"saved"}
<1>3. QED
  BY <1>1, <1>2 DEF Hydrate

\* A step on the way that touches neither the snapshots nor the plans.
LEMMA PassOnPreserves ==
  ASSUME IInv, NEW r \in Requests, NEW label \in {"locked", "stale", "writing", "retrying", "refused"},
         pc[r] \in Reading, Goto(r, label),
         UNCHANGED <<trash, revision, baseTrash, baseRev, expected>>
  PROVE  IInv'
<1>1. /\ Shape /\ pc[r] # "saved" /\ pc' = [pc EXCEPT ![r] = label]
      /\ baseTrash' = baseTrash /\ baseRev' = baseRev /\ expected' = expected
      /\ trash' = trash /\ revision' = revision
  BY DEF IInv, Goto
<1>2. Snapshot(r)'
  BY <1>1 DEF IInv, SnapshotsHonest, Snapshot
<1>3. /\ baseTrash' \in [Requests -> SUBSET Requests]
      /\ DOMAIN baseRev' = Requests /\ DOMAIN expected' = Requests
  BY <1>1 DEF Shape
<1>4. label \in Labels \ {"saved"} /\ label # "planned"
  OBVIOUS
<1>5. QED
  BY <1>1, <1>2, <1>3, <1>4, MovePreserves

LEMMA TakeLanesPreserves ==
  ASSUME IInv, NEW r \in Requests, TakeLanes(r)
  PROVE  IInv'
BY PassOnPreserves DEF TakeLanes

LEMMA CheckSnapshotPreserves ==
  ASSUME IInv, NEW r \in Requests, CheckSnapshot(r)
  PROVE  IInv'
<1>1. pc[r] \in Reading /\ UNCHANGED <<trash, revision, baseTrash, baseRev, expected>>
  BY DEF CheckSnapshot
<1>2. Goto(r, "writing") \/ Goto(r, "stale")
  BY DEF CheckSnapshot
<1>3. QED
  BY <1>1, <1>2, PassOnPreserves

LEMMA RebasePreserves ==
  ASSUME IInv, NEW r \in Requests, Rebase(r)
  PROVE  IInv'
<1>0. /\ Shape /\ pc[r] = "stale" /\ UNCHANGED <<trash, revision>>
      /\ DOMAIN expected' = Requests /\ expected' = expected
  BY DEF IInv, Shape, Rebase
<1>1. CASE Conflict(r)
  <2>1. /\ Goto(r, "retrying") \/ Goto(r, "refused")
        /\ UNCHANGED <<baseTrash, baseRev>>
    BY <1>1 DEF Conflict
  <2>2. QED
    BY <1>0, <2>1, PassOnPreserves
<1>2. CASE CaptureBaseline(r) /\ Goto(r, "writing")
  <2>1. pc' = [pc EXCEPT ![r] = "writing"]
    BY <1>2 DEF Goto
  <2>2. QED
    BY <1>0, <1>2, <2>1, CaptureIsHonest, MovePreserves, "writing" \in Labels \ {"saved"}
<1>3. QED
  BY <1>1, <1>2 DEF Rebase

LEMMA PlanWritePreserves ==
  ASSUME IInv, NEW r \in Requests, PlanWrite(r)
  PROVE  IInv'
<1>1. /\ Shape /\ pc[r] = "writing" /\ pc' = [pc EXCEPT ![r] = "planned"]
      /\ trash' = trash /\ revision' = revision
      /\ baseTrash' = baseTrash /\ baseRev' = baseRev
  BY DEF IInv, PlanWrite, Goto
<1>2. /\ DOMAIN expected' = Requests
      /\ \A q \in Requests \ {r} : expected'[q] = expected[q]
      /\ expected'[r] = [l \in ExtendedLanes(r) |->
           IF l \in PlanLanes(r) \cap DOMAIN baseRev[r] THEN baseRev[r][l] ELSE revision[l]]
  BY DEF IInv, Shape, PlanWrite
<1>3. Snapshot(r) /\ Snapshot(r)'
  BY <1>1 DEF IInv, SnapshotsHonest, Snapshot
<1>4. ASSUME r \in KeepTrash
      PROVE  /\ Account[r] \in DOMAIN expected'[r]
             /\ expected'[r][Account[r]] = baseRev'[r][Account[r]]
  <2>1. Account[r] \in PlanLanes(r)
    BY <1>4 DEF PlanLanes
  <2>2. Account[r] \in ExtendedLanes(r)
    BY <2>1 DEF ExtendedLanes
  <2>3. Account[r] \in DOMAIN baseRev[r]
    BY <1>3 DEF Snapshot
  <2>4. QED
    BY <1>1, <1>2, <2>1, <2>2, <2>3
<1>5. /\ baseTrash' \in [Requests -> SUBSET Requests] /\ DOMAIN baseRev' = Requests
      /\ pc[r] # "saved" /\ "planned" \in Labels \ {"saved"}
  BY <1>1 DEF Shape
<1>6. QED
  BY <1>1, <1>2, <1>3, <1>4, <1>5, MovePreserves

\* A commit on an unchanged revision adds its own trash item and loses none;
\* every other snapshot of the account is a revision behind from now on.
LEMMA CommitPreserves ==
  ASSUME IInv, NEW r \in Requests, Commit(r)
  PROVE  IInv'
<1>0. Account \in [Requests -> Lanes] /\ KeepTrash \subseteq Requests
  BY StoreAssumption
<1>1. /\ pc[r] = "planned" /\ pc' = [pc EXCEPT ![r] = "saved"]
      /\ baseTrash' = baseTrash /\ baseRev' = baseRev /\ expected' = expected
      /\ trash' = [trash EXCEPT ![Account[r]] = IF r \in KeepTrash THEN ProposedTrash(r) ELSE @]
      /\ revision' = [l \in Lanes |-> revision[l] + (IF l \in DOMAIN expected[r] THEN 1 ELSE 0)]
  BY DEF Commit, Goto
<1>2. Shape
  BY DEF IInv
<1>3. /\ pc' \in [Requests -> Labels] /\ pc'[r] = "saved"
      /\ \A q \in Requests \ {r} : pc'[q] = pc[q]
  BY <1>1, <1>2 DEF Shape
<1>4. /\ revision' \in [Lanes -> Nat]
      /\ \A l \in Lanes : revision[l] <= revision'[l]
      /\ \A l \in Lanes : l \in DOMAIN expected[r] => revision[l] < revision'[l]
  BY <1>1, <1>2 DEF Shape
<1>5. CASE r \in KeepTrash
  <2>1. /\ Account[r] \in DOMAIN expected[r]
        /\ expected[r][Account[r]] = baseRev[r][Account[r]]
    BY <1>1, <1>5 DEF IInv, PlansGuarded
  <2>2. revision[Account[r]] = baseRev[r][Account[r]]
    BY <2>1 DEF Commit, Expected
  <2>3. baseTrash[r] = trash[Account[r]]
    BY <1>1, <2>2 DEF IInv, SnapshotsHonest, Snapshot
  <2>4. /\ trash' \in [Lanes -> SUBSET Requests]
        /\ trash'[Account[r]] = trash[Account[r]] \cup {r}
        /\ \A l \in Lanes \ {Account[r]} : trash'[l] = trash[l]
    BY <1>0, <1>1, <1>2, <1>5, <2>3 DEF ProposedTrash, Shape
  <2>5. Shape'
    BY <1>1, <1>2, <1>3, <1>4, <2>4 DEF Shape
  <2>6. SnapshotsHonest'
    <3>1. SUFFICES ASSUME NEW q \in Requests, pc'[q] \in Reading PROVE Snapshot(q)'
      BY DEF SnapshotsHonest
    <3>2. q # r /\ Snapshot(q) /\ Account[q] \in Lanes
      BY <1>0, <1>3, <3>1 DEF IInv, SnapshotsHonest
    <3>3. CASE Account[q] = Account[r]
      BY <1>1, <1>2, <1>4, <2>1, <3>2, <3>3 DEF Snapshot, Shape
    <3>4. CASE Account[q] # Account[r]
      BY <1>1, <1>2, <1>4, <2>4, <3>2, <3>4 DEF Snapshot, Shape
    <3>5. QED
      BY <3>3, <3>4
  <2>7. PlansGuarded'
    BY <1>0, <1>1, <1>3 DEF IInv, PlansGuarded
  <2>8. TrashMatchesDeletes'
    BY <1>0, <1>1, <1>3, <1>5, <2>4 DEF IInv, TrashMatchesDeletes
  <2>9. QED
    BY <2>5, <2>6, <2>7, <2>8 DEF IInv
<1>6. CASE r \notin KeepTrash
  <2>1. trash' = trash
    BY <1>0, <1>1, <1>2, <1>6 DEF Shape
  <2>2. Shape'
    BY <1>1, <1>2, <1>3, <1>4, <2>1 DEF Shape
  <2>3. SnapshotsHonest'
    <3>1. SUFFICES ASSUME NEW q \in Requests, pc'[q] \in Reading PROVE Snapshot(q)'
      BY DEF SnapshotsHonest
    <3>2. q # r /\ Snapshot(q) /\ Account[q] \in Lanes
      BY <1>0, <1>3, <3>1 DEF IInv, SnapshotsHonest
    <3>3. QED
      BY <1>1, <1>2, <1>4, <2>1, <3>2 DEF Snapshot, Shape
  <2>4. PlansGuarded'
    BY <1>0, <1>1, <1>3 DEF IInv, PlansGuarded
  <2>5. TrashMatchesDeletes'
    BY <1>0, <1>3, <1>6, <2>1 DEF IInv, TrashMatchesDeletes
  <2>6. QED
    BY <2>2, <2>3, <2>4, <2>5 DEF IInv
<1>7. QED
  BY <1>5, <1>6

LEMMA CommitConflictPreserves ==
  ASSUME IInv, NEW r \in Requests, CommitConflict(r)
  PROVE  IInv'
<1>1. pc[r] \in Reading /\ UNCHANGED <<trash, revision, baseTrash, baseRev, expected>>
  BY DEF CommitConflict
<1>2. Goto(r, "stale") \/ Goto(r, "refused")
  BY DEF CommitConflict
<1>3. QED
  BY <1>1, <1>2, PassOnPreserves

LEMMA RetryEditPreserves ==
  ASSUME IInv, NEW r \in Requests, RetryEdit(r)
  PROVE  IInv'
<1>0. /\ Shape /\ pc[r] = "retrying" /\ trash' = trash /\ revision' = revision
      /\ DOMAIN expected' = Requests /\ expected' = expected
      /\ Account[r] \in Lanes
  BY StoreAssumption DEF IInv, Shape, RetryEdit
<1>1. CASE Goto(r, "refused") /\ UNCHANGED <<baseTrash, baseRev>>
  BY <1>0, <1>1, PassOnPreserves
<1>2. CASE /\ Goto(r, "calling")
           /\ baseTrash' = [baseTrash EXCEPT ![r] = trash[Account[r]]]
           /\ baseRev' = [baseRev EXCEPT ![r] = [l \in LanesInScope(r) |-> revision[l]]]
  <2>1. /\ baseTrash' \in [Requests -> SUBSET Requests] /\ DOMAIN baseRev' = Requests
        /\ baseTrash'[r] = trash[Account[r]] /\ baseRev'[r] = [l \in LanesInScope(r) |-> revision[l]]
        /\ \A q \in Requests \ {r} : baseRev'[q] = baseRev[q] /\ baseTrash'[q] = baseTrash[q]
    BY <1>0, <1>2 DEF Shape
  <2>0. Account[r] \in LanesInScope(r)
    BY DEF LanesInScope
  <2>2. Snapshot(r)'
    BY <1>0, <2>0, <2>1 DEF Snapshot, Shape
  <2>3. pc' = [pc EXCEPT ![r] = "calling"] /\ "calling" \in Labels \ {"saved"}
    BY <1>2 DEF Goto
  <2>4. QED
    BY <1>0, <2>1, <2>2, <2>3, MovePreserves
<1>3. QED
  BY <1>1, <1>2 DEF RetryEdit

LEMMA StepPreserves ==
  ASSUME IInv, [Next]_vars
  PROVE  IInv'
<1>1. CASE \E r \in Requests : Step(r)
  BY <1>1, HydratePreserves, TakeLanesPreserves, CheckSnapshotPreserves, RebasePreserves,
     PlanWritePreserves, CommitPreserves, CommitConflictPreserves, RetryEditPreserves
  DEF Step
<1>2. CASE UNCHANGED vars
  BY <1>2 DEF vars, IInv, Shape, SnapshotsHonest, Snapshot, PlansGuarded, TrashMatchesDeletes
<1>3. QED
  BY <1>1, <1>2 DEF Next, AllAnswered

------------------------------------------------------------------------------
(* The lists of a request, read as maps and made from maps. *)

Record == [id : Applications, edits : SUBSET Requests]
RowsTyped(f) == DOMAIN f \subseteq Applications /\ \A a \in DOMAIN f : f[a] \subseteq Requests

\* The elements of a finite set with different numbers can be counted in the
\* order of these.
Upto(D, number, a) == {b \in D : number[b] <= number[a]}

LEMMA Counting ==
  ASSUME NEW D, IsFiniteSet(D), NEW number, \A a \in D : number[a] \in Nat,
         \A a, b \in D : number[a] = number[b] => a = b
  PROVE  /\ Cardinality(D) \in Nat
         /\ \A a \in D : Cardinality(Upto(D, number, a)) \in 1..Cardinality(D)
         /\ \A a, b \in D : Cardinality(Upto(D, number, a)) = Cardinality(Upto(D, number, b)) => a = b
         /\ \A i \in 1..Cardinality(D) : \E a \in D : Cardinality(Upto(D, number, a)) = i
<1> DEFINE N == Cardinality(D)
           U(a) == Upto(D, number, a)
           rank == [a \in D |-> Cardinality(U(a))]
<1>1. N \in Nat
  BY FS_CardinalityType
<1>2. ASSUME NEW a \in D
      PROVE  IsFiniteSet(U(a)) /\ Cardinality(U(a)) \in 1..N /\ a \in U(a)
  <2>1. U(a) \in SUBSET D /\ a \in U(a)
    BY DEF Upto
  <2>2. IsFiniteSet(U(a)) /\ Cardinality(U(a)) <= N
    BY <2>1, FS_Subset
  <2>3. Cardinality(U(a)) \in Nat
    BY <2>2, FS_CardinalityType
  <2>4. Cardinality(U(a)) # 0
    BY <2>1, <2>2, FS_EmptySet
  <2>5. QED
    BY <1>1, <2>1, <2>2, <2>3, <2>4
<1>3. ASSUME NEW a \in D, NEW b \in D, number[a] <= number[b], Cardinality(U(a)) = Cardinality(U(b))
      PROVE  a = b
  <2>1. U(a) \in SUBSET U(b)
    BY <1>3 DEF Upto
  <2>2. U(a) = U(b)
    BY <1>2, <1>3, <2>1, FS_Subset
  <2>3. number[b] <= number[a]
    BY <1>2, <2>2 DEF Upto
  <2>4. QED
    BY <1>3, <2>3
<1> HIDE DEF N, U
<1>4. \A a, b \in D : Cardinality(U(a)) = Cardinality(U(b)) => a = b
  <2>1. \A a, b \in D : number[a] <= number[b] \/ number[b] <= number[a]
    OBVIOUS
  <2>2. QED
    BY <1>3, <2>1
<1>5. \A i \in 1..N : \E a \in D : Cardinality(U(a)) = i
  <2>1. IsFiniteSet(1..N) /\ Cardinality(1..N) = N
    BY <1>1, FS_Interval
  <2>2. rank \in Injection(D, 1..N)
    BY <1>2, <1>4 DEF Injection, IsInjective
  <2>3. rank \in Surjection(D, 1..N)
    BY <2>1, <2>2, FS_Injection DEF N
  <2>4. QED
    BY <2>3 DEF Surjection
<1>6. QED
  BY <1>1, <1>2, <1>4, <1>5 DEF N, U

\* A non-empty finite set of numbers has a largest one.
LEMMA LargestNumber ==
  ASSUME NEW S, S \subseteq Nat, IsFiniteSet(S), S # {}
  PROVE  \E i \in S : \A j \in S : j <= i
<1> DEFINE same == [i \in S |-> i]
<1>1. /\ \A a \in S : same[a] \in Nat
      /\ \A a, b \in S : same[a] = same[b] => a = b
  OBVIOUS
<1> HIDE DEF same
<1>2. Cardinality(S) \in 1..Cardinality(S)
  <2>1. Cardinality(S) \in Nat /\ Cardinality(S) # 0
    BY FS_CardinalityType, FS_EmptySet
  <2>2. QED
    BY <2>1
<1>0. \A k \in 1..Cardinality(S) : \E a \in S : Cardinality(Upto(S, same, a)) = k
  BY ONLY IsFiniteSet(S), <1>1, Counting
<1>3. PICK i \in S : Cardinality(Upto(S, same, i)) = Cardinality(S)
  BY <1>0, <1>2
<1>4. Upto(S, same, i) \in SUBSET S
  BY DEF Upto
<1>5. Upto(S, same, i) = S
  BY <1>3, <1>4, FS_Subset
<1>6. QED
  BY <1>5 DEF Upto, same

\* The last record of an id is in the list.
LEMMA LastIndexExists ==
  ASSUME NEW n \in Nat, NEW s, DOMAIN s \subseteq 1..n, NEW a \in Ids(s)
  PROVE  /\ LastIndex(s, a) \in DOMAIN s /\ s[LastIndex(s, a)].id = a
         /\ \A j \in DOMAIN s : s[j].id = a => j <= LastIndex(s, a)
<1> DEFINE S == {i \in DOMAIN s : s[i].id = a}
<1>1. S \in SUBSET (1..n) /\ S # {}
  BY DEF Ids
<1>2. S \subseteq Nat /\ IsFiniteSet(S)
  BY <1>1, FS_Subset, FS_Interval
<1>3. \E i \in S : \A j \in S : j <= i
  BY <1>1, <1>2, LargestNumber
<1>4. \E i \in DOMAIN s : s[i].id = a /\ \A j \in DOMAIN s : s[j].id = a => j <= i
  BY <1>3
<1>5. QED
  BY <1>4 DEF LastIndex

LEMMA MapOfAList ==
  ASSUME NEW n \in Nat, NEW s, DOMAIN s \subseteq 1..n, \A i \in DOMAIN s : s[i] \in Record
  PROVE  RowsTyped(AsMap(s)) /\ DOMAIN AsMap(s) = Ids(s)
<1>1. ASSUME NEW a \in Ids(s) PROVE a \in Applications /\ s[LastIndex(s, a)].edits \subseteq Requests
  BY <1>1, LastIndexExists DEF Record, Ids
<1>2. QED
  BY <1>1 DEF AsMap, RowsTyped

\* A list of rows holds each of them once, at its rank.
LEMMA ListOfRows ==
  ASSUME NEW f, DOMAIN f \subseteq Applications
  PROVE  LET s == Listed(f)
         IN  /\ Cardinality(DOMAIN f) \in Nat /\ DOMAIN s = 1..Cardinality(DOMAIN f)
             /\ s = [i \in 1..Cardinality(DOMAIN f) |-> s[i]]
             /\ \A i \in DOMAIN s : /\ s[i] = [id |-> s[i].id, edits |-> f[s[i].id]]
                                    /\ s[i].id \in DOMAIN f /\ Rank(f, s[i].id) = i
             /\ \A a \in DOMAIN f : Rank(f, a) \in DOMAIN s /\ s[Rank(f, a)].id = a
<1> DEFINE D == DOMAIN f
           N == Cardinality(D)
<1>1. /\ IsFiniteSet(D) /\ \A a \in D : Place[a] \in Nat
      /\ \A a, b \in D : Place[a] = Place[b] => a = b
  BY StoreAssumption, FS_Subset
<1>2. \A a : Rank(f, a) = Cardinality(Upto(D, Place, a))
  BY DEF Rank, Upto
<1>3. /\ N \in Nat
      /\ \A a \in D : Rank(f, a) \in 1..N
      /\ \A a, b \in D : Rank(f, a) = Rank(f, b) => a = b
      /\ \A i \in 1..N : \E a \in D : Rank(f, a) = i
  BY <1>1, <1>2, Counting
<1> DEFINE s == Listed(f)
<1>4. /\ DOMAIN s = 1..N
      /\ \A i \in 1..N : s[i] = [id |-> CHOOSE b \in D : Rank(f, b) = i,
                                 edits |-> f[CHOOSE b \in D : Rank(f, b) = i]]
      /\ s = [i \in 1..N |-> s[i]]
  BY DEF Listed
<1>5. \A i \in 1..N : s[i].id \in D /\ Rank(f, s[i].id) = i /\ s[i] = [id |-> s[i].id, edits |-> f[s[i].id]]
  BY <1>3, <1>4
<1> HIDE DEF s
<1>6. \A a \in D : Rank(f, a) \in 1..N /\ s[Rank(f, a)].id = a
  BY <1>3, <1>5
<1>7. QED
  BY <1>3, <1>4, <1>5, <1>6 DEF s

\* Read back as a map, the list is the rows again.
LEMMA ListedAsMap ==
  ASSUME NEW f, RowsTyped(f)
  PROVE  Listed(f) \in Seq(Record) /\ Ids(Listed(f)) = DOMAIN f
<1> DEFINE s == Listed(f)
<1>1. /\ Cardinality(DOMAIN f) \in Nat /\ DOMAIN s = 1..Cardinality(DOMAIN f)
      /\ s = [i \in 1..Cardinality(DOMAIN f) |-> s[i]]
      /\ \A i \in DOMAIN s : /\ s[i] = [id |-> s[i].id, edits |-> f[s[i].id]]
                             /\ s[i].id \in DOMAIN f /\ Rank(f, s[i].id) = i
      /\ \A a \in DOMAIN f : Rank(f, a) \in DOMAIN s /\ s[Rank(f, a)].id = a
  BY ListOfRows DEF RowsTyped
<1> HIDE DEF s
<1>2. \A i \in DOMAIN s : s[i] \in Record
  BY <1>1 DEF Record, RowsTyped
<1>3. s \in Seq(Record)
  BY <1>1, <1>2
<1>4. Ids(s) = DOMAIN f
  <2>1. \A i \in DOMAIN s : s[i].id \in DOMAIN f
    BY <1>1
  <2>2. \A a \in DOMAIN f : \E i \in DOMAIN s : s[i].id = a
    BY <1>1
  <2>3. QED
    BY <2>1, <2>2 DEF Ids
<1>5. QED
  BY <1>3, <1>4 DEF s

------------------------------------------------------------------------------
(* Types. *)

\* The types that TypeOK leaves out: what requests read and mean to write.
Typed ==
  /\ RowsTyped(content)
  /\ held \subseteq Requests \X SUBSET Lanes
  /\ tries \in [Requests -> 0..StoreRetries]
  /\ rounds \in [Requests -> 0..RouteRetries]
  /\ DOMAIN apps = Requests /\ \A r \in Requests : apps[r] \in Seq(Record)
  /\ DOMAIN base = Requests /\ \A r \in Requests : RowsTyped(base[r])
  /\ \A r \in Requests : pc[r] = "retrying" => r \notin Deletes /\ rounds[r] < RouteRetries

LEMMA RowsAreTyped ==
  ASSUME RowsTyped(content), NEW ids
  PROVE  RowsTyped(Rows(ids))
BY DEF Rows, RowsTyped

LEMMA AppsAsMap ==
  ASSUME Typed, NEW r \in Requests
  PROVE  RowsTyped(AsMap(apps[r])) /\ DOMAIN AsMap(apps[r]) = Ids(apps[r])
<1>1. apps[r] \in Seq(Record)
  BY DEF Typed
<1>2. Len(apps[r]) \in Nat /\ DOMAIN apps[r] = 1..Len(apps[r]) /\ \A i \in DOMAIN apps[r] : apps[r][i] \in Record
  BY <1>1
<1>3. QED
  BY <1>2, MapOfAList

LEMMA UpsertsTyped ==
  ASSUME Typed, NEW r \in Requests
  PROVE  /\ RowsTyped(AsMap(Upserts(r))) /\ DOMAIN AsMap(Upserts(r)) = Ids(Upserts(r))
         /\ Ids(Upserts(r)) \subseteq Applications
<1>1. apps[r] \in Seq(Record)
  BY DEF Typed
<1>2. /\ Len(apps[r]) \in Nat /\ DOMAIN Upserts(r) \subseteq 1..Len(apps[r])
      /\ \A i \in DOMAIN Upserts(r) : Upserts(r)[i] \in Record
  BY <1>1 DEF Upserts, Restrict
<1>3. QED
  BY <1>2, MapOfAList DEF RowsTyped

LEMMA MergedTyped ==
  ASSUME Typed, NEW r \in Requests, NEW latest, RowsTyped(latest)
  PROVE  RowsTyped(Merged(r, latest))
<1>1. RowsTyped(AsMap(apps[r])) /\ RowsTyped(base[r])
  BY AppsAsMap DEF Typed
<1>2. QED
  BY <1>1 DEF Merged, RowsTyped

LEMMA WrittenTyped ==
  ASSUME Typed, NEW r \in Requests
  PROVE  RowsTyped(Written(r))
BY UpsertsTyped DEF Written, RowsTyped, Typed

LEMMA PutAtTyped ==
  ASSUME NEW s \in Seq(Record), NEW i \in 1..(Len(s) + 1), NEW e \in Record
  PROVE  PutAt(s, i, e) \in Seq(Record)
<1>1. Len(s) \in Nat /\ DOMAIN s = 1..Len(s)
  OBVIOUS
<1>2. CASE i = Len(s) + 1
  <2>1. DOMAIN s \cup {i} = 1..(Len(s) + 1)
    BY <1>1, <1>2
  <2>2. PutAt(s, i, e) \in [1..(Len(s) + 1) -> Record]
    BY <1>1, <2>1 DEF PutAt
  <2>3. QED
    BY <1>1, <2>2
<1>3. CASE i \in 1..Len(s)
  <2>1. DOMAIN s \cup {i} = 1..Len(s)
    BY <1>1, <1>3
  <2>2. PutAt(s, i, e) \in [1..Len(s) -> Record]
    BY <1>1, <2>1 DEF PutAt
  <2>3. QED
    BY <1>1, <2>2
<1>4. QED
  BY <1>1, <1>2, <1>3

LEMMA LanesTyped ==
  ASSUME Typed, NEW r \in Requests
  PROVE  LanesToTake(r) \in SUBSET Lanes
BY UpsertsTyped, StoreAssumption DEF LanesToTake, PlanLanes

LEMMA StepKeepsTypes ==
  ASSUME IInv, Typed, NEW r \in Requests, Step(r)
  PROVE  Typed'
<1> DEFINE HeldTyped == held \subseteq Requests \X SUBSET Lanes
<1>0. /\ pc \in [Requests -> Labels]
      /\ RowsTyped(content) /\ HeldTyped
      /\ tries \in [Requests -> 0..StoreRetries] /\ rounds \in [Requests -> 0..RouteRetries]
      /\ DOMAIN apps = Requests /\ \A q \in Requests : apps[q] \in Seq(Record)
      /\ DOMAIN base = Requests /\ \A q \in Requests : RowsTyped(base[q])
      /\ \A q \in Requests : pc[q] = "retrying" => q \notin Deletes /\ rounds[q] < RouteRetries
      /\ StoreRetries \in Nat /\ RouteRetries \in Nat
      /\ Target[r] \in Applications /\ Latest(r) = Rows(InScope(r))
  BY StoreAssumption DEF IInv, Shape, Typed, Latest
<1>a. RowsTyped(Latest(r))
  BY <1>0, RowsAreTyped
<1>b. ASSUME ReleaseLanes(r) PROVE HeldTyped'
  BY <1>0, <1>b DEF ReleaseLanes
<1>1. CASE Hydrate(r)
  <2>1. /\ UNCHANGED <<held, tries, rounds, content>>
        /\ pc' = [pc EXCEPT ![r] = pc'[r]] /\ pc'[r] # "retrying"
    BY <1>0, <1>1 DEF Hydrate, Goto
  <2>2. CASE UNCHANGED <<apps, base>>
    BY <1>0, <2>1, <2>2 DEF Typed
  <2>3. CASE /\ Target[r] \in DOMAIN content /\ CaptureBaseline(r)
             /\ apps' = [apps EXCEPT ![r] =
                  IF r \in Deletes THEN <<>>
                  ELSE <<[id |-> Target[r], edits |-> content[Target[r]] \cup {r}]>>]
    <3>1. [id |-> Target[r], edits |-> content[Target[r]] \cup {r}] \in Record
      BY <1>0, <2>3 DEF Record, RowsTyped
    <3>2. <<[id |-> Target[r], edits |-> content[Target[r]] \cup {r}]>> \in Seq(Record) /\ <<>> \in Seq(Record)
      BY <3>1
    <3>3. DOMAIN apps' = Requests /\ \A q \in Requests : apps'[q] \in Seq(Record)
      BY <1>0, <2>3, <3>2
    <3>4. base' = [base EXCEPT ![r] = Latest(r)]
      BY <2>3 DEF CaptureBaseline
    <3>5. DOMAIN base' = Requests /\ \A q \in Requests : RowsTyped(base'[q])
      BY <1>0, <1>a, <3>4
    <3>6. QED
      BY <1>0, <2>1, <3>3, <3>5 DEF Typed, RowsTyped
  <2>4. QED
    BY <1>1, <2>2, <2>3 DEF Hydrate
<1>2. CASE TakeLanes(r)
  <2>1. /\ UNCHANGED <<rounds, content, apps, base>>
        /\ tries' = [tries EXCEPT ![r] = 0] /\ held' = held \cup {<<r, LanesToTake(r)>>}
        /\ pc' = [pc EXCEPT ![r] = "locked"]
    BY <1>2 DEF TakeLanes, Goto
  <2>2. HeldTyped'
    BY <1>0, <2>1, LanesTyped
  <2>3. tries' \in [Requests -> 0..StoreRetries]
    BY <1>0, <2>1
  <2>4. QED
    BY <1>0, <2>1, <2>2, <2>3 DEF Typed
<1>3. CASE CheckSnapshot(r)
  <2>1. /\ UNCHANGED <<held, tries, rounds, content, apps, base>>
        /\ pc' = [pc EXCEPT ![r] = pc'[r]] /\ pc'[r] # "retrying"
    BY <1>0, <1>3 DEF CheckSnapshot, Goto
  <2>2. QED
    BY <1>0, <2>1 DEF Typed
<1>4. CASE Rebase(r)
  <2>1. UNCHANGED <<tries, rounds, content>>
    BY <1>4 DEF Rebase
  <2>2. CASE Conflict(r)
    <3>1. HeldTyped' /\ UNCHANGED <<apps, base>>
      BY <1>b, <2>2 DEF Conflict
    <3>2. /\ pc' = [pc EXCEPT ![r] = pc'[r]]
          /\ pc'[r] = "retrying" => r \notin Deletes /\ rounds[r] < RouteRetries
      BY <1>0, <2>2 DEF Conflict, Goto, HandlerRetries
    <3>3. QED
      BY <1>0, <2>1, <3>1, <3>2 DEF Typed
  <2>3. CASE /\ apps' = [apps EXCEPT ![r] = Listed(Merged(r, Latest(r)))]
             /\ CaptureBaseline(r) /\ Goto(r, "writing") /\ UNCHANGED held
    <3>1. Listed(Merged(r, Latest(r))) \in Seq(Record)
      BY <1>a, MergedTyped, ListedAsMap
    <3>2. DOMAIN apps' = Requests /\ \A q \in Requests : apps'[q] \in Seq(Record)
      BY <1>0, <2>3, <3>1
    <3>3. base' = [base EXCEPT ![r] = Latest(r)] /\ pc' = [pc EXCEPT ![r] = "writing"]
      BY <2>3 DEF CaptureBaseline, Goto
    <3>4. DOMAIN base' = Requests /\ \A q \in Requests : RowsTyped(base'[q])
      BY <1>0, <1>a, <3>3
    <3>5. QED
      BY <1>0, <2>1, <2>3, <3>2, <3>3, <3>4 DEF Typed, RowsTyped
  <2>4. QED
    BY <1>4, <2>2, <2>3 DEF Rebase
<1>5. CASE PlanWrite(r)
  <2>1. /\ UNCHANGED <<held, tries, rounds, content, apps, base>> /\ pc' = [pc EXCEPT ![r] = "planned"]
    BY <1>5 DEF PlanWrite, Goto
  <2>2. QED
    BY <1>0, <2>1 DEF Typed
<1>6. CASE Commit(r)
  <2>1. /\ UNCHANGED <<tries, rounds, apps, base>> /\ content' = Written(r)
        /\ pc' = [pc EXCEPT ![r] = "saved"] /\ ReleaseLanes(r)
    BY <1>6 DEF Commit, Goto
  <2>2. RowsTyped(content')
    BY <2>1, WrittenTyped
  <2>3. QED
    BY <1>0, <1>b, <2>1, <2>2 DEF Typed
<1>7. CASE CommitConflict(r)
  <2>1. /\ UNCHANGED <<rounds, content, apps, base>>
        /\ pc' = [pc EXCEPT ![r] = pc'[r]] /\ pc'[r] # "retrying"
    BY <1>0, <1>7 DEF CommitConflict, Goto
  <2>2. HeldTyped'
    BY <1>0, <1>b, <1>7 DEF CommitConflict
  <2>3. tries' \in [Requests -> 0..StoreRetries]
    <3>1. (tries' = [tries EXCEPT ![r] = @ + 1] /\ tries[r] < StoreRetries) \/ UNCHANGED tries
      BY <1>7 DEF CommitConflict
    <3>2. CASE tries' = [tries EXCEPT ![r] = @ + 1] /\ tries[r] < StoreRetries
      <4>1. tries[r] \in Nat /\ tries[r] + 1 \in 0..StoreRetries
        BY <1>0, <3>2
      <4>2. QED
        BY <1>0, <3>2, <4>1
    <3>3. QED
      BY <1>0, <3>1, <3>2
  <2>4. QED
    BY <1>0, <2>1, <2>2, <2>3 DEF Typed
<1>8. CASE RetryEdit(r)
  <2>1. /\ UNCHANGED <<held, tries, content>> /\ pc[r] = "retrying"
        /\ pc' = [pc EXCEPT ![r] = pc'[r]] /\ pc'[r] # "retrying"
    BY <1>0, <1>8 DEF RetryEdit, Goto
  <2>2. CASE UNCHANGED <<apps, base, rounds>>
    BY <1>0, <2>1, <2>2 DEF Typed
  <2>3. CASE rounds' = [rounds EXCEPT ![r] = @ + 1] /\ ~UNCHANGED <<apps, base, rounds>>
    <3>1. rounds' \in [Requests -> 0..RouteRetries] /\ \A q \in Requests \ {r} : rounds'[q] = rounds[q]
      BY <1>0, <2>1, <2>3
    <3>2. /\ base' = [base EXCEPT ![r] = Rows(Workspace(r))] /\ Target[r] \in DOMAIN content
          /\ \E i \in 1..(Len(Listed(Rows(Workspace(r)))) + 1) :
               apps' = [apps EXCEPT ![r] = PutAt(Listed(Rows(Workspace(r))), i,
                          [id |-> Target[r], edits |-> content[Target[r]] \cup {r}])]
      BY <1>8, <2>3 DEF RetryEdit
    <3>3. RowsTyped(Rows(Workspace(r)))
      BY <1>0, RowsAreTyped
    <3>4. Listed(Rows(Workspace(r))) \in Seq(Record)
      BY <3>3, ListedAsMap
    <3>5. [id |-> Target[r], edits |-> content[Target[r]] \cup {r}] \in Record
      BY <1>0, <3>2 DEF Record, RowsTyped
    <3>6. apps' = [apps EXCEPT ![r] = apps'[r]] /\ apps'[r] \in Seq(Record)
      BY <1>0, <3>2, <3>4, <3>5, PutAtTyped
    <3>7. DOMAIN apps' = Requests /\ \A q \in Requests : apps'[q] \in Seq(Record)
      BY <1>0, <3>6
    <3>8. DOMAIN base' = Requests /\ \A q \in Requests : RowsTyped(base'[q])
      BY <1>0, <3>2, <3>3
    <3>9. QED
      BY <1>0, <2>1, <3>1, <3>7, <3>8 DEF Typed, RowsTyped
  <2>4. QED
    BY <1>8, <2>2, <2>3 DEF RetryEdit
<1>9. QED
  BY <1>1, <1>2, <1>3, <1>4, <1>5, <1>6, <1>7, <1>8 DEF Step

LEMMA TypesInductive ==
  /\ Init => Typed
  /\ IInv /\ Typed /\ [Next]_vars => Typed'
<1>1. ASSUME Init PROVE Typed
  BY <1>1, StoreAssumption DEF Init, Typed, RowsTyped
<1>2. ASSUME IInv, Typed, [Next]_vars PROVE Typed'
  <2>1. CASE UNCHANGED vars
    BY <1>2, <2>1 DEF vars, Typed, RowsTyped
  <2>2. CASE \E r \in Requests : Step(r)
    BY <1>2, <2>2, StepKeepsTypes
  <2>3. QED
    BY <1>2, <2>1, <2>2 DEF Next, AllAnswered
<1>3. QED
  BY <1>1, <1>2

------------------------------------------------------------------------------
(* What a request means to write. *)

\* No retry of an edit takes a wrong index: the handler does not retry, or an
\* edit is about the first application of its account (finding 2).
RightIndex ==
  \A r \in Requests \ Deletes :
    RouteRetries = 0 \/ \A a \in Workspace(r) : Place[Target[r]] <= Place[a]

Waiting == {"locked", "stale", "writing", "planned"}

\* The list s holds each of the rows f once, the edit added to its target, and
\* the target first.
EditList(r, f, s) ==
  /\ Target[r] \in DOMAIN f /\ r \notin f[Target[r]]
  /\ \A i \in DOMAIN s :
       /\ s[i].id \in DOMAIN f
       /\ s[i].edits = IF s[i].id = Target[r] THEN f[Target[r]] \cup {r} ELSE f[s[i].id]
  /\ \A i, j \in DOMAIN s : s[i].id = s[j].id => i = j
  /\ \A a \in DOMAIN f : \E i \in DOMAIN s : s[i].id = a
  /\ 1 \in DOMAIN s /\ s[1].id = Target[r]

\* What an edit means to write: its snapshot, with the edit in its target.
EditsItsTarget(r) == DOMAIN base[r] \subseteq InScope(r) /\ EditList(r, base[r], apps[r])

\* A delete has dropped its target, or has found it gone, and nobody brings an
\* application back.
DropsItsTarget(r) ==
  /\ rounds[r] = 0 /\ apps[r] = <<>>
  /\ DOMAIN base[r] \subseteq {Target[r]}
  /\ Target[r] \notin DOMAIN base[r] => Target[r] \notin DOMAIN content

\* As long as the account's revision stands, its rows are those that were read.
BaseHonest(r) ==
  baseRev[r][Account[r]] = revision[Account[r]] => base[r] = Rows(InScope(r))

PlanFits(r) ==
  /\ DOMAIN expected[r] \subseteq {Account[r]}
  /\ r \notin Deletes => /\ Account[r] \in DOMAIN expected[r]
                         /\ expected[r][Account[r]] = baseRev[r][Account[r]]
  /\ r \in Deletes /\ Target[r] \in DOMAIN content => Account[r] \in DOMAIN expected[r]

\* The lanes a request is granted.
Granted(r) == IF r \in Deletes \ KeepTrash THEN {SettingsLane} ELSE {Account[r]}

Local(r) ==
  /\ pc[r] # "saved" => \A a \in DOMAIN content : r \notin content[a]
  /\ pc[r] = "arriving" => rounds[r] = 0
  /\ pc[r] \in Reading => /\ r \notin Deletes => EditsItsTarget(r)
                          /\ r \in Deletes => DropsItsTarget(r)
                          /\ BaseHonest(r)
  /\ pc[r] \in Waiting => <<r, Granted(r)>> \in held
  /\ pc[r] = "planned" => PlanFits(r)

Consistent == \A r \in Requests : Local(r)
------------------------------------------------------------------------------
\* An edit writes its target and nothing else, under its account's lane.
LEMMA PlanOfAnEdit ==
  ASSUME Typed, NEW r \in Requests \ Deletes, EditsItsTarget(r)
  PROVE  /\ Ids(apps[r]) = DOMAIN base[r] /\ DeletedIds(r) = {}
         /\ \A a \in DOMAIN base[r] :
              AsMap(apps[r])[a] = IF a = Target[r] THEN base[r][a] \cup {r} ELSE base[r][a]
         /\ DOMAIN AsMap(Upserts(r)) = {Target[r]}
         /\ AsMap(Upserts(r))[Target[r]] = base[r][Target[r]] \cup {r}
         /\ PlanLanes(r) = {Account[r]} /\ LanesToTake(r) = Granted(r)
         /\ ExtendedLanes(r) = {Account[r]}
<1> DEFINE T == Target[r]
           s == apps[r]
           f == base[r]
<1>1. /\ T \in DOMAIN f /\ r \notin f[T] /\ 1 \in DOMAIN s /\ s[1].id = T
      /\ \A i \in DOMAIN s : /\ s[i].id \in DOMAIN f
                             /\ s[i].edits = IF s[i].id = T THEN f[T] \cup {r} ELSE f[s[i].id]
      /\ \A i, j \in DOMAIN s : s[i].id = s[j].id => i = j
      /\ \A a \in DOMAIN f : \E i \in DOMAIN s : s[i].id = a
  BY DEF EditsItsTarget, EditList
<1> HIDE DEF s, f, T
<1>2. Ids(s) = DOMAIN f
  <2>1. \A i \in DOMAIN s : s[i].id \in DOMAIN f
    BY <1>1
  <2>2. \A a \in DOMAIN f : \E i \in DOMAIN s : s[i].id = a
    BY <1>1
  <2>3. QED
    BY <2>1, <2>2 DEF Ids
<1>3. ASSUME NEW t, DOMAIN t \subseteq DOMAIN s, \A i \in DOMAIN t : t[i] = s[i], NEW i \in DOMAIN t
      PROVE  LastIndex(t, s[i].id) = i
  <2>1. \A j \in DOMAIN t : t[j].id = s[i].id => j = i
    BY <1>1, <1>3
  <2>2. i \in Nat
    BY <1>3 DEF Typed, s
  <2>3. t[i].id = s[i].id /\ i <= i
    BY <1>3, <2>2
  <2>4. QED
    BY <2>1, <2>3 DEF LastIndex
<1>4. ASSUME NEW a \in DOMAIN f
      PROVE  AsMap(s)[a] = IF a = T THEN f[a] \cup {r} ELSE f[a]
  <2>1. PICK i \in DOMAIN s : s[i].id = a
    BY <1>1
  <2>2. LastIndex(s, a) = i
    BY <1>3, <2>1
  <2>3. AsMap(s)[a] = s[i].edits
    BY <1>2, <2>2 DEF AsMap
  <2>4. QED
    BY <1>1, <2>1, <2>3
<1>5. Upserts(r) = [i \in {1} |-> s[i]]
  <2>1. \A i \in DOMAIN s : At(f, s[i].id) # s[i].edits <=> i = 1
    BY <1>1 DEF At
  <2>2. {i \in DOMAIN s : At(f, s[i].id) # s[i].edits} = {1}
    BY <1>1, <2>1
  <2>3. QED
    BY <2>2 DEF Upserts, Restrict, s, f
<1> DEFINE up == Upserts(r)
<1>6. DOMAIN up = {1} /\ up[1] = s[1]
  BY <1>5
<1> HIDE DEF up
<1>7. Ids(up) = {T}
  BY <1>1, <1>6 DEF Ids
<1>8. AsMap(up)[T] = f[T] \cup {r} /\ DOMAIN AsMap(up) = {T}
  <2>1. LastIndex(up, T) = 1
    BY <1>1, <1>3, <1>6
  <2>2. QED
    BY <1>1, <1>6, <1>7, <2>1 DEF AsMap
<1>9. PlanLanes(r) = {Account[r]}
  BY <1>7, StoreAssumption DEF PlanLanes, up, T
<1>10. DeletedIds(r) = {}
  BY <1>2 DEF DeletedIds, s, f
<1>11. LanesToTake(r) = Granted(r) /\ ExtendedLanes(r) = {Account[r]}
  BY <1>9, <1>10 DEF LanesToTake, ExtendedLanes, Granted
<1>12. QED
  BY <1>2, <1>4, <1>8, <1>9, <1>10, <1>11 DEF s, f, T, up

\* A delete writes nothing but the trash, and removes at most its target.
LEMMA PlanOfADelete ==
  ASSUME Typed, NEW r \in Deletes, DropsItsTarget(r)
  PROVE  /\ DOMAIN AsMap(Upserts(r)) = {} /\ DOMAIN AsMap(apps[r]) = {}
         /\ DeletedIds(r) = DOMAIN base[r]
         /\ LanesToTake(r) = Granted(r)
         /\ ExtendedLanes(r) \subseteq {Account[r]}
         /\ DOMAIN base[r] \cap DOMAIN content # {} => Account[r] \in ExtendedLanes(r)
<1>1. apps[r] = <<>> /\ DOMAIN base[r] \subseteq {Target[r]}
  BY DEF DropsItsTarget
<1>2. DOMAIN Upserts(r) = {} /\ Ids(apps[r]) = {}
  BY <1>1 DEF Upserts, Restrict, Ids
<1>3. Ids(Upserts(r)) = {}
  BY <1>2 DEF Ids
<1>4. DeletedIds(r) = DOMAIN base[r]
  BY <1>2 DEF DeletedIds
<1>5. PlanLanes(r) = IF r \in KeepTrash THEN {Account[r]} ELSE {}
  BY <1>3 DEF PlanLanes
<1>6. AppLane[Target[r]] = Account[r]
  BY StoreAssumption
<1>7. /\ ExtendedLanes(r) \subseteq {Account[r]}
      /\ DOMAIN base[r] \cap DOMAIN content # {} => Account[r] \in ExtendedLanes(r)
  BY <1>1, <1>4, <1>5, <1>6 DEF ExtendedLanes
<1>8. QED
  BY <1>2, <1>3, <1>4, <1>5, <1>7 DEF AsMap, LanesToTake, Granted

\* Without a conflict, the target is as the edit found it; the merge adds the
\* edit to the latest rows.
LEMMA MergeOfAnEdit ==
  ASSUME Typed, NEW r \in Requests \ Deletes, EditsItsTarget(r),
         NEW latest, RowsTyped(latest), \A a \in DOMAIN latest : r \notin latest[a],
         Conflicting(r, latest) = {}
  PROVE  /\ Target[r] \in DOMAIN latest
         /\ Merged(r, latest) =
              [a \in DOMAIN latest |-> IF a = Target[r] THEN latest[a] \cup {r} ELSE latest[a]]
<1> DEFINE T == Target[r]
           mine == AsMap(apps[r])
<1>1. /\ T \in DOMAIN base[r] /\ r \notin base[r][T] /\ DOMAIN mine = DOMAIN base[r]
      /\ \A a \in DOMAIN base[r] : mine[a] = IF a = T THEN base[r][a] \cup {r} ELSE base[r][a]
  BY PlanOfAnEdit, AppsAsMap DEF EditsItsTarget, EditList
<1>2. base[r][T] \subseteq Requests /\ r \in Requests /\ "absent" \notin Requests
  BY <1>1, StoreAssumption DEF Typed, RowsTyped
<1> HIDE DEF mine, T
<1>3. mine[T] # base[r][T] /\ r \in mine[T]
  BY <1>1
<1>4. At(latest, T) = base[r][T]
  <2>1. ~(At(latest, T) # base[r][T] /\ At(mine, T) # base[r][T] /\ At(latest, T) # At(mine, T))
    BY <1>1 DEF Conflicting, mine
  <2>2. At(mine, T) = mine[T]
    BY <1>1 DEF At
  <2>3. At(latest, T) # mine[T]
    BY <1>2, <1>3 DEF At, Absent
  <2>4. QED
    BY <1>3, <2>1, <2>2, <2>3
<1>5. T \in DOMAIN latest /\ latest[T] = base[r][T]
  BY <1>2, <1>4 DEF At, Absent
<1>6. {a \in DOMAIN base[r] : At(mine, a) # base[r][a]} = {T}
  BY <1>1, <1>3 DEF At
<1>7. Merged(r, latest) =
        [a \in (DOMAIN latest \ {T}) \cup ({T} \cap DOMAIN mine) |->
           IF a \in {T} THEN mine[a] ELSE latest[a]]
  BY <1>6 DEF Merged, mine
<1>8. (DOMAIN latest \ {T}) \cup ({T} \cap DOMAIN mine) = DOMAIN latest
  BY <1>1, <1>5
<1>9. \A a \in DOMAIN latest : (IF a \in {T} THEN mine[a] ELSE latest[a])
                               = (IF a = T THEN latest[a] \cup {r} ELSE latest[a])
  BY <1>1, <1>5
<1>10. Merged(r, latest) = [a \in DOMAIN latest |-> IF a = T THEN latest[a] \cup {r} ELSE latest[a]]
  BY <1>7, <1>8, <1>9
<1>11. QED
  BY <1>5, <1>10 DEF T

LEMMA MergeOfADelete ==
  ASSUME Typed, NEW r \in Deletes, DropsItsTarget(r)
  PROVE  Listed(Merged(r, Latest(r))) = <<>>
<1> DEFINE T == Target[r]
           mine == AsMap(apps[r])
           changed == {a \in DOMAIN base[r] : At(mine, a) # base[r][a]}
<1>1. /\ DOMAIN mine = {} /\ DOMAIN base[r] \subseteq {T}
      /\ T \notin DOMAIN base[r] => T \notin DOMAIN content
  BY PlanOfADelete DEF DropsItsTarget
<1>2. DOMAIN Latest(r) \subseteq {T} \cap DOMAIN content
  BY DEF Latest, Rows, InScope, DropsItsTarget
<1>3. changed = DOMAIN base[r]
  <2>1. \A a \in DOMAIN base[r] : base[r][a] \subseteq Requests
    BY StoreAssumption DEF Typed, RowsTyped
  <2>2. \A a \in DOMAIN base[r] : At(mine, a) = {"absent"}
    BY <1>1 DEF At, Absent
  <2>3. "absent" \notin Requests
    BY StoreAssumption
  <2>4. QED
    BY <2>1, <2>2, <2>3
<1> HIDE DEF mine, changed
<1>4. DOMAIN Merged(r, Latest(r)) = (DOMAIN Latest(r) \ changed) \cup (changed \cap DOMAIN mine)
  BY DEF Merged, mine, changed
<1>5. DOMAIN Merged(r, Latest(r)) = {}
  BY <1>1, <1>2, <1>3, <1>4
<1> DEFINE f == Merged(r, Latest(r))
<1> HIDE DEF f
<1>6. DOMAIN f = {}
  BY <1>5 DEF f
<1>7. Cardinality(DOMAIN f) = 0 /\ RowsTyped(f)
  BY <1>6, FS_EmptySet DEF RowsTyped
<1>8. Listed(f) \in Seq(Record) /\ DOMAIN Listed(f) = {}
  BY <1>7, ListedAsMap DEF Listed
<1>9. QED
  BY <1>8 DEF f

First(r, f) == \A a \in DOMAIN f : Place[Target[r]] <= Place[a]

LEMMA FirstRank ==
  ASSUME NEW r \in Requests, NEW f, DOMAIN f \subseteq Applications,
         Target[r] \in DOMAIN f, First(r, f)
  PROVE  Rank(f, Target[r]) = 1
<1> DEFINE T == Target[r]
<1>1. {b \in DOMAIN f : Place[b] <= Place[T]} = {T}
  <2>1. \A b \in DOMAIN f : Place[b] \in Nat
    BY StoreAssumption
  <2>2. \A b \in DOMAIN f : Place[b] <= Place[T] => Place[b] = Place[T]
    BY <2>1 DEF First
  <2>3. QED
    BY <2>1, <2>2, StoreAssumption
<1>2. QED
  BY <1>1, FS_Singleton DEF Rank

\* The list of rows with the edit merged in, whether merged before it is listed
\* (a rebase) or put in its place afterwards (a retry).
LEMMA ListWithEdit ==
  ASSUME NEW r \in Requests, NEW f, RowsTyped(f), Target[r] \in DOMAIN f, First(r, f),
         r \notin f[Target[r]]
  PROVE  /\ EditList(r, f, Listed([a \in DOMAIN f |-> IF a = Target[r] THEN f[a] \cup {r} ELSE f[a]]))
         /\ EditList(r, f, PutAt(Listed(f), 1, [id |-> Target[r], edits |-> f[Target[r]] \cup {r}]))
<1> DEFINE T == Target[r]
           g == [a \in DOMAIN f |-> IF a = T THEN f[a] \cup {r} ELSE f[a]]
           s == Listed(g)
           t == Listed(f)
           u == PutAt(t, 1, [id |-> T, edits |-> f[T] \cup {r}])
<1>0. DOMAIN f \subseteq Applications /\ DOMAIN g = DOMAIN f
  BY DEF RowsTyped
<1>1. /\ DOMAIN s = 1..Cardinality(DOMAIN f)
      /\ \A i \in DOMAIN s : /\ s[i] = [id |-> s[i].id, edits |-> g[s[i].id]]
                             /\ s[i].id \in DOMAIN f /\ Rank(g, s[i].id) = i
      /\ \A a \in DOMAIN f : Rank(g, a) \in DOMAIN s /\ s[Rank(g, a)].id = a
  BY <1>0, ListOfRows
<1>2. /\ DOMAIN t = 1..Cardinality(DOMAIN f)
      /\ \A i \in DOMAIN t : /\ t[i] = [id |-> t[i].id, edits |-> f[t[i].id]]
                             /\ t[i].id \in DOMAIN f /\ Rank(f, t[i].id) = i
      /\ \A a \in DOMAIN f : Rank(f, a) \in DOMAIN t /\ t[Rank(f, a)].id = a
  BY <1>0, ListOfRows
<1>3. Rank(f, T) = 1 /\ Rank(g, T) = 1
  BY <1>0, FirstRank DEF First
<1>4. /\ DOMAIN u = DOMAIN t /\ u[1] = [id |-> T, edits |-> f[T] \cup {r}]
      /\ \A i \in DOMAIN t : i # 1 => u[i] = t[i]
  BY <1>2, <1>3 DEF PutAt
<1>g. \A a \in DOMAIN f : g[a] = IF a = T THEN f[T] \cup {r} ELSE f[a]
  OBVIOUS
<1> HIDE DEF s, t, u, g
<1>5. EditList(r, f, s)
  <2>1. \A i \in DOMAIN s : /\ s[i].id \in DOMAIN f
                            /\ s[i].edits = IF s[i].id = T THEN f[T] \cup {r} ELSE f[s[i].id]
    <3>1. \A i \in DOMAIN s : s[i].id \in DOMAIN f /\ s[i].edits = g[s[i].id]
      BY <1>1
    <3>2. QED
      BY <3>1, <1>g
  <2>2. \A i, j \in DOMAIN s : s[i].id = s[j].id => i = j
    BY <1>1
  <2>3. 1 \in DOMAIN s /\ s[1].id = T
    BY <1>1, <1>3
  <2>4. \A a \in DOMAIN f : \E i \in DOMAIN s : s[i].id = a
    BY <1>1
  <2>5. QED
    BY <2>1, <2>2, <2>3, <2>4 DEF EditList
<1>6. EditList(r, f, u)
  <2>0. t[1].id = T /\ 1 \in DOMAIN t
    BY <1>2, <1>3
  <2>1. \A i \in DOMAIN u : u[i].id = t[i].id
    BY <1>4, <2>0
  <2>2. \A i, j \in DOMAIN u : u[i].id = u[j].id => i = j
    BY <1>2, <1>4, <2>1
  <2>3. \A i \in DOMAIN u : /\ u[i].id \in DOMAIN f
                            /\ u[i].edits = IF u[i].id = T THEN f[T] \cup {r} ELSE f[u[i].id]
    <3>1. SUFFICES ASSUME NEW i \in DOMAIN u
                   PROVE  /\ u[i].id \in DOMAIN f
                          /\ u[i].edits = IF u[i].id = T THEN f[T] \cup {r} ELSE f[u[i].id]
      OBVIOUS
    <3>2. CASE i = 1
      BY <1>4, <3>2
    <3>3. CASE i # 1
      <4>1. t[i].id # T
        BY <1>2, <1>4, <2>0, <3>3
      <4>2. QED
        BY <1>2, <1>4, <3>3, <4>1
    <3>4. QED
      BY <3>2, <3>3
  <2>4. \A a \in DOMAIN f : \E i \in DOMAIN u : u[i].id = a
    BY <1>2, <1>4, <2>1
  <2>5. QED
    BY <1>4, <2>0, <2>1, <2>2, <2>3, <2>4 DEF EditList
<1>7. QED
  BY <1>5, <1>6 DEF s, t, u, g

\* In the scope of its snapshots an edit's target comes first.
LEMMA TargetIsFirst ==
  ASSUME RightIndex, Typed, NEW r \in Requests \ Deletes, NEW f,
         DOMAIN f \subseteq IF RouteRetries = 0 THEN {Target[r]} ELSE Workspace(r)
  PROVE  First(r, f)
<1>1. Place[Target[r]] \in Nat
  BY StoreAssumption
<1>2. QED
  BY <1>1 DEF RightIndex, First

LEMMA ScopeFits ==
  ASSUME Typed, NEW r \in Requests
  PROVE  /\ InScope(r) \subseteq Workspace(r) /\ Target[r] \in InScope(r)
         /\ InScope(r) \subseteq IF RouteRetries = 0 THEN {Target[r]} ELSE Workspace(r)
<1>1. Target[r] \in Workspace(r)
  BY StoreAssumption DEF Workspace
<1>2. rounds[r] \in 0..RouteRetries /\ RouteRetries \in Nat
  BY StoreAssumption DEF Typed
<1>3. RouteRetries = 0 => rounds[r] = 0
  BY <1>2
<1>4. QED
  BY <1>1, <1>3 DEF InScope

\* Nothing that happens to others, and commits nothing, disturbs a request.
LEMMA LeftAlone ==
  ASSUME NEW q \in Requests, Local(q), UNCHANGED <<content, revision>>,
         pc'[q] = pc[q], apps'[q] = apps[q], base'[q] = base[q], baseRev'[q] = baseRev[q],
         expected'[q] = expected[q], rounds'[q] = rounds[q],
         <<q, Granted(q)>> \in held => <<q, Granted(q)>> \in held'
  PROVE  Local(q)'
<1>1. InScope(q)' = InScope(q) /\ Rows(InScope(q))' = Rows(InScope(q))
  BY DEF InScope, Rows
<1>2. /\ pc'[q] # "saved" => \A a \in DOMAIN content' : q \notin content'[a]
      /\ pc'[q] = "arriving" => rounds'[q] = 0
      /\ pc'[q] \in Waiting => <<q, Granted(q)>> \in held'
  BY DEF Local
<1>3. BaseHonest(q) => BaseHonest(q)'
  BY <1>1 DEF BaseHonest
<1>4. EditsItsTarget(q) => EditsItsTarget(q)'
  <2>1. EditList(q, base[q], apps[q]) => EditList(q, base'[q], apps'[q])
    OBVIOUS
  <2>2. QED
    BY <1>1, <2>1 DEF EditsItsTarget
<1>5. DropsItsTarget(q) => DropsItsTarget(q)'
  BY DEF DropsItsTarget
<1>6. PlanFits(q) => PlanFits(q)'
  BY DEF PlanFits
<1>7. QED
  BY <1>2, <1>3, <1>4, <1>5, <1>6 DEF Local

------------------------------------------------------------------------------
(* Each step keeps it. *)

USE DEF Waiting

\* A step is one request's: it leaves what belongs to the others.
LEMMA StepFrame ==
  ASSUME IInv, Typed, NEW r \in Requests, Step(r), NEW q \in Requests \ {r}
  PROVE  /\ pc'[q] = pc[q] /\ apps'[q] = apps[q] /\ base'[q] = base[q]
         /\ baseRev'[q] = baseRev[q] /\ expected'[q] = expected[q] /\ rounds'[q] = rounds[q]
         /\ <<q, Granted(q)>> \in held => <<q, Granted(q)>> \in held'
<1>1. /\ pc \in [Requests -> Labels] /\ DOMAIN apps = Requests /\ DOMAIN base = Requests
      /\ DOMAIN baseRev = Requests /\ DOMAIN expected = Requests /\ DOMAIN rounds = Requests
  BY DEF IInv, Shape, Typed
<1>2. pc'[q] = pc[q]
  BY <1>1, Zenon DEF Step, Hydrate, TakeLanes, CheckSnapshot, Rebase, Conflict, PlanWrite, Commit,
     CommitConflict, RetryEdit, Goto
<1>3. apps'[q] = apps[q] /\ base'[q] = base[q] /\ baseRev'[q] = baseRev[q]
  BY <1>1, Zenon DEF Step, Hydrate, TakeLanes, CheckSnapshot, Rebase, Conflict, PlanWrite, Commit,
     CommitConflict, RetryEdit, CaptureBaseline
<1>4. expected'[q] = expected[q] /\ rounds'[q] = rounds[q]
  BY <1>1, Zenon DEF Step, Hydrate, TakeLanes, CheckSnapshot, Rebase, PlanWrite, Commit,
     CommitConflict, RetryEdit
<1>5. UNCHANGED held \/ ReleaseLanes(r) \/ TakeLanes(r)
  BY Zenon DEF Step, Hydrate, CheckSnapshot, Rebase, Conflict, PlanWrite, Commit,
     CommitConflict, RetryEdit
<1>6. <<q, Granted(q)>> \in held => <<q, Granted(q)>> \in held'
  BY <1>5 DEF ReleaseLanes, TakeLanes
<1>7. QED
  BY <1>2, <1>3, <1>4, <1>6

\* A request moves on with its snapshot and its list as they are.
LEMMA MoveOn ==
  ASSUME NEW r \in Requests, Local(r), pc[r] \in Reading, UNCHANGED <<content, revision>>,
         pc'[r] \in (Reading \ {"planned"}) \cup {"refused"},
         apps'[r] = apps[r], base'[r] = base[r], baseRev'[r] = baseRev[r], rounds'[r] = rounds[r],
         pc'[r] \in Waiting => <<r, Granted(r)>> \in held'
  PROVE  Local(r)'
<1>1. InScope(r)' = InScope(r) /\ Rows(InScope(r))' = Rows(InScope(r))
  BY DEF InScope, Rows
<1>2. /\ pc'[r] # "saved" /\ pc'[r] # "arriving" /\ pc'[r] # "planned"
      /\ \A a \in DOMAIN content' : r \notin content'[a]
      /\ r \notin Deletes => EditsItsTarget(r)
      /\ r \in Deletes => DropsItsTarget(r)
      /\ BaseHonest(r)
  BY DEF Local
<1>3. BaseHonest(r)'
  BY <1>1, <1>2 DEF BaseHonest
<1>4. ASSUME EditsItsTarget(r) PROVE EditsItsTarget(r)'
  <2>1. EditList(r, base'[r], apps'[r]) /\ DOMAIN base'[r] \subseteq InScope(r)
    BY <1>4 DEF EditsItsTarget
  <2>2. QED
    BY <1>1, <2>1 DEF EditsItsTarget
<1>5. DropsItsTarget(r) => DropsItsTarget(r)'
  BY DEF DropsItsTarget
<1>6. QED
  BY <1>2, <1>3, <1>4, <1>5 DEF Local

\* A request reads its rows anew.
LEMMA ReadAnew ==
  ASSUME NEW r \in Requests, pc[r] # "saved", Local(r), UNCHANGED <<content, revision>>,
         pc'[r] \in {"calling", "writing"},
         base'[r] = Rows(InScope(r)'),
         r \notin Deletes => EditList(r, base'[r], apps'[r]),
         r \in Deletes => rounds'[r] = 0 /\ apps'[r] = <<>>,
         pc'[r] = "writing" => <<r, Granted(r)>> \in held'
  PROVE  Local(r)'
<1>1. BaseHonest(r)'
  <2>1. Rows(InScope(r)') = Rows(InScope(r))'
    BY DEF Rows
  <2>2. QED
    BY <2>1 DEF BaseHonest
<1>2. DOMAIN base'[r] = InScope(r)' \cap DOMAIN content
  BY DEF Rows
<1>3. r \notin Deletes => EditsItsTarget(r)'
  BY <1>2 DEF EditsItsTarget
<1>4. r \in Deletes => DropsItsTarget(r)'
  BY <1>2 DEF DropsItsTarget, InScope
<1>5. \A a \in DOMAIN content' : r \notin content'[a]
  BY DEF Local
<1>6. QED
  BY <1>1, <1>3, <1>4, <1>5 DEF Local

LEMMA HydrateKeeps ==
  ASSUME IInv, Typed, NEW r \in Requests, Local(r), Hydrate(r)
  PROVE  Local(r)'
<1>0. /\ pc \in [Requests -> Labels] /\ DOMAIN base = Requests /\ DOMAIN apps = Requests
      /\ pc[r] = "arriving" /\ rounds[r] = 0 /\ rounds' = rounds
      /\ UNCHANGED <<content, revision, held>>
      /\ \A a \in DOMAIN content : r \notin content[a]
  BY DEF IInv, Shape, Typed, Hydrate, Local
<1>1. CASE Goto(r, "refused")
  <2>1. pc'[r] = "refused"
    BY <1>0, <1>1 DEF Goto
  <2>2. QED
    BY <1>0, <2>1 DEF Local
<1>2. CASE /\ Target[r] \in DOMAIN content /\ CaptureBaseline(r) /\ Goto(r, "calling")
           /\ apps' = [apps EXCEPT ![r] =
                IF r \in Deletes THEN <<>>
                ELSE <<[id |-> Target[r], edits |-> content[Target[r]] \cup {r}]>>]
  <2>1. InScope(r) = {Target[r]} /\ InScope(r)' = {Target[r]}
    BY <1>0 DEF InScope
  <2>2. /\ pc'[r] = "calling" /\ base'[r] = Rows({Target[r]})
        /\ apps'[r] = IF r \in Deletes THEN <<>>
                      ELSE <<[id |-> Target[r], edits |-> content[Target[r]] \cup {r}]>>
    BY <1>0, <1>2, <2>1 DEF Goto, CaptureBaseline, Latest
  <2>3. base'[r] = [a \in {Target[r]} |-> content[a]]
    BY <1>2, <2>2 DEF Rows
  <2>4. ASSUME r \notin Deletes PROVE EditList(r, base'[r], apps'[r])
    <3>1. apps'[r] = <<[id |-> Target[r], edits |-> content[Target[r]] \cup {r}]>>
      BY <2>2, <2>4
    <3>2. DOMAIN apps'[r] = {1} /\ apps'[r][1].id = Target[r] /\ apps'[r][1].edits = content[Target[r]] \cup {r}
      BY <3>1
    <3>3. DOMAIN base'[r] = {Target[r]} /\ base'[r][Target[r]] = content[Target[r]]
      BY <2>3
    <3>4. r \notin content[Target[r]]
      BY <1>0, <1>2
    <3>5. QED
      BY <3>2, <3>3, <3>4 DEF EditList
  <2>5. QED
    BY <1>0, <2>1, <2>2, <2>4, ReadAnew
<1>3. QED
  BY <1>1, <1>2 DEF Hydrate

LEMMA TakeLanesKeeps ==
  ASSUME IInv, Typed, NEW r \in Requests, Local(r), TakeLanes(r)
  PROVE  Local(r)'
<1>0. /\ pc \in [Requests -> Labels] /\ pc[r] = "calling" /\ pc' = [pc EXCEPT ![r] = "locked"]
      /\ UNCHANGED <<content, revision, apps, base, baseRev, rounds>>
      /\ held' = held \cup {<<r, LanesToTake(r)>>}
  BY DEF IInv, Shape, TakeLanes, Goto
<1>1. pc'[r] = "locked"
  BY <1>0
<1>2. LanesToTake(r) = Granted(r)
  BY <1>0, PlanOfAnEdit, PlanOfADelete DEF Local
<1>3. QED
  BY <1>0, <1>1, <1>2, MoveOn

LEMMA CheckSnapshotKeeps ==
  ASSUME IInv, Typed, NEW r \in Requests, Local(r), CheckSnapshot(r)
  PROVE  Local(r)'
<1>0. /\ pc \in [Requests -> Labels] /\ pc[r] = "locked"
      /\ UNCHANGED <<content, revision, held, apps, base, baseRev, rounds>>
      /\ Goto(r, "writing") \/ Goto(r, "stale")
  BY DEF IInv, Shape, CheckSnapshot
<1>1. pc'[r] \in {"writing", "stale"}
  BY <1>0 DEF Goto
<1>2. <<r, Granted(r)>> \in held
  BY <1>0 DEF Local, Waiting
<1>3. QED
  BY <1>0, <1>1, <1>2, MoveOn

LEMMA RebaseKeeps ==
  ASSUME RightIndex, IInv, Typed, NEW r \in Requests, Local(r), Rebase(r)
  PROVE  Local(r)'
<1>0. /\ pc \in [Requests -> Labels] /\ DOMAIN base = Requests /\ DOMAIN apps = Requests
      /\ pc[r] = "stale" /\ UNCHANGED <<content, revision, rounds>>
      /\ <<r, Granted(r)>> \in held
      /\ RowsTyped(content)
  BY DEF IInv, Shape, Typed, Rebase, Local, Waiting
<1>1. CASE Conflict(r)
  <2>1. pc'[r] \in {"retrying", "refused"} /\ UNCHANGED <<apps, base, baseRev>>
    BY <1>0, <1>1 DEF Conflict, Goto
  <2>2. QED
    BY <1>0, <2>1, MoveOn DEF Waiting
<1>2. CASE /\ Conflicting(r, Latest(r)) = {} /\ CaptureBaseline(r) /\ Goto(r, "writing")
           /\ apps' = [apps EXCEPT ![r] = Listed(Merged(r, Latest(r)))] /\ UNCHANGED held
  <2>1. /\ pc'[r] = "writing" /\ base'[r] = Latest(r) /\ InScope(r)' = InScope(r)
        /\ apps'[r] = Listed(Merged(r, Latest(r)))
    BY <1>0, <1>2 DEF Goto, CaptureBaseline, InScope
  <2>2. base'[r] = Rows(InScope(r)')
    BY <2>1 DEF Latest
  <2>3. ASSUME r \notin Deletes PROVE EditList(r, base'[r], apps'[r])
    <3>1. RowsTyped(Latest(r)) /\ \A a \in DOMAIN Latest(r) : r \notin Latest(r)[a]
      BY <1>0, RowsAreTyped DEF Local, Latest, Rows
    <3>2. EditsItsTarget(r)
      BY <1>0, <2>3 DEF Local
    <3>3. /\ Target[r] \in DOMAIN Latest(r)
          /\ Merged(r, Latest(r)) =
               [a \in DOMAIN Latest(r) |->
                  IF a = Target[r] THEN Latest(r)[a] \cup {r} ELSE Latest(r)[a]]
      BY <1>2, <2>3, <3>1, <3>2, MergeOfAnEdit
    <3>4. DOMAIN Latest(r) \subseteq IF RouteRetries = 0 THEN {Target[r]} ELSE Workspace(r)
      BY ScopeFits DEF Latest, Rows
    <3>5. First(r, Latest(r))
      BY <2>3, <3>4, TargetIsFirst
    <3>6. r \notin Latest(r)[Target[r]]
      BY <3>1, <3>3
    <3> DEFINE f == Latest(r)
    <3>7. EditList(r, f, Listed([a \in DOMAIN f |-> IF a = Target[r] THEN f[a] \cup {r} ELSE f[a]]))
      BY <3>1, <3>3, <3>5, <3>6, ListWithEdit
    <3>8. QED
      BY <2>1, <3>3, <3>7
  <2>4. ASSUME r \in Deletes PROVE rounds'[r] = 0 /\ apps'[r] = <<>>
    <3>1. DropsItsTarget(r)
      BY <1>0, <2>4 DEF Local
    <3>2. Listed(Merged(r, Latest(r))) = <<>>
      BY <2>4, <3>1, MergeOfADelete
    <3>3. QED
      BY <1>0, <2>1, <3>1, <3>2 DEF DropsItsTarget
  <2>5. QED
    BY <1>0, <1>2, <2>1, <2>2, <2>3, <2>4, ReadAnew
<1>3. QED
  BY <1>1, <1>2 DEF Rebase

LEMMA PlanWriteKeeps ==
  ASSUME IInv, Typed, NEW r \in Requests, Local(r), PlanWrite(r)
  PROVE  Local(r)'
<1>0. /\ pc \in [Requests -> Labels] /\ DOMAIN expected = Requests
      /\ pc[r] = "writing" /\ pc' = [pc EXCEPT ![r] = "planned"]
      /\ UNCHANGED <<content, revision, held, apps, base, baseRev, rounds>>
      /\ <<r, Granted(r)>> \in held
  BY DEF IInv, Shape, PlanWrite, Goto, Local, Waiting
<1>1. /\ DOMAIN expected'[r] = ExtendedLanes(r)
      /\ \A l \in ExtendedLanes(r) : l \in PlanLanes(r) \cap DOMAIN baseRev[r] => expected'[r][l] = baseRev[r][l]
  BY <1>0 DEF PlanWrite
<1>2. Account[r] \in DOMAIN baseRev[r]
  BY <1>0 DEF IInv, SnapshotsHonest, Snapshot
<1>3. PlanFits(r)'
  <2>1. CASE r \notin Deletes
    <3>1. PlanLanes(r) = {Account[r]} /\ ExtendedLanes(r) = {Account[r]}
      BY <1>0, <2>1, PlanOfAnEdit DEF Local
    <3>2. QED
      BY <1>0, <1>1, <1>2, <2>1, <3>1 DEF PlanFits
  <2>2. CASE r \in Deletes
    <3>1. DropsItsTarget(r)
      BY <1>0, <2>2 DEF Local
    <3>2. /\ ExtendedLanes(r) \subseteq {Account[r]}
          /\ DOMAIN base[r] \cap DOMAIN content # {} => Account[r] \in ExtendedLanes(r)
      BY <2>2, <3>1, PlanOfADelete
    <3>3. Target[r] \in DOMAIN content => Target[r] \in DOMAIN base[r]
      BY <3>1 DEF DropsItsTarget
    <3>4. QED
      BY <1>0, <1>1, <2>2, <3>2, <3>3 DEF PlanFits
  <2>3. QED
    BY <2>1, <2>2
<1>4. /\ InScope(r)' = InScope(r) /\ Rows(InScope(r))' = Rows(InScope(r))
  BY <1>0 DEF InScope, Rows
<1>5. /\ BaseHonest(r) => BaseHonest(r)'
      /\ EditsItsTarget(r) => EditsItsTarget(r)'
      /\ DropsItsTarget(r) => DropsItsTarget(r)'
  BY <1>0, <1>4 DEF BaseHonest, EditsItsTarget, DropsItsTarget
<1>6. pc'[r] = "planned"
  BY <1>0
<1>7. QED
  BY <1>0, <1>3, <1>5, <1>6 DEF Local

LEMMA CommitConflictKeeps ==
  ASSUME IInv, Typed, NEW r \in Requests, Local(r), CommitConflict(r)
  PROVE  Local(r)'
<1>0. /\ pc \in [Requests -> Labels] /\ pc[r] = "planned"
      /\ UNCHANGED <<content, revision, apps, base, baseRev, rounds>>
      /\ (Goto(r, "stale") /\ UNCHANGED held) \/ Goto(r, "refused")
  BY DEF IInv, Shape, CommitConflict
<1>1. pc'[r] = "refused" \/ (pc'[r] = "stale" /\ UNCHANGED held)
  BY <1>0 DEF Goto
<1>2. <<r, Granted(r)>> \in held
  BY <1>0 DEF Local, Waiting
<1>3. QED
  BY <1>0, <1>1, <1>2, MoveOn DEF Waiting

LEMMA RetryEditKeeps ==
  ASSUME RightIndex, IInv, Typed, NEW r \in Requests, Local(r), RetryEdit(r)
  PROVE  Local(r)'
<1>0. /\ pc \in [Requests -> Labels] /\ DOMAIN base = Requests /\ DOMAIN apps = Requests
      /\ pc[r] = "retrying" /\ UNCHANGED <<content, revision>> /\ RowsTyped(content)
      /\ rounds \in [Requests -> 0..RouteRetries] /\ rounds[r] < RouteRetries
      /\ RouteRetries \in Nat
      /\ \A a \in DOMAIN content : r \notin content[a]
  BY StoreAssumption DEF IInv, Shape, Typed, RetryEdit, Local
<1>1. CASE Goto(r, "refused") /\ UNCHANGED <<apps, base, baseTrash, baseRev, rounds>>
  <2>1. pc'[r] = "refused"
    BY <1>0, <1>1 DEF Goto
  <2>2. QED
    BY <1>0, <1>1, <2>1, MoveOn DEF Waiting
<1>2. CASE /\ Target[r] \in DOMAIN content
           /\ rounds' = [rounds EXCEPT ![r] = @ + 1]
           /\ base' = [base EXCEPT ![r] = Rows(Workspace(r))]
           /\ apps' = [apps EXCEPT ![r] =
                PutAt(Listed(Rows(Workspace(r))), FirstIndex(apps[r], Target[r]),
                      [id |-> Target[r], edits |-> content[Target[r]] \cup {r}])]
           /\ Goto(r, "calling")
  <2>0. CASE r \in Deletes
    BY <1>0, <2>0 DEF Typed
  <2>1. CASE r \notin Deletes
    <3>1. /\ pc'[r] = "calling" /\ rounds'[r] # 0 /\ base'[r] = Rows(Workspace(r))
          /\ apps'[r] = PutAt(Listed(Rows(Workspace(r))), FirstIndex(apps[r], Target[r]),
                             [id |-> Target[r], edits |-> content[Target[r]] \cup {r}])
      BY <1>0, <1>2 DEF Goto
    <3>2. InScope(r)' = Workspace(r)
      BY <3>1 DEF InScope
    <3>3. EditList(r, base[r], apps[r]) /\ apps[r] \in Seq(Record)
      BY <1>0, <2>1 DEF Local, EditsItsTarget, Typed
    <3>4. FirstIndex(apps[r], Target[r]) = 1
      <4>1. 1 \in DOMAIN apps[r] /\ apps[r][1].id = Target[r]
            /\ \A j \in DOMAIN apps[r] : apps[r][j].id = Target[r] => j = 1
        BY <3>3 DEF EditList
      <4>2. QED
        BY <4>1 DEF FirstIndex
    <3> DEFINE f == Rows(Workspace(r))
    <3>5. /\ RowsTyped(f) /\ Target[r] \in DOMAIN f /\ f[Target[r]] = content[Target[r]]
          /\ DOMAIN f \subseteq Workspace(r)
      BY <1>0, <1>2, RowsAreTyped, ScopeFits DEF Rows
    <3>6. First(r, f)
      <4>1. DOMAIN f \subseteq IF RouteRetries = 0 THEN {Target[r]} ELSE Workspace(r)
        BY <1>0, <3>5
      <4>2. QED
        BY <2>1, <4>1, TargetIsFirst
    <3>7. r \notin f[Target[r]]
      BY <1>0, <1>2, <3>5
    <3>8. EditList(r, base'[r], apps'[r])
      BY <3>1, <3>4, <3>5, <3>6, <3>7, ListWithEdit
    <3>9. QED
      BY <1>0, <2>1, <3>1, <3>2, <3>8, ReadAnew
  <2>2. QED
    BY <2>0, <2>1
<1>3. QED
  BY <1>1, <1>2 DEF RetryEdit

\* What a commit does to the durable applications.
LEMMA CommitEffect ==
  ASSUME IInv, Typed, NEW r \in Requests, Local(r), Commit(r)
  PROVE  /\ r \notin Deletes => /\ Target[r] \in DOMAIN content
                                /\ content' = [content EXCEPT ![Target[r]] = @ \cup {r}]
         /\ r \in Deletes => content' = [a \in DOMAIN content \ {Target[r]} |-> content[a]]
         /\ DOMAIN expected[r] \subseteq {Account[r]}
         /\ Target[r] \in DOMAIN content => Account[r] \in DOMAIN expected[r]
<1> DEFINE T == Target[r]
<1>1. /\ pc[r] = "planned" /\ PlanFits(r) /\ BaseHonest(r) /\ Expected(r)
      /\ r \notin Deletes => EditsItsTarget(r)
      /\ r \in Deletes => DropsItsTarget(r)
      /\ content' = [a \in (DOMAIN content \cup DOMAIN AsMap(Upserts(r))) \ DeletedIds(r) |->
                       IF a \in DOMAIN AsMap(Upserts(r)) THEN AsMap(Upserts(r))[a] ELSE content[a]]
  BY DEF Commit, Local, Written
<1>2. CASE r \notin Deletes
  <2>1. /\ DeletedIds(r) = {} /\ DOMAIN AsMap(Upserts(r)) = {T}
        /\ AsMap(Upserts(r))[T] = base[r][T] \cup {r}
    BY <1>1, <1>2, PlanOfAnEdit
  <2>2. revision[Account[r]] = baseRev[r][Account[r]]
    BY <1>1, <1>2 DEF PlanFits, Expected
  <2>3. base[r] = Rows(InScope(r)) /\ T \in DOMAIN base[r]
    BY <1>1, <1>2, <2>2 DEF BaseHonest, EditsItsTarget, EditList
  <2>4. T \in DOMAIN content /\ base[r][T] = content[T]
    BY <2>3 DEF Rows
  <2>5. content' = [a \in DOMAIN content |-> IF a = T THEN content[T] \cup {r} ELSE content[a]]
    <3>1. (DOMAIN content \cup DOMAIN AsMap(Upserts(r))) \ DeletedIds(r) = DOMAIN content
      BY <2>1, <2>4
    <3>2. \A a \in DOMAIN content :
            (IF a \in DOMAIN AsMap(Upserts(r)) THEN AsMap(Upserts(r))[a] ELSE content[a])
            = (IF a = T THEN content[T] \cup {r} ELSE content[a])
      BY <2>1, <2>4
    <3>3. QED
      BY <1>1, <3>1, <3>2
  <2>6. content = [a \in DOMAIN content |-> content[a]] => content' = [content EXCEPT ![T] = @ \cup {r}]
    BY <2>5
  <2>7. QED
    BY <1>1, <1>2, <2>4, <2>5 DEF PlanFits
<1>3. CASE r \in Deletes
  <2>1. DeletedIds(r) = DOMAIN base[r] /\ DOMAIN AsMap(Upserts(r)) = {}
    BY <1>1, <1>3, PlanOfADelete
  <2>2. DOMAIN content \ DOMAIN base[r] = DOMAIN content \ {T}
    BY <1>1, <1>3 DEF DropsItsTarget
  <2>3. content' = [a \in DOMAIN content \ {T} |-> content[a]]
    <3>1. (DOMAIN content \cup DOMAIN AsMap(Upserts(r))) \ DeletedIds(r) = DOMAIN content \ {T}
      BY <2>1, <2>2
    <3>2. \A a : ~(a \in DOMAIN AsMap(Upserts(r)))
      BY <2>1
    <3>3. QED
      BY <1>1, <3>1, <3>2
  <2>4. QED
    BY <1>1, <1>3, <2>3 DEF PlanFits
<1>4. QED
  BY <1>2, <1>3

LEMMA CommitChanges ==
  ASSUME IInv, Typed, NEW r \in Requests, Local(r), Commit(r)
  PROVE  /\ DOMAIN content' \subseteq DOMAIN content
         /\ \A a \in DOMAIN content : a # Target[r] => a \in DOMAIN content' /\ content'[a] = content[a]
         /\ \A a \in DOMAIN content' : content'[a] \subseteq content[a] \cup {r}
         /\ DOMAIN expected[r] \subseteq {Account[r]}
         /\ Target[r] \in DOMAIN content => Account[r] \in DOMAIN expected[r]
<1>1. /\ DOMAIN expected[r] \subseteq {Account[r]}
      /\ Target[r] \in DOMAIN content => Account[r] \in DOMAIN expected[r]
  BY CommitEffect
<1>2. CASE r \notin Deletes
  <2>1. Target[r] \in DOMAIN content /\ content' = [content EXCEPT ![Target[r]] = @ \cup {r}]
    BY <1>2, CommitEffect
  <2>2. QED
    BY <1>1, <2>1
<1>3. CASE r \in Deletes
  <2>1. content' = [a \in DOMAIN content \ {Target[r]} |-> content[a]]
    BY <1>3, CommitEffect
  <2>2. QED
    BY <1>1, <2>1
<1>4. QED
  BY <1>2, <1>3

\* The snapshots of the others stay honest: a commit that changes a row of
\* their account moves its revision.
LEMMA CommitKeeps ==
  ASSUME IInv, Typed, NEW r \in Requests, Local(r), Commit(r), NEW q \in Requests \ {r}, Local(q)
  PROVE  Local(q)'
<1>0. Step(r)
  BY DEF Step
<1>1. /\ pc'[q] = pc[q] /\ apps'[q] = apps[q] /\ base'[q] = base[q]
      /\ baseRev'[q] = baseRev[q] /\ expected'[q] = expected[q] /\ rounds'[q] = rounds[q]
      /\ <<q, Granted(q)>> \in held => <<q, Granted(q)>> \in held'
  BY <1>0, StepFrame
<1>2. /\ DOMAIN content' \subseteq DOMAIN content
      /\ \A a \in DOMAIN content : a # Target[r] => a \in DOMAIN content' /\ content'[a] = content[a]
      /\ \A a \in DOMAIN content' : content'[a] \subseteq content[a] \cup {r}
      /\ Target[r] \in DOMAIN content => Account[r] \in DOMAIN expected[r]
  BY CommitChanges
<1>3. pc'[q] # "saved" => \A a \in DOMAIN content' : q \notin content'[a]
  BY <1>1, <1>2 DEF Local
<1>4. InScope(q)' = InScope(q)
  BY <1>1 DEF InScope
<1>5. ASSUME pc[q] \in Reading PROVE BaseHonest(q)'
  <2>1. SUFFICES ASSUME baseRev[q][Account[q]] = revision'[Account[q]]
                 PROVE  base[q] = Rows(InScope(q))'
    BY <1>1, <1>4 DEF BaseHonest
  <2>2. /\ Account[q] \in Lanes /\ Account[r] \in Lanes
        /\ revision \in [Lanes -> Nat] /\ baseRev[q][Account[q]] \in Nat
        /\ baseRev[q][Account[q]] <= revision[Account[q]]
        /\ revision' = [l \in Lanes |-> revision[l] + (IF l \in DOMAIN expected[r] THEN 1 ELSE 0)]
    BY <1>5, StoreAssumption DEF IInv, Shape, SnapshotsHonest, Snapshot, Commit
  <2>3. revision'[Account[q]] = revision[Account[q]] + (IF Account[q] \in DOMAIN expected[r] THEN 1 ELSE 0)
    BY <2>2
  <2>4. Account[q] \notin DOMAIN expected[r] /\ baseRev[q][Account[q]] = revision[Account[q]]
    BY <2>1, <2>2, <2>3
  <2>5. base[q] = Rows(InScope(q))
    BY <1>5, <2>4 DEF Local, BaseHonest
  <2>6. Target[r] \in InScope(q) => Target[r] \notin DOMAIN content
    <3>1. SUFFICES ASSUME Target[r] \in InScope(q), Target[r] \in DOMAIN content PROVE FALSE
      OBVIOUS
    <3>2. AppLane[Target[r]] = Account[q]
      BY <3>1, ScopeFits DEF Workspace
    <3>3. AppLane[Target[r]] = Account[r]
      BY StoreAssumption
    <3>4. QED
      BY <1>2, <2>4, <3>1, <3>2, <3>3
  <2>7. \A a \in InScope(q) : /\ (a \in DOMAIN content) <=> (a \in DOMAIN content')
                              /\ a \in DOMAIN content => content'[a] = content[a]
    BY <1>2, <2>6
  <2>8. Rows(InScope(q))' = Rows(InScope(q))
    <3>1. Rows(InScope(q))' = [a \in InScope(q) \cap DOMAIN content' |-> content'[a]]
      BY <1>4 DEF Rows
    <3>2. InScope(q) \cap DOMAIN content' = InScope(q) \cap DOMAIN content
      BY <2>7
    <3>3. QED
      BY <2>7, <3>1, <3>2 DEF Rows
  <2>9. QED
    BY <2>5, <2>8
<1>6. EditsItsTarget(q) => EditsItsTarget(q)'
  <2>1. EditList(q, base[q], apps[q]) => EditList(q, base'[q], apps'[q])
    BY <1>1
  <2>2. QED
    BY <1>1, <1>4, <2>1 DEF EditsItsTarget
<1>7. DropsItsTarget(q) => DropsItsTarget(q)'
  BY <1>1, <1>2 DEF DropsItsTarget
<1>8. PlanFits(q) => PlanFits(q)'
  BY <1>1, <1>2 DEF PlanFits
<1>9. QED
  BY <1>1, <1>3, <1>5, <1>6, <1>7, <1>8 DEF Local

LEMMA StepKeepsConsistency ==
  ASSUME RightIndex, IInv, Typed, Consistent, NEW r \in Requests, Step(r)
  PROVE  Consistent'
<1>1. \A q \in Requests : Local(q)
  BY DEF Consistent
<1>2. CASE Commit(r)
  <2>1. \A q \in Requests \ {r} : Local(q)'
    BY <1>1, <1>2, CommitKeeps
  <2>2. pc'[r] = "saved"
    BY <1>2 DEF IInv, Shape, Commit, Goto
  <2>3. Local(r)'
    BY <2>2 DEF Local
  <2>4. QED
    BY <2>1, <2>3 DEF Consistent
<1>3. CASE ~Commit(r)
  <2>1. UNCHANGED <<content, revision>>
    BY <1>3 DEF Step, Hydrate, TakeLanes, CheckSnapshot, Rebase, PlanWrite, CommitConflict, RetryEdit
  <2>2. ASSUME NEW q \in Requests \ {r} PROVE Local(q)'
    <3>1. /\ pc'[q] = pc[q] /\ apps'[q] = apps[q] /\ base'[q] = base[q]
          /\ baseRev'[q] = baseRev[q] /\ expected'[q] = expected[q] /\ rounds'[q] = rounds[q]
          /\ <<q, Granted(q)>> \in held => <<q, Granted(q)>> \in held'
      BY StepFrame
    <3>2. QED
      BY <1>1, <2>1, <3>1, LeftAlone
  <2>3. Local(r)'
    BY <1>1, <1>3, HydrateKeeps, TakeLanesKeeps, CheckSnapshotKeeps, RebaseKeeps, PlanWriteKeeps,
       CommitConflictKeeps, RetryEditKeeps DEF Step
  <2>4. QED
    BY <2>2, <2>3 DEF Consistent
<1>4. QED
  BY <1>2, <1>3

LEMMA ConsistencyInductive ==
  ASSUME RightIndex
  PROVE  /\ Init => Consistent
         /\ IInv /\ Typed /\ Consistent /\ [Next]_vars => Consistent'
<1>1. ASSUME Init PROVE Consistent
  BY <1>1 DEF Init, Consistent, Local
<1>2. ASSUME IInv, Typed, Consistent, [Next]_vars PROVE Consistent'
  <2>1. CASE UNCHANGED vars
    <3>1. ASSUME NEW q \in Requests PROVE Local(q)'
      BY <1>2, <2>1, <3>1, LeftAlone DEF vars, Consistent
    <3>2. QED
      BY <3>1 DEF Consistent
  <2>2. CASE \E r \in Requests : Step(r)
    BY <1>2, <2>2, StepKeepsConsistency
  <2>3. QED
    BY <1>2, <2>1, <2>2 DEF Next, AllAnswered
<1>3. QED
  BY <1>1, <1>2

------------------------------------------------------------------------------
\* Only a commit changes rows or revisions, and each step of a request answers
\* it or leaves it pending.
LEMMA StepRefines ==
  ASSUME RightIndex, IInv, Typed, Consistent, [Next]_vars
  PROVE  [Atomic!Next]_(Atomic!vars)
<1> DEFINE outcome == [r \in Requests |-> IF Answered(r) THEN pc[r] ELSE "pending"]
<1>1. CASE UNCHANGED vars
  BY <1>1 DEF vars, Atomic!vars, Answered
<1>2. ASSUME NEW r \in Requests, Step(r) PROVE [Atomic!Next]_(Atomic!vars)
  <2>0. /\ pc \in [Requests -> Labels] /\ pc' \in [Requests -> Labels]
        /\ \A q \in Requests \ {r} : pc'[q] = pc[q]
    <3>1. IInv'
      BY <1>2, StepPreserves DEF Next
    <3>2. QED
      BY <1>2, <3>1, StepFrame DEF IInv, Shape
  <2>1. outcome' = [outcome EXCEPT ![r] = IF Answered(r)' THEN pc'[r] ELSE "pending"]
    BY <2>0 DEF Answered
  <2>2. ~Answered(r) /\ outcome[r] = "pending"
    BY <1>2 DEF Answered, Step, Hydrate, TakeLanes, CheckSnapshot, Rebase, PlanWrite, Commit,
       CommitConflict, RetryEdit
  <2>3. CASE Commit(r)
    <3>1. Local(r) /\ pc'[r] = "saved"
      BY <2>0, <2>3 DEF Consistent, Commit, Goto, IInv, Shape
    <3>2. outcome' = [outcome EXCEPT ![r] = "saved"]
      BY <2>1, <3>1 DEF Answered
    <3>3. CASE r \notin Deletes
      <4>1. Target[r] \in DOMAIN content /\ content' = [content EXCEPT ![Target[r]] = @ \cup {r}]
        BY <2>3, <3>1, <3>3, CommitEffect
      <4>2. Atomic!Edit(r)
        BY <2>2, <3>2, <3>3, <4>1 DEF Atomic!Edit, Atomic!Answer
      <4>3. QED
        BY <4>2 DEF Atomic!Next
    <3>4. CASE r \in Deletes
      <4>1. content' = [a \in DOMAIN content \ {Target[r]} |-> content[a]]
        BY <2>3, <3>1, <3>4, CommitEffect
      <4>2. Atomic!Remove(r)
        BY <2>2, <3>2, <3>4, <4>1 DEF Atomic!Remove, Atomic!Answer
      <4>3. QED
        BY <4>2 DEF Atomic!Next
    <3>5. QED
      BY <3>3, <3>4
  <2>4. CASE ~Commit(r)
    <3>1. UNCHANGED content /\ pc'[r] # "saved"
      BY <1>2, <2>0, <2>4 DEF Step, Hydrate, TakeLanes, CheckSnapshot, Rebase, Conflict, PlanWrite,
         CommitConflict, RetryEdit, Goto
    <3>2. CASE pc'[r] = "refused"
      <4>1. outcome' = [outcome EXCEPT ![r] = "refused"]
        BY <2>1, <3>2 DEF Answered
      <4>2. Atomic!Refuse(r)
        BY <2>2, <3>1, <4>1 DEF Atomic!Refuse, Atomic!Answer
      <4>3. QED
        BY <4>2 DEF Atomic!Next
    <3>3. CASE pc'[r] # "refused"
      <4>1. outcome' = outcome
        BY <2>0, <2>2, <3>1, <3>3 DEF Answered
      <4>2. QED
        BY <3>1, <4>1 DEF Atomic!vars
    <3>4. QED
      BY <3>2, <3>3
  <2>5. QED
    BY <2>3, <2>4
<1>3. QED
  BY <1>1, <1>2 DEF Next, AllAnswered

LEMMA InitRefines == Init => Atomic!Init
BY DEF Init, Atomic!Init, Answered

LEMMA CommitIsGuarded ==
  ASSUME IInv, Typed, Consistent, [Next]_vars
  PROVE  /\ \A l \in Lanes : revision'[l] # revision[l] =>
              \E h \in held : h \notin held' /\ (l \in h[2] \/ h[1] \in Deletes \ KeepTrash)
         /\ \A a \in Applications :
              At(content', a) # At(content, a) => revision'[AppLane[a]] > revision[AppLane[a]]
<1>1. CASE UNCHANGED <<content, revision>>
  BY <1>1
<1>2. CASE \E r \in Requests : Commit(r)
  <2>1. PICK r \in Requests : Commit(r)
    BY <1>2
  <2>2. Local(r) /\ pc[r] = "planned"
    BY <2>1 DEF Consistent, Commit
  <2>3. /\ revision' = [l \in Lanes |-> revision[l] + (IF l \in DOMAIN expected[r] THEN 1 ELSE 0)]
        /\ held' = {h \in held : h[1] # r} /\ revision \in [Lanes -> Nat]
    BY <2>1 DEF Commit, ReleaseLanes, IInv, Shape
  <2>4. /\ DOMAIN content' \subseteq DOMAIN content
        /\ \A a \in DOMAIN content : a # Target[r] => a \in DOMAIN content' /\ content'[a] = content[a]
        /\ DOMAIN expected[r] \subseteq {Account[r]}
        /\ Target[r] \in DOMAIN content => Account[r] \in DOMAIN expected[r]
    BY <2>1, <2>2, CommitChanges
  <2>5. ASSUME NEW a \in Applications, At(content', a) # At(content, a)
        PROVE  revision'[AppLane[a]] > revision[AppLane[a]]
    <3>1. a = Target[r] /\ Target[r] \in DOMAIN content
      BY <2>4, <2>5 DEF At
    <3>2. AppLane[a] = Account[r] /\ Account[r] \in Lanes /\ Account[r] \in DOMAIN expected[r]
      BY <2>4, <3>1, StoreAssumption
    <3>3. revision'[Account[r]] = revision[Account[r]] + 1 /\ revision[Account[r]] \in Nat
      BY <2>3, <3>2
    <3>4. QED
      BY <3>2, <3>3
  <2>6. ASSUME NEW l \in Lanes, revision'[l] # revision[l]
        PROVE  \E h \in held : h \notin held' /\ (l \in h[2] \/ h[1] \in Deletes \ KeepTrash)
    <3>1. l = Account[r]
      BY <2>3, <2>4, <2>6
    <3>2. <<r, Granted(r)>> \in held
      BY <2>2 DEF Local
    <3>3. <<r, Granted(r)>> \notin held'
      BY <2>3
    <3>4. QED
      BY <3>1, <3>2, <3>3 DEF Granted
  <2>7. QED
    BY <2>5, <2>6
<1>3. QED
  BY <1>1, <1>2 DEF Next, AllAnswered, vars, Step, Hydrate, TakeLanes, CheckSnapshot, Rebase,
     PlanWrite, CommitConflict, RetryEdit

------------------------------------------------------------------------------
\* The snapshots, plans and trash of all requests satisfy the strengthened
\* invariant in every reachable state (lockedWriteStore, writeStoreUnlocked).
THEOREM StoreInvariance == Spec => []IInv
<1>1. Init => IInv
  BY InitEstablishes
<1>2. IInv /\ [Next]_vars => IInv'
  BY StepPreserves
<1>3. QED
  BY <1>1, <1>2, PTL DEF Spec

\* Trash and deletion are one commit, and no trash item is lost to another
\* request of the same account (moveApplicationToTrash, DELETE handler).
THEOREM TrashIsTransactional == Spec => []TrashMatchesDeletes
<1>1. IInv => TrashMatchesDeletes
  BY DEF IInv
<1>2. QED
  BY <1>1, StoreInvariance, PTL

LEMMA StoreInvariants ==
  ASSUME RightIndex
  PROVE  Spec => [](IInv /\ Typed /\ Consistent)
<1>1. Init => IInv /\ Typed /\ Consistent
  BY InitEstablishes, TypesInductive, ConsistencyInductive
<1>2. IInv /\ Typed /\ Consistent /\ [Next]_vars => (IInv /\ Typed /\ Consistent)'
  BY StepPreserves, TypesInductive, ConsistencyInductive
<1>3. QED
  BY <1>1, <1>2, PTL DEF Spec

\* Rows, lanes, revisions, positions and attempts have their types, whatever
\* the requests are (writeStoreWithRetry, commitApplicationWithAutoMergeRetry).
THEOREM StoreTypeCorrect == Spec => []TypeOK
<1>1. Init => IInv /\ Typed
  BY InitEstablishes, TypesInductive
<1>2. IInv /\ Typed /\ [Next]_vars => (IInv /\ Typed)'
  BY StepPreserves, TypesInductive
<1>3. IInv /\ Typed => TypeOK
  BY DEF IInv, Shape, Typed, RowsTyped, TypeOK
<1>4. QED
  BY <1>1, <1>2, <1>3, PTL DEF Spec

\* The store implements its promise: however many requests are merged and
\* retried, each takes effect in one step or not at all, provided that no retry
\* takes a wrong index (lockedWriteStore, writeStoreWithRetry, the PUT and DELETE
\* handlers).
THEOREM StoreIsAtomic == RightIndex => (Spec => ImplementsAtomicStore)
<1> SUFFICES ASSUME RightIndex PROVE Spec => ImplementsAtomicStore
  OBVIOUS
<1>1. Init => Atomic!Init
  BY InitRefines
<1>2. IInv /\ Typed /\ Consistent /\ [Next]_vars => [Atomic!Next]_(Atomic!vars)
  BY StepRefines
<1>3. QED
  BY <1>1, <1>2, StoreInvariants, PTL DEF Spec, ImplementsAtomicStore, Atomic!Spec

\* A commit moves the revision of a tenant only while its request holds the
\* lane; deletes without a trash are excepted (withWriteLock, writeStoreUnlocked).
THEOREM CommitsUnderLanes == RightIndex => (Spec => CommitsIntoHeldLanes)
<1> SUFFICES ASSUME RightIndex PROVE Spec => CommitsIntoHeldLanes
  OBVIOUS
<1>1. IInv /\ Typed /\ Consistent /\ [Next]_vars =>
        [\A l \in Lanes : revision'[l] # revision[l] =>
           \E h \in held : h \notin held' /\ (l \in h[2] \/ h[1] \in Deletes \ KeepTrash)]_vars
  BY CommitIsGuarded
<1>2. QED
  BY <1>1, StoreInvariants, PTL DEF Spec, CommitsIntoHeldLanes

\* No committed change of an application goes unnoticed by those who hold an
\* older snapshot of its tenant (extendWritePlanTenantKeysForDeletes,
\* writeStoreUnlocked).
THEOREM ChangesAreSeen == RightIndex => (Spec => ChangesAdvanceTheTenant)
<1> SUFFICES ASSUME RightIndex PROVE Spec => ChangesAdvanceTheTenant
  OBVIOUS
<1>1. IInv /\ Typed /\ Consistent /\ [Next]_vars =>
        [\A a \in Applications :
           At(content', a) # At(content, a) => revision'[AppLane[a]] > revision[AppLane[a]]]_vars
  BY CommitIsGuarded
<1>2. QED
  BY <1>1, StoreInvariants, PTL DEF Spec, ChangesAdvanceTheTenant

------------------------------------------------------------------------------
(* What the database holds, in terms of what was answered.                   *)

\* The steps that change rows are the commits.
LEMMA RowsChangeInACommit ==
  ASSUME [Next]_vars, content' # content
  PROVE  \E r \in Requests : Commit(r)
BY DEF Next, AllAnswered, vars, Step, Hydrate, TakeLanes, CheckSnapshot, Rebase,
       PlanWrite, CommitConflict, RetryEdit

\* An application holds the edits of it that were answered as saved, those and
\* all of them; it is gone when a delete of it was.
HoldsWhatWasSaved ==
  /\ \A a \in DOMAIN content :
       content[a] = {r \in Requests \ Deletes : Target[r] = a /\ pc[r] = "saved"}
  /\ \A a \in Applications :
       a \notin DOMAIN content <=> \E r \in Deletes : Target[r] = a /\ pc[r] = "saved"

LEMMA CommitHolds ==
  ASSUME IInv, Typed, NEW r \in Requests, Local(r), Commit(r), HoldsWhatWasSaved
  PROVE  HoldsWhatWasSaved'
<1>1. /\ pc' = [pc EXCEPT ![r] = "saved"] /\ pc[r] = "planned" /\ pc \in [Requests -> Labels]
      /\ DOMAIN content \subseteq Applications /\ Target \in [Requests -> Applications]
      /\ Deletes \subseteq Requests
  BY StoreAssumption DEF Commit, Goto, IInv, Shape, Typed, RowsTyped
<1>2. \A q \in Requests : pc'[q] = "saved" <=> pc[q] = "saved" \/ q = r
  BY <1>1
<1>3. CASE r \notin Deletes
  <2>1. Target[r] \in DOMAIN content /\ content' = [content EXCEPT ![Target[r]] = @ \cup {r}]
    BY <1>3, CommitEffect
  <2>2. ASSUME NEW a \in DOMAIN content'
        PROVE  content'[a] = {q \in Requests \ Deletes : Target[q] = a /\ pc'[q] = "saved"}
    <3>1. a \in DOMAIN content BY <2>1, <2>2
    <3>2. content[a] = {q \in Requests \ Deletes : Target[q] = a /\ pc[q] = "saved"}
      BY <3>1 DEF HoldsWhatWasSaved
    <3>3. content'[a] = IF a = Target[r] THEN content[a] \cup {r} ELSE content[a]
      BY <2>1, <3>1
    <3>4. QED
      BY <1>2, <1>3, <3>2, <3>3
  <2>3. ASSUME NEW a \in Applications
        PROVE  a \notin DOMAIN content' <=> \E q \in Deletes : Target[q] = a /\ pc'[q] = "saved"
    BY <1>1, <1>2, <1>3, <2>1 DEF HoldsWhatWasSaved
  <2>4. QED
    BY <2>2, <2>3 DEF HoldsWhatWasSaved
<1>4. CASE r \in Deletes
  <2>1. content' = [a \in DOMAIN content \ {Target[r]} |-> content[a]]
    BY <1>4, CommitEffect
  <2>2. ASSUME NEW a \in DOMAIN content'
        PROVE  content'[a] = {q \in Requests \ Deletes : Target[q] = a /\ pc'[q] = "saved"}
    <3>1. a \in DOMAIN content /\ content'[a] = content[a]
      BY <2>1, <2>2
    <3>2. content[a] = {q \in Requests \ Deletes : Target[q] = a /\ pc[q] = "saved"}
      BY <3>1 DEF HoldsWhatWasSaved
    <3>3. QED
      BY <1>2, <1>4, <3>1, <3>2
  <2>3. ASSUME NEW a \in Applications
        PROVE  a \notin DOMAIN content' <=> \E q \in Deletes : Target[q] = a /\ pc'[q] = "saved"
    <3>1. a \notin DOMAIN content' <=> a = Target[r] \/ a \notin DOMAIN content
      BY <2>1
    <3>2. a \notin DOMAIN content <=> \E q \in Deletes : Target[q] = a /\ pc[q] = "saved"
      BY DEF HoldsWhatWasSaved
    <3>3. QED
      BY <1>1, <1>2, <1>4, <3>1, <3>2
  <2>4. QED
    BY <2>2, <2>3 DEF HoldsWhatWasSaved
<1>5. QED
  BY <1>3, <1>4

\* A request that commits nothing is not answered as saved.
LEMMA NothingElseIsSaved ==
  ASSUME IInv, Typed, [Next]_vars, \A r \in Requests : ~Commit(r), HoldsWhatWasSaved
  PROVE  HoldsWhatWasSaved'
<1>1. content' = content
  BY RowsChangeInACommit
<1>2. \A q \in Requests : pc'[q] = "saved" <=> pc[q] = "saved"
  <2>1. CASE UNCHANGED vars
    BY <2>1 DEF vars
  <2>2. ASSUME NEW r \in Requests, Step(r), NEW q \in Requests
        PROVE  pc'[q] = "saved" <=> pc[q] = "saved"
    <3>1. CASE q # r
      BY <2>2, <3>1, StepFrame
    <3>2. CASE q = r
      <4>1. pc[r] # "saved"
        BY <2>2 DEF Step, Hydrate, TakeLanes, CheckSnapshot, Rebase, PlanWrite, Commit,
                    CommitConflict, RetryEdit
      <4>2. pc'[r] # "saved"
        BY <2>2 DEF IInv, Shape, Step, Hydrate, TakeLanes, CheckSnapshot, Rebase, Conflict,
                    PlanWrite, CommitConflict, RetryEdit, Goto
      <4>3. QED
        BY <3>2, <4>1, <4>2
    <3>3. QED
      BY <3>1, <3>2
  <2>3. QED
    BY <2>1, <2>2 DEF Next, AllAnswered
<1>3. Deletes \subseteq Requests
  BY StoreAssumption
<1>4. QED
  BY <1>1, <1>2, <1>3 DEF HoldsWhatWasSaved

\* Whatever is merged and retried, an application holds exactly the edits that
\* were answered as saved, and is gone exactly when a delete was: no edit is
\* lost, none that was refused is there, and no edit brings an application back
\* (the PUT and DELETE handlers over writeStoreWithRetry).
THEOREM DatabaseHoldsWhatWasSaved == RightIndex => (Spec => []HoldsWhatWasSaved)
<1> SUFFICES ASSUME RightIndex PROVE Spec => []HoldsWhatWasSaved
  OBVIOUS
<1>1. Init => HoldsWhatWasSaved
  BY StoreAssumption DEF Init, HoldsWhatWasSaved
<1>2. (IInv /\ Typed /\ Consistent) /\ HoldsWhatWasSaved /\ [Next]_vars => HoldsWhatWasSaved'
  BY CommitHolds, NothingElseIsSaved DEF Consistent
<1>3. QED
  BY <1>1, <1>2, StoreInvariants, PTL DEF Spec

\* A commit changes no application but the one its request is about, provided
\* that no retry takes a wrong index: finding 2 has no other cause
\* (commitApplicationWithAutoMergeRetry).
THEOREM ChangesStayConfined == RightIndex => (Spec => ConfinedToItsApplication)
<1> SUFFICES ASSUME RightIndex PROVE Spec => ConfinedToItsApplication
  OBVIOUS
<1> DEFINE A == \A a \in Applications :
                  At(content', a) # At(content, a)
                    => \E r \in Requests : Target[r] = a /\ pc[r] = "planned" /\ pc'[r] = "saved"
<1>1. ASSUME IInv, Typed, Consistent, [Next]_vars PROVE A
  <2>1. SUFFICES ASSUME NEW a \in Applications, At(content', a) # At(content, a)
                 PROVE  \E r \in Requests : Target[r] = a /\ pc[r] = "planned" /\ pc'[r] = "saved"
    OBVIOUS
  <2>2. PICK r \in Requests : Commit(r)
    BY <1>1, <2>1, RowsChangeInACommit
  <2>3. pc[r] = "planned" /\ pc'[r] = "saved" /\ Local(r)
    BY <1>1, <2>2 DEF Commit, Goto, IInv, Shape, Consistent
  <2>4. /\ DOMAIN content' \subseteq DOMAIN content
        /\ \A b \in DOMAIN content : b # Target[r] => b \in DOMAIN content' /\ content'[b] = content[b]
    BY <1>1, <2>2, <2>3, CommitChanges
  <2>5. a = Target[r]
    BY <2>1, <2>4 DEF At
  <2>6. QED
    BY <2>3, <2>5
<1>2. IInv /\ Typed /\ Consistent /\ [Next]_vars => [A]_vars
  BY <1>1
<1> HIDE DEF A
<1>3. Spec => [][A]_vars
  BY <1>2, StoreInvariants, PTL DEF Spec
<1>4. QED
  BY <1>3 DEF ConfinedToItsApplication, A

\* An application leaves the database only in the version that the request
\* deleting it had read, when every account keeps a trash: the trash item puts
\* the tenant into the plan, which then expects the revision that was read
\* (finding 1 has no other cause; moveApplicationToTrash, writeStoreUnlocked).
THEOREM DeletesAreSeenThrough ==
  RightIndex /\ Deletes \subseteq KeepTrash => (Spec => DeletesOnlyWhatWasRead)
<1> SUFFICES ASSUME RightIndex, Deletes \subseteq KeepTrash PROVE Spec => DeletesOnlyWhatWasRead
  OBVIOUS
<1> DEFINE A == \A a \in DOMAIN content \ DOMAIN content' :
                  \E r \in Deletes : /\ pc[r] = "planned" /\ pc'[r] = "saved"
                                    /\ DOMAIN base[r] = {a} /\ base[r][a] = content[a]
<1>1. ASSUME IInv, Typed, Consistent, [Next]_vars PROVE A
  <2>1. SUFFICES ASSUME NEW a \in DOMAIN content \ DOMAIN content'
                 PROVE  \E r \in Deletes : /\ pc[r] = "planned" /\ pc'[r] = "saved"
                                           /\ DOMAIN base[r] = {a} /\ base[r][a] = content[a]
    OBVIOUS
  <2>2. PICK r \in Requests : Commit(r)
    BY <1>1, <2>1, RowsChangeInACommit
  <2>3. pc[r] = "planned" /\ pc'[r] = "saved" /\ Local(r) /\ Expected(r)
    BY <1>1, <2>2 DEF Commit, Goto, IInv, Shape, Consistent
  <2>4. r \in Deletes /\ r \in KeepTrash
    <3>1. r \notin Deletes => DOMAIN content' = DOMAIN content
      BY <1>1, <2>2, <2>3, CommitEffect
    <3>2. QED
      BY <2>1, <3>1
  <2>5. a = Target[r]
    BY <1>1, <2>1, <2>2, <2>3, CommitChanges
  <2>6. baseRev[r][Account[r]] = revision[Account[r]]
    BY <1>1, <2>3, <2>4 DEF IInv, PlansGuarded, Expected
  <2>7. base[r] = Rows(InScope(r)) /\ rounds[r] = 0
    BY <2>3, <2>4, <2>6 DEF Local, BaseHonest, DropsItsTarget
  <2>8. base[r] = [b \in {a} |-> content[b]]
    BY <2>1, <2>5, <2>7 DEF Rows, InScope
  <2>9. QED
    BY <2>3, <2>4, <2>8
<1>2. IInv /\ Typed /\ Consistent /\ [Next]_vars => [A]_vars
  BY <1>1
<1> HIDE DEF A
<1>3. Spec => [][A]_vars
  BY <1>2, StoreInvariants, PTL DEF Spec
<1>4. QED
  BY <1>3 DEF DeletesOnlyWhatWasRead, A
------------------------------------------------------------------------------
(* Lanes come back: a grant belongs to a write that is still under way.      *)

LanesGivenBack ==
  /\ \A h \in held : pc[h[1]] \in Waiting
  /\ \A h, g \in held : h # g => /\ h[1] # g[1]
                                 /\ Process[h[1]] = Process[g[1]] => h[2] \cap g[2] = {}

LEMMA LanesStep ==
  ASSUME IInv, Typed, LanesGivenBack, NEW r \in Requests, Step(r)
  PROVE  LanesGivenBack'
<1>1. \A h \in held : h[1] \in Requests
  BY DEF Typed, LanesTyped
<1>2. pc \in [Requests -> Labels] /\ \A q \in Requests \ {r} : pc'[q] = pc[q]
  BY StepFrame DEF IInv, Shape
<1>3. CASE TakeLanes(r)
  <2> DEFINE mine == <<r, LanesToTake(r)>>
  <2>1. /\ pc[r] = "calling" /\ held' = held \cup {mine} /\ pc'[r] = "locked"
        /\ \A h \in held : Process[h[1]] = Process[r] => h[2] \cap LanesToTake(r) = {}
    BY <1>2, <1>3 DEF TakeLanes, Goto
  <2>2. \A h \in held : h[1] # r
    BY <2>1 DEF LanesGivenBack
  <2>3. mine[1] = r /\ mine[2] = LanesToTake(r)
    OBVIOUS
  <2> HIDE DEF mine
  <2>4. \A h \in held' : pc'[h[1]] \in Waiting
    BY <1>1, <1>2, <2>1, <2>2, <2>3 DEF LanesGivenBack
  <2>5. \A h \in held : Process[h[1]] = Process[mine[1]] => h[2] \cap mine[2] = {}
    BY <2>1, <2>3
  <2>6. QED
    BY <2>1, <2>2, <2>3, <2>4, <2>5 DEF LanesGivenBack
<1>4. CASE ReleaseLanes(r)
  <2>1. held' = {h \in held : h[1] # r}
    BY <1>4 DEF ReleaseLanes
  <2>2. \A h \in held' : pc'[h[1]] \in Waiting
    BY <1>1, <1>2, <2>1 DEF LanesGivenBack
  <2>3. QED
    BY <2>1, <2>2 DEF LanesGivenBack
<1>5. CASE UNCHANGED held /\ (pc[r] \in Waiting => pc'[r] \in Waiting)
  BY <1>1, <1>2, <1>5 DEF LanesGivenBack
<1>6. TakeLanes(r) \/ ReleaseLanes(r) \/ (UNCHANGED held /\ (pc[r] \in Waiting => pc'[r] \in Waiting))
  BY <1>2, Zenon DEF Step, Hydrate, CheckSnapshot, Rebase, Conflict, PlanWrite, Commit,
     CommitConflict, RetryEdit, Goto
<1>7. QED
  BY <1>3, <1>4, <1>5, <1>6

\* Every way out of a write, a conflict, a refusal or a commit, gives its lanes
\* back, and nobody holds a lane twice or one that another write of the same
\* process holds (lockedWriteStore, withWriteLock).
THEOREM LanesComeBack == Spec => []LanesGivenBack
<1>1. Init => IInv /\ Typed /\ LanesGivenBack
  BY InitEstablishes, TypesInductive DEF Init, LanesGivenBack
<1>2. IInv /\ Typed /\ LanesGivenBack /\ [Next]_vars => (IInv /\ Typed /\ LanesGivenBack)'
  <2>1. ASSUME IInv, Typed, LanesGivenBack, [Next]_vars PROVE LanesGivenBack'
    <3>1. CASE UNCHANGED vars
      BY <2>1, <3>1 DEF vars, LanesGivenBack
    <3>2. CASE \E r \in Requests : Step(r)
      BY <2>1, <3>2, LanesStep
    <3>3. QED
      BY <2>1, <3>1, <3>2 DEF Next, AllAnswered
  <2>2. QED
    BY <2>1, StepPreserves, TypesInductive
<1>3. QED
  BY <1>1, <1>2, PTL DEF Spec
=============================================================================
