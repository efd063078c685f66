----------------------- MODULE BackgroundTasks_proofs -----------------------
(***************************************************************************)
(* The composition of the background work: its worker is the one of         *)
(* CoalescedWorker, and nothing runs or begins once it has reported idle,   *)
(* for any number of accounts, requests and detached tasks; and the worker  *)
(* by itself, for any number of producers.                                  *)
(***************************************************************************)
EXTENDS BackgroundTasks, SequenceFacts

(* The books of the Discover queue: its own steps. *)

ResearchTyped ==
  /\ research \in [Users -> [id : 0..MaxJobs, status : {"none", "queued", "running", "failed"}]]
  /\ \A u \in Users : Unfinished(u) => research[u].id \in JobIds

KeysTyped == starting \subseteq Keys /\ found \subseteq Keys /\ scheduled \subseteq Keys

\* The scan read one job of a user at most.
FoundOnce ==
  \A u \in Users : \A i, j \in JobIds : <<u, i>> \in found /\ <<u, j>> \in found => i = j

LinesTyped == queues \in [Users -> Seq(JobIds)] /\ order \in Seq(Users)

CursorTyped == cursor \in 0..(Cardinality(Users) - 1)

Stages == {"begun", "researching", "closing", "deferred"}

RunsTyped == runs \subseteq [user : Users, id : JobIds, stage : Stages] /\ IsFiniteSet(runs)

FlagsTyped == drainDue \in BOOLEAN /\ retryTimer \in BOOLEAN /\ queueStopped \in BOOLEAN

DeferralsTyped == deferrals \in 0..MaxDeferrals

QueueTyped ==
  /\ ResearchTyped /\ KeysTyped /\ FoundOnce /\ LinesTyped /\ CursorTyped /\ RunsTyped
  /\ FlagsTyped /\ DeferralsTyped

QueueInv == QueueTyped /\ BooksAgree

LEMMA QueueInvImpliesTypes == QueueInv => QueueTypeOK
<1>1. SUFFICES ASSUME QueueInv PROVE QueueTypeOK
  OBVIOUS
<1>2. {drainDue, retryTimer, queueStopped} \subseteq BOOLEAN
  BY <1>1, Zenon DEF QueueInv, QueueTyped, FlagsTyped
<1>3. QED
  BY <1>1, <1>2 DEF QueueInv, QueueTyped, ResearchTyped, KeysTyped, LinesTyped, CursorTyped,
     RunsTyped, DeferralsTyped, QueueTypeOK, Stages

------------------------------------------------------------------------------
(* What the books are made of. *)

\* The books speak of the lines and of whose jobs run, not of the stages.
LEMMA BooksOfSame ==
  ASSUME BooksAgree, UNCHANGED <<queues, order, scheduled>>,
         \A u \in Users : \A i \in JobIds : Runs(u, i)' <=> Runs(u, i),
         OneRunEach'
  PROVE  BooksAgree'
<1>1. \A u \in Users : \A i \in JobIds : Waits(u, i)' <=> Waits(u, i)
  BY DEF Waits
<1>2. KeysAreTheJobs'
  BY <1>1 DEF BooksAgree, KeysAreTheJobs, Keys
<1>3. InOnePlace'
  BY <1>1 DEF BooksAgree, InOnePlace
<1>4. TurnsAreTheQueues'
  BY DEF BooksAgree, TurnsAreTheQueues
<1>5. QED
  BY <1>2, <1>3, <1>4 DEF BooksAgree

LEMMA SameBooks ==
  ASSUME BooksAgree, UNCHANGED <<queues, order, scheduled, runs>>
  PROVE  BooksAgree'
<1>1. OneRunEach'
  BY DEF BooksAgree, OneRunEach
<1>2. QED
  BY <1>1, BooksOfSame DEF Runs

------------------------------------------------------------------------------
LEMMA QueueInitEstablishes == QueueInit => QueueInv
<1>1. SUFFICES ASSUME QueueInit PROVE QueueInv
  OBVIOUS
<1>2. /\ \A u \in Users : queues[u] = <<>>
      /\ queues = [u \in Users |-> <<>>] /\ order = <<>> /\ cursor = 0 /\ runs = {}
      /\ scheduled = {} /\ starting = {} /\ found = {}
  BY <1>1 DEF QueueInit
<1>3. ResearchTyped
  BY <1>1, QueueAssumption DEF QueueInit, ResearchTyped, Unfinished, JobIds
<1>4. KeysTyped /\ FoundOnce /\ LinesTyped
  BY <1>2 DEF KeysTyped, FoundOnce, LinesTyped
<1>5. CursorTyped
  <2>1. Cardinality(Users) \in Nat /\ Cardinality(Users) # 0
    BY QueueAssumption, FS_CardinalityType, FS_EmptySet
  <2>2. QED
    BY <1>2, <2>1 DEF CursorTyped
<1>6. RunsTyped
  BY <1>2, FS_EmptySet DEF RunsTyped
<1>7. FlagsTyped
  BY <1>1, Zenon DEF QueueInit, FlagsTyped
<1>8. DeferralsTyped
  BY <1>1, QueueAssumption DEF QueueInit, DeferralsTyped
<1>9. KeysAreTheJobs
  BY <1>2 DEF KeysAreTheJobs, Keys, Waits, Runs, ToSet
<1>10. InOnePlace /\ TurnsAreTheQueues
  BY <1>2 DEF InOnePlace, TurnsAreTheQueues, Runs, IsInjective, ToSet
<1>11. OneRunEach
  BY <1>2, FS_EmptySet, QueueAssumption DEF OneRunEach
<1>12. QED
  BY <1>3, <1>4, <1>5, <1>6, <1>7, <1>8, <1>9, <1>10, <1>11 DEF QueueInv, QueueTyped, BooksAgree

LEMMA QueueStutters ==
  ASSUME QueueInv, UNCHANGED queueVars
  PROVE  QueueInv'
<1>1. BooksAgree'
  BY SameBooks DEF QueueInv, queueVars, lines
<1>2. FlagsTyped'
  BY DEF QueueInv, QueueTyped, FlagsTyped, queueVars
<1>3. QED
  BY <1>1, <1>2 DEF QueueInv, QueueTyped, queueVars, durables, lines, ResearchTyped, Unfinished,
     KeysTyped, FoundOnce, LinesTyped, CursorTyped, RunsTyped, DeferralsTyped

------------------------------------------------------------------------------
(* Queueing. *)

LEMMA StartResearchPreserves ==
  ASSUME QueueInv, NEW u \in Users, StartResearch(u)
  PROVE  QueueInv'
<1>1. UNCHANGED <<found, lines, runs, drainDue, retryTimer, queueStopped, deferrals>>
  BY DEF StartResearch
<1>2. PICK i \in JobIds :
        /\ research' = [research EXCEPT ![u] = [id |-> i, status |-> "queued"]]
        /\ starting' = starting \cup {<<u, i>>}
  BY DEF StartResearch
<1>3. ResearchTyped'
  BY <1>2, QueueAssumption DEF QueueInv, QueueTyped, ResearchTyped, Unfinished, JobIds
<1>4. KeysTyped'
  BY <1>1, <1>2 DEF QueueInv, QueueTyped, KeysTyped, Keys, lines
<1>5. FlagsTyped'
  BY <1>1 DEF QueueInv, QueueTyped, FlagsTyped
<1>6. BooksAgree'
  BY <1>1, SameBooks DEF QueueInv, lines
<1>7. QED
  BY <1>1, <1>3, <1>4, <1>5, <1>6 DEF QueueInv, QueueTyped, lines, FoundOnce, LinesTyped,
     CursorTyped, RunsTyped, DeferralsTyped

LEMMA ScanReadsPreserves ==
  ASSUME QueueInv, ScanReads
  PROVE  QueueInv'
<1>1. UNCHANGED <<research, starting, lines, runs, drainDue, retryTimer, queueStopped, deferrals>>
  BY DEF ScanReads
<1>2. found' \subseteq {<<u, research[u].id>> : u \in {v \in Users : Unfinished(v)}}
  BY DEF ScanReads
<1>3. KeysTyped' /\ FoundOnce'
  BY <1>1, <1>2 DEF QueueInv, QueueTyped, ResearchTyped, KeysTyped, FoundOnce, Keys, lines
<1>4. FlagsTyped'
  BY <1>1 DEF QueueInv, QueueTyped, FlagsTyped
<1>5. BooksAgree'
  BY <1>1, SameBooks DEF QueueInv, lines
<1>6. QED
  BY <1>1, <1>3, <1>4, <1>5 DEF QueueInv, QueueTyped, lines, ResearchTyped, Unfinished,
     LinesTyped, CursorTyped, RunsTyped, DeferralsTyped

LEMMA EnqueueKeepsBooks ==
  ASSUME QueueInv, NEW jobs, jobs \subseteq Keys,
         \A u \in Users : \A i, j \in JobIds : <<u, i>> \in jobs /\ <<u, j>> \in jobs => i = j,
         Enqueue(jobs), UNCHANGED runs
  PROVE  LinesTyped' /\ scheduled' \subseteq Keys /\ BooksAgree'
<1> DEFINE fresh == jobs \ scheduled
           Owners == {u \in Users : \E i \in JobIds : <<u, i>> \in fresh}
           Idle == {u \in Owners : queues[u] = <<>>}
           Of(u) == CHOOSE i \in JobIds : <<u, i>> \in fresh
<1>1. /\ queues' = [u \in Users |-> IF u \in Owners THEN Append(queues[u], Of(u)) ELSE queues[u]]
      /\ scheduled' = scheduled \cup fresh
  BY DEF Enqueue
<1>2. PICK new \in SetToSeqs(Idle) : order' = order \o new
  BY DEF Enqueue
<1>3. \A u \in Owners : Of(u) \in JobIds /\ <<u, Of(u)>> \in fresh
  OBVIOUS
<1>4. \A u \in Users : \A i \in JobIds : <<u, i>> \in fresh <=> u \in Owners /\ i = Of(u)
  BY <1>3
<1>5. \A u \in Owners : Of(u) \notin ToSet(queues[u]) /\ ~Runs(u, Of(u))
  BY <1>3 DEF QueueInv, BooksAgree, KeysAreTheJobs, Keys, Waits
<1> HIDE DEF fresh, Of
<1>6. ASSUME NEW u \in Users
      PROVE  /\ queues'[u] \in Seq(JobIds) /\ IsInjective(queues'[u])
             /\ ToSet(queues'[u]) = IF u \in Owners THEN ToSet(queues[u]) \cup {Of(u)}
                                    ELSE ToSet(queues[u])
             /\ (queues'[u] = <<>>) <=> (u \notin Owners /\ queues[u] = <<>>)
  <2>1. queues[u] \in Seq(JobIds) /\ IsInjective(queues[u])
    BY DEF QueueInv, QueueTyped, LinesTyped, BooksAgree, InOnePlace
  <2>2. CASE u \in Owners
    <3>1. queues'[u] = Append(queues[u], Of(u)) /\ Of(u) \in JobIds
      BY <1>1, <1>3, <2>2
    <3>2. Of(u) \notin ToSet(queues[u])
      BY <1>5, <2>2
    <3>3. /\ IsInjective(Append(queues[u], Of(u)))
          /\ ToSet(Append(queues[u], Of(u))) = ToSet(queues[u]) \cup {Of(u)}
      BY <2>1, <3>1, <3>2, AppendNewElement
    <3>4. Append(queues[u], Of(u)) \in Seq(JobIds) /\ Append(queues[u], Of(u)) # <<>>
      BY <2>1, <3>1, AppendProperties
    <3>5. QED
      BY <2>2, <3>1, <3>3, <3>4
  <2>3. CASE u \notin Owners
    BY <1>1, <2>1, <2>3
  <2>4. QED
    BY <2>2, <2>3
<1>7. IsFiniteSet(Idle)
  BY QueueAssumption, FS_Subset
<1>8. new \in Seq(Users) /\ IsInjective(new) /\ ToSet(new) = Idle
  <2>1. new \in Seq(Idle) /\ IsInjective(new) /\ ToSet(new) = Idle
    BY <1>2, <1>7, OrdersOfASet
  <2>2. QED
    BY <2>1, SeqMonotonic
<1>9. order \in Seq(Users) /\ IsInjective(order) /\ ToSet(order) = {u \in Users : queues[u] # <<>>}
  BY DEF QueueInv, QueueTyped, LinesTyped, BooksAgree, TurnsAreTheQueues
<1>10. /\ order' \in Seq(Users) /\ IsInjective(order')
       /\ ToSet(order') = {u \in Users : queues[u] # <<>>} \cup Idle
  <2>1. ToSet(order) \cap ToSet(new) = {}
    BY <1>8, <1>9
  <2>2. /\ order \o new \in Seq(Users) /\ IsInjective(order \o new)
        /\ ToSet(order \o new) = ToSet(order) \cup ToSet(new)
    BY <1>8, <1>9, <2>1, ConcatInjective
  <2>3. QED
    BY <1>2, <1>8, <1>9, <2>2
<1>11. LinesTyped'
  BY <1>1, <1>6, <1>10 DEF LinesTyped
<1>12. scheduled' \subseteq Keys
  BY <1>1 DEF QueueInv, QueueTyped, KeysTyped, fresh
<1>13. ASSUME NEW u \in Users, NEW i \in JobIds
       PROVE  /\ Waits(u, i)' <=> (Waits(u, i) \/ <<u, i>> \in fresh)
              /\ Runs(u, i)' <=> Runs(u, i)
  BY <1>4, <1>6 DEF Waits, Runs
<1>14. KeysAreTheJobs'
  BY <1>1, <1>12, <1>13 DEF QueueInv, BooksAgree, KeysAreTheJobs, Keys
<1>15. InOnePlace'
  <2>1. ASSUME NEW u \in Users, NEW i \in JobIds
        PROVE  ~(Waits(u, i)' /\ Runs(u, i)')
    <3>1. ~(Waits(u, i) /\ Runs(u, i))
      BY DEF QueueInv, BooksAgree, InOnePlace
    <3>2. <<u, i>> \in fresh => ~Runs(u, i)
      BY <1>4, <1>5
    <3>3. QED
      BY ONLY <1>13, <3>1, <3>2, u \in Users, i \in JobIds
  <2>2. QED
    BY ONLY <1>6, <2>1 DEF InOnePlace
<1>16. TurnsAreTheQueues'
  BY <1>6, <1>10 DEF TurnsAreTheQueues
<1>17. OneRunEach'
  BY DEF QueueInv, BooksAgree, OneRunEach
<1>18. QED
  BY <1>11, <1>12, <1>14, <1>15, <1>16, <1>17 DEF BooksAgree

LEMMA EnqueuePreserves ==
  ASSUME QueueInv, NEW jobs, jobs \subseteq Keys,
         \A u \in Users : \A i, j \in JobIds : <<u, i>> \in jobs /\ <<u, j>> \in jobs => i = j,
         EnqueueUnlessStopped(jobs), starting' \subseteq starting, found' \subseteq found,
         UNCHANGED <<research, runs, retryTimer, queueStopped, deferrals>>
  PROVE  QueueInv'
<1>1. LinesTyped' /\ scheduled' \subseteq Keys /\ BooksAgree'
  <2>1. CASE UNCHANGED <<lines, drainDue>>
    BY <2>1, SameBooks DEF QueueInv, QueueTyped, LinesTyped, KeysTyped, lines
  <2>2. CASE Enqueue(jobs)
    BY <2>2, EnqueueKeepsBooks
  <2>3. QED
    BY <2>1, <2>2 DEF EnqueueUnlessStopped
<1>2. UNCHANGED cursor
  BY DEF EnqueueUnlessStopped, Enqueue, lines
<1>3. drainDue' \in BOOLEAN
  BY Zenon DEF EnqueueUnlessStopped, Enqueue, QueueInv, QueueTyped, FlagsTyped
<1>4. FlagsTyped'
  BY <1>3 DEF QueueInv, QueueTyped, FlagsTyped
<1>5. KeysTyped' /\ FoundOnce'
  BY <1>1 DEF QueueInv, QueueTyped, KeysTyped, FoundOnce
<1>6. QED
  BY <1>1, <1>2, <1>4, <1>5 DEF QueueInv, QueueTyped, ResearchTyped, Unfinished, CursorTyped,
     RunsTyped, DeferralsTyped

LEMMA QueueStartedPreserves ==
  ASSUME QueueInv, NEW u \in Users, QueueStarted(u)
  PROVE  QueueInv'
<1>1. PICK i \in JobIds : starting' = starting \ {<<u, i>>} /\ EnqueueUnlessStopped({<<u, i>>})
  BY DEF QueueStarted
<1>2. {<<u, i>>} \subseteq Keys
  BY DEF Keys
<1>3. \A v \in Users : \A j, k \in JobIds : <<v, j>> \in {<<u, i>>} /\ <<v, k>> \in {<<u, i>>} => j = k
  OBVIOUS
<1>4. UNCHANGED <<research, found, runs, retryTimer, queueStopped, deferrals>>
  BY DEF QueueStarted
<1>5. QED
  BY <1>1, <1>2, <1>3, <1>4, EnqueuePreserves

LEMMA ScanQueuesPreserves ==
  ASSUME QueueInv, ScanQueues
  PROVE  QueueInv'
<1>1. found \subseteq Keys
      /\ \A u \in Users : \A i, j \in JobIds : <<u, i>> \in found /\ <<u, j>> \in found => i = j
  BY DEF QueueInv, QueueTyped, KeysTyped, FoundOnce
<1>2. QED
  BY <1>1, EnqueuePreserves DEF ScanQueues
------------------------------------------------------------------------------
(* Dispatch. *)

LEMMA CursorStaysTyped ==
  ASSUME QueueInv, NEW k \in 1..Len(order), Passes(k)
  PROVE  CursorTyped'
<1>1. order \in Seq(Users) /\ IsInjective(order)
  BY DEF QueueInv, QueueTyped, LinesTyped, BooksAgree, TurnsAreTheQueues
<1>2. order \in Injection(1..Len(order), Users)
  BY <1>1 DEF Injection
<1>3. Len(order) \in Nat /\ IsFiniteSet(1..Len(order)) /\ Cardinality(1..Len(order)) = Len(order)
  BY <1>1, FS_Interval
<1>4. Len(order) <= Cardinality(Users) /\ Cardinality(Users) \in Nat
  BY <1>2, <1>3, QueueAssumption, FS_Injection, FS_CardinalityType
<1>5. k \in Nat /\ Len(order) > 0 /\ k % Len(order) \in 0..(Len(order) - 1)
  BY <1>3
<1>6. QED
  BY <1>3, <1>4, <1>5 DEF Passes, CursorTyped

\* Where the first job of a user is taken from the queue and begins to run.
LEMMA TakingKeepsBooks ==
  ASSUME QueueInv, NEW k \in 1..Len(order), Cardinality(runs) < Concurrency,
         \A r \in runs : r.user # order[k],
         Takes(k), UNCHANGED scheduled
  PROVE  LinesTyped' /\ RunsTyped' /\ BooksAgree'
<1> DEFINE u == order[k]
           job == Head(queues[u])
           rest == Tail(queues[u])
           run == [user |-> u, id |-> job, stage |-> "begun"]
<1>1. /\ queues' = [queues EXCEPT ![u] = rest]
      /\ order' = IF rest = <<>> THEN RemoveAt(order, k) ELSE order
      /\ runs' = runs \cup {run}
  BY DEF Takes
<1>2. /\ order \in Seq(Users) /\ IsInjective(order)
      /\ ToSet(order) = {v \in Users : queues[v] # <<>>}
      /\ queues \in [Users -> Seq(JobIds)]
  BY DEF QueueInv, QueueTyped, LinesTyped, BooksAgree, TurnsAreTheQueues
<1>3. u \in Users /\ queues[u] # <<>> /\ queues[u] \in Seq(JobIds)
  BY <1>2 DEF ToSet
<1>4. /\ job \in JobIds /\ job \in ToSet(queues[u])
      /\ rest \in Seq(JobIds) /\ IsInjective(rest)
      /\ ToSet(rest) = ToSet(queues[u]) \ {job}
  BY <1>3, TailInjective DEF QueueInv, BooksAgree, InOnePlace
<1>5. run \in [user : Users, id : JobIds, stage : Stages] /\ run.user = u /\ run.id = job
  BY <1>3, <1>4 DEF Stages
<1>6. \A r \in runs : r.user # u
  OBVIOUS
<1> HIDE DEF u, job, rest, run
<1>7. RunsTyped'
  BY <1>1, <1>5, FS_AddElement DEF QueueInv, QueueTyped, RunsTyped
<1>8. LinesTyped'
  <2>1. RemoveAt(order, k) \in Seq(Users)
    BY <1>2, RemoveAtPlaces
  <2>2. QED
    BY <1>1, <1>2, <1>3, <1>4, <2>1 DEF LinesTyped
<1>9. OneRunEach'
  <2>1. IsFiniteSet(runs) /\ Cardinality(runs) \in Nat
    BY FS_CardinalityType DEF QueueInv, QueueTyped, RunsTyped
  <2>2. run \notin runs
    BY <1>5, <1>6
  <2>3. Cardinality(runs') = Cardinality(runs) + 1
    BY <1>1, <2>1, <2>2, FS_AddElement
  <2>4. Cardinality(runs') <= Concurrency
    BY <2>1, <2>3, QueueAssumption
  <2>5. \A r, s \in runs' : r.user = s.user => r = s
    BY <1>1, <1>5, <1>6 DEF QueueInv, BooksAgree, OneRunEach
  <2>6. QED
    BY <2>4, <2>5 DEF OneRunEach
<1>10. TurnsAreTheQueues'
  <2>1. \A v \in Users : queues'[v] = IF v = u THEN rest ELSE queues[v]
    BY <1>1, <1>2
  <2>2. CASE rest = <<>>
    <3>1. IsInjective(RemoveAt(order, k)) /\ ToSet(RemoveAt(order, k)) = ToSet(order) \ {u}
      BY <1>2, RemoveAtInjective DEF u
    <3>2. QED
      BY <1>1, <1>2, <1>3, <2>1, <2>2, <3>1 DEF TurnsAreTheQueues
  <2>3. CASE rest # <<>>
    BY <1>1, <1>2, <1>3, <2>1, <2>3 DEF TurnsAreTheQueues
  <2>4. QED
    BY <2>2, <2>3
<1>11. ASSUME NEW v \in Users, NEW i \in JobIds
       PROVE  /\ Waits(v, i)' <=> (Waits(v, i) /\ ~(v = u /\ i = job))
              /\ Runs(v, i)' <=> (Runs(v, i) \/ (v = u /\ i = job))
  <2>1. queues'[v] = IF v = u THEN rest ELSE queues[v]
    BY <1>1, <1>2
  <2>2. Waits(v, i)' <=> (Waits(v, i) /\ ~(v = u /\ i = job))
    BY <1>4, <2>1 DEF Waits
  <2>3. Runs(v, i)' <=> (Runs(v, i) \/ (v = u /\ i = job))
    BY <1>1, <1>5 DEF Runs
  <2>4. QED
    BY <2>2, <2>3
<1>12. Waits(u, job)
  BY <1>4 DEF Waits
<1>13. KeysAreTheJobs'
  BY <1>3, <1>4, <1>11, <1>12 DEF QueueInv, BooksAgree, KeysAreTheJobs, Keys
<1>14. InOnePlace'
  <2>1. ASSUME NEW v \in Users PROVE IsInjective(queues'[v])
    BY <1>1, <1>2, <1>4 DEF QueueInv, BooksAgree, InOnePlace
  <2>2. ASSUME NEW v \in Users, NEW i \in JobIds PROVE ~(Waits(v, i)' /\ Runs(v, i)')
    BY <1>11 DEF QueueInv, BooksAgree, InOnePlace
  <2>3. QED
    BY <2>1, <2>2 DEF InOnePlace
<1>15. QED
  BY <1>7, <1>8, <1>9, <1>10, <1>13, <1>14 DEF BooksAgree

LEMMA DrainPreserves ==
  ASSUME QueueInv, Drain
  PROVE  QueueInv'
<1>1. UNCHANGED <<durables, scheduled, queueStopped>>
  BY DEF Drain, DrainTakes, DrainRefused, DrainReturns, lines
<1>2. ResearchTyped' /\ KeysTyped' /\ FoundOnce'
  BY <1>1 DEF QueueInv, QueueTyped, durables, ResearchTyped, Unfinished, KeysTyped, FoundOnce
<1>3. FlagsTyped'
  BY Zenon, <1>1 DEF QueueInv, QueueTyped, FlagsTyped, Drain, DrainTakes, DrainRefused, DrainReturns
<1>4. CASE DrainTakes
  <2>1. PICK k \in 1..Len(order) : IsNext(k) /\ Passes(k) /\ Takes(k)
    BY <1>4 DEF DrainTakes
  <2>2. Cardinality(runs) < Concurrency /\ \A r \in runs : r.user # order[k]
    BY <1>4, <2>1 DEF DrainTakes, Dispatching, IsNext, Eligible
  <2>3. LinesTyped' /\ RunsTyped' /\ BooksAgree'
    BY <1>1, <2>1, <2>2, TakingKeepsBooks
  <2>4. CursorTyped'
    BY <2>1, CursorStaysTyped
  <2>5. DeferralsTyped'
    BY <1>4 DEF DrainTakes, QueueInv, QueueTyped, DeferralsTyped
  <2>6. QED
    BY <1>2, <1>3, <2>3, <2>4, <2>5 DEF QueueInv, QueueTyped
<1>5. CASE DrainRefused
  <2>1. CursorTyped'
    BY <1>5, CursorStaysTyped DEF DrainRefused
  <2>2. DeferralsTyped'
    BY <1>5, QueueAssumption DEF DrainRefused, QueueInv, QueueTyped, DeferralsTyped
  <2>3. LinesTyped' /\ RunsTyped' /\ BooksAgree'
    BY <1>5, SameBooks DEF DrainRefused, QueueInv, QueueTyped, LinesTyped, RunsTyped
  <2>4. QED
    BY <1>2, <1>3, <2>1, <2>2, <2>3 DEF QueueInv, QueueTyped
<1>6. CASE DrainReturns
  <2>1. LinesTyped' /\ RunsTyped' /\ BooksAgree' /\ CursorTyped' /\ DeferralsTyped'
    BY <1>6, SameBooks DEF DrainReturns, lines, QueueInv, QueueTyped, LinesTyped, RunsTyped,
       CursorTyped, DeferralsTyped
  <2>2. QED
    BY <1>2, <1>3, <2>1 DEF QueueInv, QueueTyped
<1>7. QED
  BY <1>4, <1>5, <1>6 DEF Drain

LEMMA RetryPreserves ==
  ASSUME QueueInv, RetryFires
  PROVE  QueueInv'
<1>1. UNCHANGED <<durables, lines, runs, queueStopped, deferrals>>
  BY DEF RetryFires
<1>2. FlagsTyped'
  BY DEF RetryFires, QueueInv, QueueTyped, FlagsTyped
<1>3. BooksAgree'
  BY <1>1, SameBooks DEF QueueInv, lines
<1>4. QED
  BY <1>1, <1>2, <1>3 DEF QueueInv, QueueTyped, durables, lines, ResearchTyped, Unfinished,
     KeysTyped, FoundOnce, LinesTyped, CursorTyped, RunsTyped, DeferralsTyped
------------------------------------------------------------------------------
(* The runs. *)

\* A run that goes from one stage to another.
LEMMA EnteringKeepsBooks ==
  ASSUME QueueInv, NEW r \in runs, NEW stage \in Stages, Enters(r, stage), UNCHANGED lines
  PROVE  RunsTyped' /\ BooksAgree'
<1> DEFINE next == [r EXCEPT !.stage = stage]
<1>1. runs' = (runs \ {r}) \cup {next}
  BY DEF Enters
<1>2. r \in [user : Users, id : JobIds, stage : Stages] /\ IsFiniteSet(runs)
  BY DEF QueueInv, QueueTyped, RunsTyped
<1>3. /\ next \in [user : Users, id : JobIds, stage : Stages]
      /\ next.user = r.user /\ next.id = r.id
  BY <1>2
<1> HIDE DEF next
<1>4. IsFiniteSet(runs \ {r}) /\ Cardinality(runs \ {r}) = Cardinality(runs) - 1
  BY <1>2, FS_RemoveElement
<1>5. IsFiniteSet(runs')
  BY <1>1, <1>4, FS_AddElement
<1>6. RunsTyped'
  BY <1>1, <1>3, <1>5 DEF QueueInv, QueueTyped, RunsTyped
<1>7. Cardinality(runs') <= Concurrency
  <2>1. Cardinality(runs) \in Nat
    BY <1>2, FS_CardinalityType
  <2>2. \/ Cardinality(runs') = Cardinality(runs) - 1
        \/ Cardinality(runs') = Cardinality(runs) - 1 + 1
    BY <1>1, <1>4, FS_AddElement
  <2>3. QED
    BY <2>1, <2>2, QueueAssumption DEF QueueInv, BooksAgree, OneRunEach
<1>8. OneRunEach'
  BY <1>1, <1>3, <1>7 DEF QueueInv, BooksAgree, OneRunEach
<1>9. \A u \in Users : \A i \in JobIds : Runs(u, i)' <=> Runs(u, i)
  BY <1>1, <1>3 DEF Runs
<1>10. QED
  BY <1>6, <1>8, <1>9, BooksOfSame DEF QueueInv, lines

LEMMA RecordsKeepsTypes ==
  ASSUME ResearchTyped, NEW r, r.user \in Users,
         NEW status \in {"queued", "running", "failed"}, Records(r, status)
  PROVE  ResearchTyped'
<1> DEFINE u == r.user
           new == IF research[u].id = r.id /\ Unfinished(u) THEN status ELSE research[u].status
<1>1. research' = [research EXCEPT ![u].status = new]
  BY DEF Records
<1>2. new \in {"none", "queued", "running", "failed"}
  BY DEF ResearchTyped
<1>3. new \in {"queued", "running"} => Unfinished(u)
  BY DEF Unfinished
<1> HIDE DEF u, new
<1>4. /\ research' \in [Users -> [id : 0..MaxJobs, status : {"none", "queued", "running", "failed"}]]
      /\ \A v \in Users : /\ research'[v].id = research[v].id
                          /\ research'[v].status = IF v = u THEN new ELSE research[v].status
  BY <1>1, <1>2 DEF ResearchTyped
<1>5. \A v \in Users : Unfinished(v)' => Unfinished(v)
  BY <1>3, <1>4 DEF Unfinished
<1>6. QED
  BY <1>4, <1>5 DEF ResearchTyped

LEMMA GoingOnPreserves ==
  ASSUME QueueInv, NEW r \in runs, Researches(r) \/ Fails(r) \/ Defers(r)
  PROVE  QueueInv'
<1>1. UNCHANGED <<starting, found, lines, drainDue, retryTimer, queueStopped>>
  BY DEF Researches, Fails, Defers
<1>2. PICK status \in {"queued", "running", "failed"}, stage \in Stages :
        Records(r, status) /\ Enters(r, stage)
  BY DEF Researches, Fails, Defers, Stages
<1>3. ResearchTyped'
  BY <1>2, RecordsKeepsTypes DEF QueueInv, QueueTyped, RunsTyped
<1>4. RunsTyped' /\ BooksAgree'
  BY <1>1, <1>2, EnteringKeepsBooks
<1>5. DeferralsTyped'
  BY QueueAssumption DEF Researches, Fails, Defers, QueueInv, QueueTyped, DeferralsTyped
<1>6. FlagsTyped'
  BY <1>1 DEF QueueInv, QueueTyped, FlagsTyped
<1>7. QED
  BY <1>1, <1>3, <1>4, <1>5, <1>6 DEF QueueInv, QueueTyped, lines, KeysTyped, FoundOnce,
     LinesTyped, CursorTyped

LEMMA OneRunLess ==
  ASSUME IsFiniteSet(runs), BooksAgree, NEW r \in runs, runs' = runs \ {r}
  PROVE  OneRunEach'
<1>1. Cardinality(runs) \in Nat /\ Cardinality(runs') = Cardinality(runs) - 1
  BY FS_RemoveElement, FS_CardinalityType
<1>2. Cardinality(runs') <= Concurrency
  BY <1>1, QueueAssumption DEF BooksAgree, OneRunEach
<1>3. QED
  BY <1>2 DEF BooksAgree, OneRunEach

\* A deferred job goes back to the head of its user's queue.
LEMMA PuttingBackKeepsBooks ==
  ASSUME QueueInv, NEW r \in runs, runs' = runs \ {r},
         queues' = [queues EXCEPT ![r.user] = <<r.id>> \o @],
         order' = IF queues[r.user] = <<>> THEN Append(order, r.user) ELSE order,
         UNCHANGED scheduled
  PROVE  LinesTyped' /\ BooksAgree'
<1>1. r.user \in Users /\ r.id \in JobIds
  BY DEF QueueInv, QueueTyped, RunsTyped
<1> DEFINE u == r.user
           q == <<r.id>> \o queues[u]
<1>2. /\ order \in Seq(Users) /\ IsInjective(order)
      /\ ToSet(order) = {v \in Users : queues[v] # <<>>}
      /\ queues \in [Users -> Seq(JobIds)] /\ IsInjective(queues[u])
  BY <1>1 DEF QueueInv, QueueTyped, LinesTyped, BooksAgree, TurnsAreTheQueues, InOnePlace
<1>3. Runs(u, r.id) /\ ~Waits(u, r.id)
  BY <1>1 DEF Runs, QueueInv, BooksAgree, InOnePlace
<1>4. /\ q \in Seq(JobIds) /\ q # <<>> /\ IsInjective(q)
      /\ ToSet(q) = ToSet(queues[u]) \cup {r.id}
  <2> DEFINE one == <<r.id>>
  <2>1. /\ one \in Seq(JobIds) /\ IsInjective(one) /\ ToSet(one) = {r.id}
        /\ queues[u] \in Seq(JobIds) /\ Len(one) = 1
    BY <1>1, <1>2 DEF IsInjective, ToSet
  <2> HIDE DEF one
  <2>2. ToSet(one) \cap ToSet(queues[u]) = {}
    BY <1>3, <2>1 DEF Waits
  <2>3. q = one \o queues[u]
    BY DEF one
  <2>4. /\ one \o queues[u] \in Seq(JobIds) /\ IsInjective(one \o queues[u])
        /\ ToSet(one \o queues[u]) = ToSet(one) \cup ToSet(queues[u])
    BY <1>2, <2>1, <2>2, ConcatInjective
  <2>5. one \o queues[u] # <<>>
    <3>1. ToSet(<<>>) = {}
      BY DEF ToSet
    <3>2. r.id \in ToSet(one \o queues[u])
      BY <2>1, <2>4
    <3>3. QED
      BY <3>1, <3>2
  <2>6. QED
    BY <2>1, <2>3, <2>4, <2>5
<1> HIDE DEF q
<1>5. \A v \in Users : queues'[v] = IF v = u THEN q ELSE queues[v]
  BY <1>1, <1>2 DEF q
<1>6. LinesTyped' /\ TurnsAreTheQueues'
  <2>1. queues' \in [Users -> Seq(JobIds)]
    BY <1>1, <1>2, <1>4 DEF q
  <2>2. CASE queues[u] = <<>>
    <3>1. order' = Append(order, u) /\ u \notin ToSet(order)
      BY <1>2, <2>2
    <3>2. /\ order' \in Seq(Users) /\ IsInjective(order')
          /\ ToSet(order') = ToSet(order) \cup {u}
      BY <1>1, <1>2, <3>1, AppendNewElement
    <3>3. QED
      BY <1>1, <1>2, <1>4, <1>5, <2>1, <2>2, <3>2 DEF LinesTyped, TurnsAreTheQueues
  <2>3. CASE queues[u] # <<>>
    BY <1>1, <1>2, <1>4, <1>5, <2>1, <2>3 DEF LinesTyped, TurnsAreTheQueues
  <2>4. QED
    BY <2>2, <2>3
<1>7. ASSUME NEW v \in Users, NEW i \in JobIds
      PROVE  /\ Waits(v, i)' <=> (Waits(v, i) \/ (v = u /\ i = r.id))
             /\ Runs(v, i)' <=> (Runs(v, i) /\ ~(v = u /\ i = r.id))
  <2>1. Waits(v, i)' <=> (Waits(v, i) \/ (v = u /\ i = r.id))
    BY <1>4, <1>5 DEF Waits
  <2>2. Runs(v, i)' <=> (Runs(v, i) /\ ~(v = u /\ i = r.id))
    BY DEF Runs, QueueInv, BooksAgree, OneRunEach
  <2>3. QED
    BY <2>1, <2>2
<1>8. KeysAreTheJobs'
  BY <1>1, <1>3, <1>7 DEF QueueInv, BooksAgree, KeysAreTheJobs, Keys
<1>9. InOnePlace'
  <2>1. ASSUME NEW v \in Users PROVE IsInjective(queues'[v])
    BY <1>4, <1>5 DEF QueueInv, BooksAgree, InOnePlace
  <2>2. ASSUME NEW v \in Users, NEW i \in JobIds PROVE ~(Waits(v, i)' /\ Runs(v, i)')
    BY <1>3, <1>7 DEF QueueInv, BooksAgree, InOnePlace
  <2>3. QED
    BY <2>1, <2>2 DEF InOnePlace
<1>10. OneRunEach'
  BY OneRunLess DEF QueueInv, QueueTyped, RunsTyped
<1>11. QED
  BY <1>6, <1>8, <1>9, <1>10 DEF BooksAgree

\* A job that is done with leaves the books.
LEMMA LeavingKeepsBooks ==
  ASSUME QueueInv, NEW r \in runs, runs' = runs \ {r},
         scheduled' = scheduled \ {<<r.user, r.id>>}, UNCHANGED <<queues, order>>
  PROVE  BooksAgree'
<1>1. r.user \in Users /\ r.id \in JobIds
  BY DEF QueueInv, QueueTyped, RunsTyped
<1>2. ~Waits(r.user, r.id)
  BY <1>1 DEF Runs, QueueInv, BooksAgree, InOnePlace
<1>3. ASSUME NEW v \in Users, NEW i \in JobIds
      PROVE  /\ Waits(v, i)' <=> Waits(v, i)
             /\ Runs(v, i)' <=> (Runs(v, i) /\ ~(v = r.user /\ i = r.id))
  <2>1. Waits(v, i)' <=> Waits(v, i)
    BY DEF Waits
  <2>2. Runs(v, i)' <=> (Runs(v, i) /\ ~(v = r.user /\ i = r.id))
    BY DEF Runs, QueueInv, BooksAgree, OneRunEach
  <2>3. QED
    BY <2>1, <2>2
<1>4. KeysAreTheJobs'
  BY <1>1, <1>2, <1>3 DEF QueueInv, BooksAgree, KeysAreTheJobs, Keys
<1>5. InOnePlace'
  BY <1>3 DEF QueueInv, BooksAgree, InOnePlace
<1>6. OneRunEach'
  BY OneRunLess DEF QueueInv, QueueTyped, RunsTyped
<1>7. TurnsAreTheQueues'
  BY DEF QueueInv, BooksAgree, TurnsAreTheQueues
<1>8. QED
  BY <1>4, <1>5, <1>6, <1>7 DEF BooksAgree

LEMMA SettlesPreserves ==
  ASSUME QueueInv, NEW r \in runs, Settles(r)
  PROVE  QueueInv'
<1>1. UNCHANGED <<durables, cursor, queueStopped, deferrals>> /\ runs' = runs \ {r}
      /\ drainDue' = TRUE
  BY DEF Settles
<1>2. LinesTyped' /\ scheduled' \subseteq scheduled /\ BooksAgree'
  <2>1. CASE r.stage = "deferred" /\ ~queueStopped
    BY <1>1, <2>1, PuttingBackKeepsBooks DEF Settles
  <2>2. CASE ~(r.stage = "deferred" /\ ~queueStopped)
    <3>1. scheduled' = scheduled \ {<<r.user, r.id>>} /\ UNCHANGED <<queues, order>>
      BY <2>2 DEF Settles
    <3>2. QED
      BY <1>1, <3>1, LeavingKeepsBooks DEF QueueInv, QueueTyped, LinesTyped
  <2>3. QED
    BY <2>1, <2>2
<1>3. retryTimer' \in BOOLEAN
  BY Zenon DEF Settles, QueueInv, QueueTyped, FlagsTyped
<1>4. FlagsTyped'
  BY <1>1, <1>3 DEF QueueInv, QueueTyped, FlagsTyped
<1>5. RunsTyped'
  BY <1>1, FS_RemoveElement DEF QueueInv, QueueTyped, RunsTyped
<1>6. QED
  BY <1>1, <1>2, <1>4, <1>5 DEF QueueInv, QueueTyped, durables, ResearchTyped, Unfinished,
     KeysTyped, FoundOnce, CursorTyped, DeferralsTyped

LEMMA RunStepPreserves ==
  ASSUME QueueInv, NEW u \in Users, RunStep(u)
  PROVE  QueueInv'
  BY GoingOnPreserves, SettlesPreserves DEF RunStep

------------------------------------------------------------------------------
(* The stop. *)

LEMMA StopQueuePreserves ==
  ASSUME QueueInv, StopQueue
  PROVE  QueueInv'
<1>1. /\ UNCHANGED <<durables, cursor, runs, drainDue, deferrals>>
      /\ queueStopped' = TRUE /\ retryTimer' = FALSE
      /\ scheduled' = scheduled \ {key \in Keys : key[2] \in ToSet(queues[key[1]])}
      /\ queues' = [u \in Users |-> <<>>] /\ order' = <<>>
  BY DEF StopQueue
<1>2. ASSUME NEW v \in Users, NEW i \in JobIds
      PROVE  ~Waits(v, i)' /\ (Runs(v, i)' <=> Runs(v, i))
  BY <1>1 DEF Waits, Runs, ToSet
<1>3. KeysAreTheJobs'
  <2>1. ASSUME NEW v \in Users, NEW i \in JobIds
        PROVE  <<v, i>> \in scheduled' <=> Runs(v, i)
    BY <1>1 DEF QueueInv, BooksAgree, KeysAreTheJobs, InOnePlace, Keys, Waits
  <2>2. scheduled' \subseteq Keys
    BY <1>1 DEF QueueInv, QueueTyped, KeysTyped
  <2>3. QED
    BY <1>2, <2>1, <2>2 DEF KeysAreTheJobs, Keys
<1>4. InOnePlace' /\ TurnsAreTheQueues'
  BY <1>1, <1>2 DEF InOnePlace, TurnsAreTheQueues, IsInjective, ToSet
<1>5. OneRunEach'
  BY <1>1 DEF QueueInv, BooksAgree, OneRunEach
<1>6. LinesTyped' /\ KeysTyped'
  BY <1>1 DEF QueueInv, QueueTyped, LinesTyped, KeysTyped, durables
<1>7. FlagsTyped'
  BY <1>1 DEF QueueInv, QueueTyped, FlagsTyped
<1>8. QED
  BY <1>1, <1>3, <1>4, <1>5, <1>6, <1>7 DEF QueueInv, QueueTyped, BooksAgree, durables,
     ResearchTyped, Unfinished, FoundOnce, CursorTyped, RunsTyped, DeferralsTyped

------------------------------------------------------------------------------
(* The worker. *)

Flags == acceptingKicks \in BOOLEAN /\ rerunRequested \in BOOLEAN

Shape ==
  /\ phase \in {"idle", "starting", "draining", "reporting"}
  /\ stopper \in {"none", "waiting", "done"}
  /\ waiting \subseteq Producers

\* An idle worker owes no round, and one that was told to stop takes no kick.
IdleOwesNothing == phase = "idle" => ~rerunRequested
StopperRefuses == stopper # "none" => ~acceptingKicks

WorkerInv ==
  /\ Flags /\ Shape /\ IdleOwesNothing /\ StopperRefuses
  /\ NoWakeLost /\ StoppedIsQuiet

LEMMA InitEstablishes == Init => WorkerInv
  BY DEF Init, WorkerInv, Flags, Shape, IdleOwesNothing, StopperRefuses, NoWakeLost,
         StoppedIsQuiet

LEMMA KickPreserves ==
  ASSUME WorkerInv, NEW p \in Producers, Kick(p)
  PROVE  WorkerInv'
<1>1. Shape'
  BY DEF WorkerInv, Shape, Kick
<1>2. Flags' /\ IdleOwesNothing' /\ StopperRefuses'
  BY DEF WorkerInv, Flags, IdleOwesNothing, StopperRefuses, Kick
<1>3. NoWakeLost' /\ StoppedIsQuiet'
  BY DEF WorkerInv, Shape, NoWakeLost, StoppedIsQuiet, StopperRefuses, Kick
<1>4. QED
  BY <1>1, <1>2, <1>3 DEF WorkerInv

LEMMA StartLoopPreserves ==
  ASSUME WorkerInv, StartLoop
  PROVE  WorkerInv'
<1>1. Flags'
  BY DEF WorkerInv, Flags, StartLoop
<1>2. QED
  BY <1>1 DEF WorkerInv, Shape, IdleOwesNothing, StopperRefuses, NoWakeLost, StoppedIsQuiet,
              StartLoop, BeginDrain

LEMMA DrainFailsPreserves ==
  ASSUME WorkerInv, DrainFails
  PROVE  WorkerInv'
<1>1. Flags'
  BY DEF WorkerInv, Flags, DrainFails
<1>2. QED
  BY <1>1 DEF WorkerInv, Shape, IdleOwesNothing, StopperRefuses, NoWakeLost, StoppedIsQuiet,
              DrainFails

LEMMA EndRoundPreserves ==
  ASSUME WorkerInv, EndRound
  PROVE  WorkerInv'
<1>1. Flags'
  BY DEF WorkerInv, Flags, EndRound
<1>2. CASE rerunRequested
  BY <1>1, <1>2 DEF WorkerInv, Shape, IdleOwesNothing, StopperRefuses, NoWakeLost,
                    StoppedIsQuiet, EndRound, BeginDrain
<1>3. CASE ~rerunRequested
  BY <1>1, <1>3 DEF WorkerInv, Shape, IdleOwesNothing, StopperRefuses, NoWakeLost,
                    StoppedIsQuiet, EndRound
<1>4. QED
  BY <1>2, <1>3

LEMMA StopPreserves ==
  ASSUME WorkerInv, StopAndWait \/ StopDone
  PROVE  WorkerInv'
<1>1. UNCHANGED <<phase, rerunRequested, waiting>>
  BY DEF StopAndWait, StopDone
<1>2. Shape'
  BY <1>1 DEF WorkerInv, Shape, StopAndWait, StopDone
<1>3. Flags' /\ IdleOwesNothing' /\ NoWakeLost'
  BY <1>1 DEF WorkerInv, Flags, StopAndWait, StopDone, IdleOwesNothing, NoWakeLost
<1>4. StopperRefuses'
  BY DEF WorkerInv, StopperRefuses, StopAndWait, StopDone
<1>5. StoppedIsQuiet'
  BY <1>1 DEF WorkerInv, StoppedIsQuiet, StopperRefuses, NoWakeLost, StopAndWait, StopDone
<1>6. QED
  BY <1>2, <1>3, <1>4, <1>5 DEF WorkerInv

LEMMA StepPreserves ==
  ASSUME WorkerInv, [Next]_vars
  PROVE  WorkerInv'
<1>1. CASE UNCHANGED vars
  BY <1>1 DEF vars, WorkerInv, Flags, Shape, IdleOwesNothing, StopperRefuses, NoWakeLost,
              StoppedIsQuiet
<1>2. QED
  BY <1>1, KickPreserves, StartLoopPreserves, DrainFailsPreserves, EndRoundPreserves,
     StopPreserves DEF Next

\* The strengthened invariant of the worker holds in every reachable state.
THEOREM WorkerInvariance == Spec => []WorkerInv
<1>1. WorkerInv /\ [Next]_vars => WorkerInv'
  BY StepPreserves
<1>2. QED
  BY <1>1, InitEstablishes, PTL DEF Spec

\* The worker's state keeps its types.
THEOREM WorkerTypeCorrect == Spec => []TypeOK
<1>1. WorkerInv => TypeOK
  BY DEF WorkerInv, Flags, Shape, TypeOK
<1>2. QED
  BY <1>1, WorkerInvariance, PTL

\* kick: an accepted wake is always followed by a drain that is still to come.
THEOREM WakesAreKept == Spec => []NoWakeLost
<1>1. WorkerInv => NoWakeLost
  BY DEF WorkerInv
<1>2. QED
  BY <1>1, WorkerInvariance, PTL

\* stopAndWait: once it has resolved, every accepted wake was served.
THEOREM StopIsFinal == Spec => []StoppedIsQuiet
<1>1. WorkerInv => StoppedIsQuiet
  BY DEF WorkerInv
<1>2. QED
  BY <1>1, WorkerInvariance, PTL

------------------------------------------------------------------------------
(* The stop of the composition. *)

TaskType == task \in [RecurringTasks -> {"idle", "working", "waiting"}]

\* One step tells every part to stop.
StopsTogether ==
  /\ queueStopped \in BOOLEAN
  /\ queueStopped <=> Stopping
  /\ (stopper = "none") <=> ~Stopping

EmptyOnceStopped == queueStopped => order = <<>> /\ retryTimer = FALSE

QuietOnceIdle ==
  shutdown = "idle" =>
    /\ stopper = "done"
    /\ \A t \in RecurringTasks : task[t] = "idle"
    /\ recovery \in {"none", "over"}
    /\ detached = {}
    /\ runs = {}

StopInv ==
  /\ WorkerInv /\ TaskType /\ StopsTogether /\ EmptyOnceStopped /\ QuietOnceIdle

------------------------------------------------------------------------------
(* The worker takes no other steps in the composition. *)

LEMMA WorkerSteps == BackgroundNext => [Next]_vars
<1>1. SUFFICES ASSUME BackgroundNext, vars' # vars
               PROVE  Next
  OBVIOUS
<1>2. CASE KickAndWait
  BY <1>2, BackgroundAssumption DEF KickAndWait, Next
<1>3. CASE \E p \in Requests : RequestKicks(p)
  BY <1>3, BackgroundAssumption DEF RequestKicks, Next
<1>4. CASE WorkerGoesOn
  BY <1>4 DEF WorkerGoesOn, Next
<1>5. CASE BeginBackgroundShutdown
  BY <1>5 DEF BeginBackgroundShutdown, Next
<1>6. QED
  BY <1>1, <1>2, <1>3, <1>4, <1>5
     DEF BackgroundNext, workerVars, QueueDrains, Tick, TaskStep, Skip, Scan, ScanEnds,
         RecoveryStep, RunRecovery, Launch, RecoveryAborted, Track, Untrack, QueueRetries,
         RequestStartsResearch, RunGoesOn, BackgroundIsIdle

LEMMA WorkerStaysSound ==
  ASSUME WorkerInv, BackgroundNext
  PROVE  WorkerInv'
  BY WorkerSteps, StepPreserves

------------------------------------------------------------------------------
(* The recurring tasks. *)

LEMMA TypedRunEnds ==
  ASSUME TaskType, NEW t \in RecurringTasks, RunEnds(t), UNCHANGED load
  PROVE  TaskType'
<1>1. RecurringTasks' = RecurringTasks
  BY DEF RecurringTasks
<1>2. QED
  BY <1>1 DEF TaskType, RunEnds

LEMMA RecurringTaskPreserves ==
  ASSUME StopInv, WorkerInv', NEW t \in RecurringTasks, Tick(t) \/ TaskStep(t)
  PROVE  StopInv'
<1>1. RecurringTasks' = RecurringTasks
  BY DEF RecurringTasks, Tick, TaskStep, Skip, KickAndWait, Scan, ScanEnds
<1>2. shutdown # "idle"
  BY DEF StopInv, QuietOnceIdle, Stopping, Tick, RunNow, TaskStep, Skip, KickAndWait, Scan,
         ScanEnds
<1>3. UNCHANGED <<shutdown, queueStopped>>
  BY DEF Tick, TaskStep, Skip, KickAndWait, Scan, ScanEnds, queueVars, ScanReads, ScanQueues
<1>4. TaskType'
  <2>1. CASE Tick(t)
    BY <1>1, <2>1 DEF StopInv, TaskType, Tick, RunNow
  <2>2. CASE Skip(t)
    BY <2>2, TypedRunEnds DEF StopInv, Skip
  <2>3. CASE t = MailFetch /\ KickAndWait
    BY <1>1, <2>3 DEF StopInv, TaskType, KickAndWait
  <2>4. CASE t = ResearchRecovery /\ Scan
    BY <1>1, <2>4 DEF StopInv, TaskType, Scan
  <2>5. CASE t = ResearchRecovery /\ ScanEnds
    BY <2>5, TypedRunEnds DEF StopInv, ScanEnds
  <2>6. QED
    BY <2>1, <2>2, <2>3, <2>4, <2>5 DEF TaskStep
<1>5. StopsTogether'
  <2>1. stopper' = stopper
    BY DEF Tick, TaskStep, Skip, KickAndWait, Kick, Scan, ScanEnds, workerVars, vars
  <2>2. QED
    BY <1>3, <2>1 DEF StopInv, StopsTogether, Stopping
<1>6. EmptyOnceStopped'
  BY <1>3 DEF StopInv, EmptyOnceStopped, Tick, TaskStep, Skip, KickAndWait, Scan, ScanEnds,
              queueVars, lines, ScanReads, ScanQueues, EnqueueUnlessStopped
<1>7. QuietOnceIdle'
  BY <1>2, <1>3 DEF QuietOnceIdle
<1>8. QED
  BY <1>4, <1>5, <1>6, <1>7 DEF StopInv

------------------------------------------------------------------------------
(* The other actions. *)

LEMMA RecoveryPreserves ==
  ASSUME StopInv, WorkerInv', RecoveryStep
  PROVE  StopInv'
<1>1. UNCHANGED <<workerVars, queueVars, load, detached, shutdown>>
  BY DEF RecoveryStep, RunRecovery, Launch, RecoveryAborted
<1>2. TaskType'
  <2>1. RecurringTasks' = RecurringTasks
    BY <1>1 DEF RecurringTasks
  <2>2. QED
    BY <2>1 DEF StopInv, TaskType, RecoveryStep, RunRecovery, Launch, RecoveryAborted, RunNow
<1>3. StopsTogether' /\ EmptyOnceStopped'
  BY <1>1 DEF StopInv, StopsTogether, EmptyOnceStopped, Stopping, workerVars, vars, queueVars,
              lines
<1>4. QuietOnceIdle'
  <2>1. SUFFICES ASSUME shutdown = "idle" PROVE QuietOnceIdle'
    BY <1>1 DEF QuietOnceIdle
  <2>2. recovery' = "over" /\ UNCHANGED task
    BY <2>1 DEF RecoveryStep, RunRecovery, Launch, RecoveryAborted, Stopping
  <2>3. QED
    BY <1>1, <2>1, <2>2 DEF StopInv, QuietOnceIdle, workerVars, vars, queueVars, RecurringTasks
<1>5. QED
  BY <1>2, <1>3, <1>4 DEF StopInv

LEMMA DetachedPreserves ==
  ASSUME StopInv, WorkerInv', NEW d \in DetachedTasks, Track(d) \/ Untrack(d)
  PROVE  StopInv'
<1>1. UNCHANGED <<workerVars, queueVars, load, task, recovery, shutdown>>
  BY DEF Track, Untrack
<1>2. shutdown = "idle" => detached' = {}
  BY DEF StopInv, QuietOnceIdle, Track, Untrack, Stopping
<1>3. QED
  BY <1>1, <1>2 DEF StopInv, TaskType, RecurringTasks, StopsTogether, Stopping,
                    EmptyOnceStopped, QuietOnceIdle, workerVars, vars, queueVars, lines

LEMMA KickedPreserves ==
  ASSUME StopInv, WorkerInv', NEW p \in Requests, RequestKicks(p)
  PROVE  StopInv'
<1>1. UNCHANGED <<queueVars, taskVars>> /\ UNCHANGED stopper
  BY DEF RequestKicks, Kick
<1>2. QED
  BY <1>1 DEF StopInv, TaskType, RecurringTasks, StopsTogether, Stopping,
              EmptyOnceStopped, QuietOnceIdle, taskVars, queueVars, lines

LEMMA WorkerGoesOnPreserves ==
  ASSUME StopInv, WorkerInv', WorkerGoesOn
  PROVE  StopInv'
<1>1. UNCHANGED <<queueVars, load, detached, shutdown>>
  BY DEF WorkerGoesOn
<1>2. TaskType'
  <2>1. CASE MailFetch \in load /\ task[MailFetch] = "waiting" /\ RunEnds(MailFetch)
    <3>1. MailFetch \in RecurringTasks
      BY <2>1 DEF RecurringTasks
    <3>2. QED
      BY <1>1, <2>1, <3>1, TypedRunEnds DEF StopInv
  <2>2. CASE UNCHANGED task
    BY <1>1, <2>2 DEF StopInv, TaskType, RecurringTasks
  <2>3. QED
    BY <2>1, <2>2 DEF WorkerGoesOn
<1>3. shutdown # "idle"
  <2>1. SUFFICES ASSUME shutdown = "idle" PROVE FALSE
    OBVIOUS
  <2>2. stopper = "done" /\ phase = "idle"
    BY <2>1 DEF StopInv, QuietOnceIdle, WorkerInv, StoppedIsQuiet
  <2>3. QED
    BY <2>2 DEF WorkerGoesOn, StartLoop, DrainFails, EndRound, StopDone
<1>4. stopper' = "none" <=> stopper = "none"
  BY DEF WorkerGoesOn, StartLoop, DrainFails, EndRound, StopDone
<1>5. StopsTogether' /\ EmptyOnceStopped'
  BY <1>1, <1>4 DEF StopInv, StopsTogether, EmptyOnceStopped, Stopping, queueVars, lines
<1>6. QED
  BY <1>1, <1>2, <1>3, <1>5 DEF StopInv, QuietOnceIdle

LEMMA QueuePreserves ==
  ASSUME StopInv, WorkerInv',
         \/ QueueDrains \/ QueueRetries
         \/ \E u \in Users : RequestStartsResearch(u) \/ RunGoesOn(u)
  PROVE  StopInv'
<1>1. UNCHANGED <<workerVars, taskVars>>
  BY DEF QueueDrains, QueueRetries, RequestStartsResearch, RunGoesOn
<1>2. UNCHANGED queueStopped
  BY DEF QueueDrains, QueueRetries, RequestStartsResearch, RunGoesOn, Drain, DrainTakes,
         DrainRefused, DrainReturns, RetryFires,
         StartResearch, QueueStarted, RunStep, Researches, Fails, Defers, Settles
<1>3. ASSUME queueStopped
      PROVE  UNCHANGED order /\ retryTimer' = FALSE /\ (runs = {} => runs' = {})
  <2>1. retryTimer = FALSE
    BY <1>3 DEF StopInv, EmptyOnceStopped
  <2>2. CASE Drain
    BY <1>3, <2>1, <2>2
       DEF Drain, DrainTakes, DrainRefused, DrainReturns, Dispatching, lines
  <2>3. CASE RetryFires
    BY <2>1, <2>3 DEF RetryFires
  <2>4. CASE \E u \in Users : StartResearch(u) \/ QueueStarted(u)
    BY <1>3, <2>1, <2>4 DEF StartResearch, QueueStarted, EnqueueUnlessStopped, lines
  <2>5. CASE \E u \in Users : RunStep(u)
    <3>1. PICK r \in runs : Researches(r) \/ Fails(r) \/ Defers(r) \/ Settles(r)
      BY <2>5 DEF RunStep
    <3>2. UNCHANGED order /\ retryTimer' = FALSE
      BY <1>3, <2>1, <3>1 DEF Researches, Fails, Defers, Settles, lines
    <3>3. QED
      BY <3>1, <3>2
  <2>6. QED
    BY <2>2, <2>3, <2>4, <2>5
       DEF QueueDrains, QueueRetries, RequestStartsResearch, RunGoesOn
<1>4. TaskType' /\ StopsTogether' /\ EmptyOnceStopped'
  BY <1>1, <1>2, <1>3 DEF StopInv, TaskType, RecurringTasks, StopsTogether, Stopping,
     EmptyOnceStopped, taskVars, workerVars, vars
<1>5. QuietOnceIdle'
  BY <1>1, <1>3 DEF StopInv, QuietOnceIdle, StopsTogether, Stopping, RecurringTasks, taskVars,
     workerVars, vars
<1>6. QED
  BY <1>4, <1>5 DEF StopInv

LEMMA ShutdownPreserves ==
  ASSUME StopInv, WorkerInv', BeginBackgroundShutdown \/ BackgroundIsIdle
  PROVE  StopInv'
<1>1. UNCHANGED <<load, task, detached, recovery, runs>>
  BY DEF BeginBackgroundShutdown, BackgroundIsIdle, StopQueue, queueVars
<1>2. TaskType'
  BY <1>1 DEF StopInv, TaskType, RecurringTasks
<1>3. CASE BeginBackgroundShutdown
  <2>1. shutdown' = "stopping" /\ queueStopped' = TRUE /\ stopper' = "waiting"
        /\ order' = <<>> /\ retryTimer' = FALSE
    BY <1>3 DEF BeginBackgroundShutdown, StopAndWait, StopQueue
  <2>2. QED
    BY <1>2, <2>1 DEF StopInv, StopsTogether, Stopping, EmptyOnceStopped, QuietOnceIdle
<1>4. CASE BackgroundIsIdle
  <2>1. UNCHANGED <<workerVars, queueVars>> /\ shutdown = "stopping" /\ shutdown' = "idle"
    BY <1>4 DEF BackgroundIsIdle
  <2>2. StopsTogether' /\ EmptyOnceStopped'
    BY <2>1 DEF StopInv, StopsTogether, Stopping, EmptyOnceStopped, workerVars, vars, queueVars,
                lines
  <2>3. QuietOnceIdle'
    BY <1>1, <1>4, <2>1 DEF BackgroundIsIdle, QuietOnceIdle, QueueIsIdle, RecurringTasks,
                            workerVars, vars
  <2>4. QED
    BY <1>2, <2>2, <2>3 DEF StopInv
<1>5. QED
  BY <1>3, <1>4

------------------------------------------------------------------------------
LEMMA StopInvInit == BackgroundInit => StopInv
<1>1. SUFFICES ASSUME BackgroundInit PROVE StopInv
  OBVIOUS
<1>2. WorkerInv
  BY <1>1, InitEstablishes DEF BackgroundInit
<1>3. TaskType
  BY <1>1 DEF BackgroundInit, TaskType
<1>4. StopsTogether /\ EmptyOnceStopped /\ QuietOnceIdle
  BY <1>1 DEF BackgroundInit, Init, QueueInit, StopsTogether, Stopping, EmptyOnceStopped,
              QuietOnceIdle
<1>5. QED
  BY <1>2, <1>3, <1>4 DEF StopInv

LEMMA StopInvStep ==
  ASSUME StopInv, [BackgroundNext]_backgroundVars
  PROVE  StopInv'
<1>1. CASE BackgroundNext
  <2>1. WorkerInv'
    BY <1>1, WorkerStaysSound DEF StopInv
  <2>2. QED
    BY <1>1, <2>1, RecurringTaskPreserves, RecoveryPreserves, DetachedPreserves,
       KickedPreserves, WorkerGoesOnPreserves, QueuePreserves, ShutdownPreserves
       DEF BackgroundNext
<1>2. CASE UNCHANGED backgroundVars
  <2>1. UNCHANGED vars /\ UNCHANGED taskVars /\ UNCHANGED queueVars
    BY <1>2 DEF backgroundVars, workerVars
  <2>2. WorkerInv'
    BY <2>1, StepPreserves DEF StopInv
  <2>3. QED
    BY <2>1, <2>2 DEF StopInv, vars, taskVars, queueVars, lines, TaskType, RecurringTasks,
       StopsTogether, Stopping, EmptyOnceStopped, QuietOnceIdle
<1>3. QED
  BY <1>1, <1>2

------------------------------------------------------------------------------
(* The queue in the composition. *)

LEMMA SkippedScanPreserves ==
  ASSUME QueueInv, NEW t, Skip(t)
  PROVE  QueueInv'
<1>1. UNCHANGED <<durables, lines, runs, drainDue, retryTimer, queueStopped>>
  BY DEF Skip
<1>2. DeferralsTyped'
  BY QueueAssumption DEF Skip, QueueInv, QueueTyped, DeferralsTyped
<1>3. FlagsTyped'
  BY <1>1 DEF QueueInv, QueueTyped, FlagsTyped
<1>4. BooksAgree'
  BY <1>1, SameBooks DEF QueueInv, lines
<1>5. QED
  BY <1>1, <1>2, <1>3, <1>4 DEF QueueInv, QueueTyped, durables, lines, ResearchTyped, Unfinished,
     KeysTyped, FoundOnce, LinesTyped, CursorTyped, RunsTyped

LEMMA QueueInvStep ==
  ASSUME QueueInv, [BackgroundNext]_backgroundVars
  PROVE  QueueInv'
<1>1. CASE UNCHANGED queueVars
  BY <1>1, QueueStutters
<1>2. CASE QueueDrains \/ QueueRetries
  BY <1>2, DrainPreserves, RetryPreserves DEF QueueDrains, QueueRetries
<1>3. CASE \E t \in RecurringTasks : Tick(t) \/ TaskStep(t)
  BY <1>1, <1>3, SkippedScanPreserves, ScanReadsPreserves, ScanQueuesPreserves
     DEF Tick, TaskStep, KickAndWait, Scan, ScanEnds
<1>4. CASE \E u \in Users : RequestStartsResearch(u) \/ RunGoesOn(u)
  BY <1>4, StartResearchPreserves, QueueStartedPreserves, RunStepPreserves
     DEF RequestStartsResearch, RunGoesOn
<1>5. CASE BeginBackgroundShutdown
  BY <1>5, StopQueuePreserves DEF BeginBackgroundShutdown
<1>6. QED
  BY <1>1, <1>2, <1>3, <1>4, <1>5
     DEF BackgroundNext, backgroundVars, RecoveryStep, RunRecovery, Launch, RecoveryAborted,
         RequestKicks, Track, Untrack, WorkerGoesOn, BackgroundIsIdle

------------------------------------------------------------------------------
(* Where the recovery is. *)

InRecovery ==
  /\ recovery \in {"none", "pausing", "awaiting", "over"}
  /\ entry \in 1..(Len(Entries) + 1)
  /\ recovery = "none" => entry = 1
  /\ recovery \in {"pausing", "awaiting"} => entry \in 1..Len(Entries)

Places ==
  /\ load \in Workloads /\ detached \subseteq DetachedTasks
  /\ shutdown \in {"none", "stopping", "idle"}
  /\ InRecovery

LEMMA EntriesAreTasks == Entries \in Seq(RecurringTasks) /\ Len(Entries) \in Nat
<1> DEFINE first == IF ResearchRecovery \in load THEN <<ResearchRecovery>> ELSE <<>>
           second == IF MailFetch \in load THEN <<MailFetch>> ELSE <<>>
<1>1. first \in Seq(RecurringTasks) /\ second \in Seq(RecurringTasks)
  <2>1. \A t \in RecurringTasks : <<t>> \in Seq(RecurringTasks)
    OBVIOUS
  <2>2. <<>> \in Seq(RecurringTasks)
    OBVIOUS
  <2>3. QED
    BY <2>1, <2>2, Zenon DEF RecurringTasks
<1>2. Entries = first \o second
  BY DEF Entries
<1> HIDE DEF first, second
<1>3. QED
  BY <1>1, <1>2

LEMMA NextEntryIsThere ==
  ASSUME InRecovery, recovery \in {"pausing", "awaiting"}, NextEntry, UNCHANGED load
  PROVE  InRecovery'
<1>1. Entries' = Entries
  BY DEF Entries
<1>2. QED
  BY <1>1, EntriesAreTasks DEF InRecovery, NextEntry

LEMMA EndedRunKeepsPlaces ==
  ASSUME InRecovery, NEW t, RunEnds(t), UNCHANGED load
  PROVE  InRecovery'
<1>1. Entries' = Entries
  BY DEF Entries
<1>2. CASE recovery = "awaiting" /\ Entries[entry] = t
  BY <1>2, NextEntryIsThere DEF RunEnds
<1>3. CASE ~(recovery = "awaiting" /\ Entries[entry] = t)
  BY <1>1, <1>3 DEF RunEnds, InRecovery
<1>4. QED
  BY <1>2, <1>3

LEMMA PlacesInit == BackgroundInit => Places
  BY EntriesAreTasks DEF BackgroundInit, Places, InRecovery

LEMMA PlacesStep ==
  ASSUME Places, [BackgroundNext]_backgroundVars
  PROVE  Places'
<1>1. UNCHANGED load
  BY DEF BackgroundNext, backgroundVars, taskVars, QueueDrains, Tick, TaskStep, Skip, KickAndWait,
         Scan, ScanEnds, RecoveryStep, RunRecovery, Launch, RecoveryAborted, RequestKicks, Track,
         Untrack, WorkerGoesOn, QueueRetries, RequestStartsResearch, RunGoesOn,
         BeginBackgroundShutdown, BackgroundIsIdle
<1>2. Entries' = Entries
  BY <1>1 DEF Entries
<1>3. detached' \subseteq DetachedTasks /\ shutdown' \in {"none", "stopping", "idle"}
  BY DEF Places, BackgroundNext, backgroundVars, taskVars, QueueDrains, Tick, TaskStep, Skip,
         KickAndWait, Scan, ScanEnds, RecoveryStep, RunRecovery, Launch, RecoveryAborted,
         RequestKicks, Track, Untrack, WorkerGoesOn, QueueRetries, RequestStartsResearch,
         RunGoesOn, BeginBackgroundShutdown, BackgroundIsIdle
<1>4. InRecovery'
  <2>1. CASE UNCHANGED <<recovery, entry>>
    BY <1>2, <2>1 DEF Places, InRecovery
  <2>2. CASE \E t : RunEnds(t)
    BY <1>1, <2>2, EndedRunKeepsPlaces DEF Places
  <2>3. CASE RunRecovery
    BY <1>2, <2>3, EntriesAreTasks DEF RunRecovery, Places, InRecovery
  <2>4. CASE Launch
    BY <1>1, <1>2, <2>4, NextEntryIsThere DEF Launch, Places, InRecovery
  <2>5. CASE RecoveryAborted
    BY <1>2, <2>5 DEF RecoveryAborted, Places, InRecovery
  <2>6. QED
    BY <2>1, <2>2, <2>3, <2>4, <2>5
       DEF BackgroundNext, backgroundVars, taskVars, QueueDrains, Tick, TaskStep, Skip,
           KickAndWait, Scan, ScanEnds, RecoveryStep, RequestKicks, Track, Untrack, WorkerGoesOn,
           QueueRetries, RequestStartsResearch, RunGoesOn, BeginBackgroundShutdown,
           BackgroundIsIdle
<1>5. QED
  BY <1>1, <1>3, <1>4 DEF Places

------------------------------------------------------------------------------
IInv == StopInv /\ QueueInv /\ Places

\* The strengthened invariant of the background work.
THEOREM BackgroundInvariance == BackgroundSpec => []IInv
<1>1. IInv /\ [BackgroundNext]_backgroundVars => IInv'
  BY StopInvStep, QueueInvStep, PlacesStep DEF IInv
<1>2. BackgroundInit => IInv
  BY StopInvInit, PlacesInit, QueueInitEstablishes DEF IInv, BackgroundInit
<1>3. QED
  BY <1>1, <1>2, PTL DEF BackgroundSpec

\* The mail sync's worker in its surroundings is the worker by itself, so what
\* holds of createCoalescedWorker holds there.
THEOREM WorkerRefined == BackgroundSpec => Spec
<1>1. BackgroundInit => Init
  BY DEF BackgroundInit
<1>2. [BackgroundNext]_backgroundVars => [Next]_vars
  BY WorkerSteps DEF backgroundVars, workerVars, vars
<1>3. QED
  BY <1>1, <1>2, PTL DEF BackgroundSpec, Spec

\* beginBackgroundShutdown: once idle is reported nothing runs or begins.
THEOREM StaysIdle == BackgroundSpec => []IdleForGood
<1>1. IInv => IdleForGood
  BY DEF IInv, StopInv, WorkerInv, QuietOnceIdle, StopsTogether, Stopping, EmptyOnceStopped,
         QueueIsIdle, IdleForGood
<1>2. QED
  BY <1>1, BackgroundInvariance, PTL

\* The state of the background work keeps its types, the cursor of the Discover
\* queue and the entry of the recovery included.
THEOREM BackgroundTypeCorrect == BackgroundSpec => []BackgroundTypeOK
<1>1. IInv => BackgroundTypeOK
  <2>1. SUFFICES ASSUME IInv PROVE BackgroundTypeOK
    OBVIOUS
  <2>2. TypeOK
    BY <2>1 DEF IInv, StopInv, WorkerInv, Flags, Shape, TypeOK
  <2>3. QueueTypeOK
    BY <2>1, QueueInvImpliesTypes DEF IInv
  <2>4. QED
    BY <2>1, <2>2, <2>3 DEF IInv, StopInv, TaskType, Places, InRecovery, BackgroundTypeOK
<1>2. QED
  BY <1>1, BackgroundInvariance, PTL

\* drainDiscoverResearchQueue and what surrounds it: a job is scheduled exactly
\* while it waits or runs, once, and a user runs one job at most.
THEOREM QueueBooksAgree == BackgroundSpec => []BooksAgree
<1>1. IInv => BooksAgree
  BY DEF IInv, QueueInv
<1>2. QED
  BY <1>1, BackgroundInvariance, PTL
=============================================================================
