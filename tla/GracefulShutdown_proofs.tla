----------------------- MODULE GracefulShutdown_proofs -----------------------
(***************************************************************************)
(* Nothing committed or acknowledged is lost in a shutdown, and the leases  *)
(* nest, for any number of tasks, failing seals and failing releases.       *)
(*                                                                         *)
(* The argument: the open database holds every write, and while it is       *)
(* closed the image does.  An image is only ever replaced by a larger one,  *)
(* and whoever asked for a seal waits for one serialized after its request. *)
(***************************************************************************)
EXTENDS GracefulShutdown, TLAPS

\* Where the writes are.
Contents ==
  /\ dbOpen => memory = written
  /\ image \subseteq written
  /\ ~dbOpen => image = written
  /\ seal = "serialized" => image \subseteq copy /\ copy \subseteq written

\* The leases and the handle nest in the life of the storage.
Nesting ==
  /\ dbOpen => storage = "open" /\ dbLease
  /\ dbLease => serviceLease
  /\ storage = "closed" => ~serviceLease

\* How far the shutdown is, and what that says of the storage.
Progress ==
  /\ stage \notin {"storage", "exited"} => shutdown = "none"
  /\ stage = "exited" => shutdown = "over"
  /\ shutdown = "over" => storage = "closed"
  /\ shutdown \notin {"none", "begun", "over"} => storage = "open"
  /\ shutdown \in {"closed", "drained", "database released"} => ~dbOpen
  /\ shutdown = "database released" => ~dbLease
  /\ shutdown = "begun" => tries = 0
  /\ shutdown \in {"sealing", "awaiting"} => tries < SealTries

\* The final seal holds everything.
FinalImage ==
  /\ shutdown = "awaiting" =>
       seal # "idle" /\ (seal = "serialized" /\ ~again => written \subseteq copy)
  /\ shutdown = "sealed" => written \subseteq image

\* What a task may rely on at each of its steps.
TaskData(t) ==
  /\ task[t] \in {"committed", "sealing", "answered"} => t \in written
  /\ task[t] = "answered" => t \in image
  /\ task[t] = "sealing" => seal # "idle"
  /\ task[t] = "sealing" /\ seal = "serialized" /\ ~again => t \in copy
Promised == \A t \in Tasks : TaskData(t)

IInv == TypeOK /\ Contents /\ Nesting /\ Progress /\ FinalImage /\ Promised

------------------------------------------------------------------------------
LEMMA Bounds ==
  /\ SealTries \in Nat /\ 0 < SealTries
  /\ MaxSealFailures \in Nat /\ MaxReleaseErrors \in Nat
  BY ShutdownAssumption

LEMMA CountsUp ==
  ASSUME NEW limit \in Nat, NEW n \in 0..limit, n < limit
  PROVE  n + 1 \in 0..limit
  OBVIOUS

------------------------------------------------------------------------------
(* Seals. *)

LEMMA SerializePreserves ==
  ASSUME IInv, Serialize
  PROVE  IInv'
<1>1. FinalImage'
  BY DEF IInv, Contents, FinalImage, Serialize
<1>2. Promised'
  BY DEF IInv, Contents, Promised, TaskData, Serialize
<1>3. TypeOK' /\ Contents' /\ Nesting' /\ Progress'
  BY DEF IInv, TypeOK, Contents, Nesting, Progress, Serialize, leases
<1>4. QED
  BY <1>1, <1>2, <1>3 DEF IInv

LEMMA PublishPreserves ==
  ASSUME IInv, Publish
  PROVE  IInv'
<1>1. TypeOK'
  BY DEF IInv, TypeOK, Nesting, Publish, Settle, leases
<1>2. FinalImage'
  BY DEF IInv, Contents, FinalImage, Publish
<1>3. Promised'
  BY DEF IInv, Contents, Promised, TaskData, Publish, Settle
<1>4. Contents' /\ Nesting' /\ Progress'
  BY DEF IInv, Contents, Nesting, Progress, Publish, leases
<1>5. QED
  BY <1>1, <1>2, <1>3, <1>4 DEF IInv

LEMMA SealFailsPreserves ==
  ASSUME IInv, SealFails
  PROVE  IInv'
<1>1. TypeOK'
  <2>1. sealFailures' \in 0..MaxSealFailures
    <3>1. CASE UNCHANGED sealFailures
      BY <3>1 DEF IInv, TypeOK
    <3>2. CASE sealFailures < MaxSealFailures /\ sealFailures' = sealFailures + 1
      BY <3>2, Bounds, CountsUp DEF IInv, TypeOK
    <3>3. QED
      BY <3>1, <3>2 DEF SealFails
  <2>2. tries' \in 0..SealTries
    <3>1. CASE shutdown = "awaiting"
      BY <3>1, Bounds, CountsUp DEF IInv, TypeOK, Progress, SealFails, AfterFailure
    <3>2. CASE shutdown # "awaiting"
      BY <3>2 DEF IInv, TypeOK, SealFails, AfterFailure
    <3>3. QED
      BY <3>1, <3>2
  <2>3. shutdown' \in {"sealing", "failed", shutdown}
    BY DEF SealFails, AfterFailure
  <2>4. task' \in [Tasks -> {"new", "running", "committed", "sealing", "answered", "ended"}]
    BY DEF IInv, TypeOK, SealFails, Settle
  <2>5. QED
    BY <2>1, <2>2, <2>3, <2>4 DEF IInv, TypeOK, SealFails, leases
<1>2. Progress'
  BY DEF IInv, Progress, SealFails, AfterFailure, leases
<1>3. FinalImage'
  BY DEF IInv, FinalImage, SealFails, AfterFailure
<1>4. Promised'
  BY DEF IInv, Promised, TaskData, SealFails, Settle
<1>5. Contents' /\ Nesting'
  BY DEF IInv, Contents, Nesting, SealFails, leases
<1>6. QED
  BY <1>1, <1>2, <1>3, <1>4, <1>5 DEF IInv

LEMMA TimedSealPreserves ==
  ASSUME IInv, TimedSeal
  PROVE  IInv'
<1>1. TypeOK'
  BY DEF IInv, TypeOK, TimedSeal, AskSeal, leases
<1>2. Contents'
  BY DEF IInv, Contents, TimedSeal, AskSeal
<1>3. Nesting' /\ Progress' /\ FinalImage' /\ Promised'
  BY DEF IInv, Nesting, Progress, FinalImage, Promised, TaskData, TimedSeal, leases
<1>4. QED
  BY <1>1, <1>2, <1>3 DEF IInv

------------------------------------------------------------------------------
(* Initialization. *)

LEMMA EnsureStoragePreserves ==
  ASSUME IInv, EnsureStorage
  PROVE  IInv'
  BY DEF IInv, TypeOK, Contents, Nesting, Progress, FinalImage, Promised, TaskData,
         EnsureStorage, leases, sealing

LEMMA AcquireLeasePreserves ==
  ASSUME IInv, AcquireLease
  PROVE  IInv'
  BY DEF IInv, TypeOK, Contents, Nesting, Progress, FinalImage, Promised, TaskData,
         AcquireLease, sealing

LEMMA OpenDatabasePreserves ==
  ASSUME IInv, OpenDatabase
  PROVE  IInv'
<1>1. Contents'
  BY DEF IInv, Contents, Nesting, OpenDatabase, sealing
<1>2. TypeOK' /\ Nesting' /\ Progress' /\ FinalImage' /\ Promised'
  BY DEF IInv, TypeOK, Nesting, Progress, FinalImage, Promised, TaskData, OpenDatabase, leases,
         sealing
<1>3. QED
  BY <1>1, <1>2 DEF IInv

LEMMA StartFailsPreserves ==
  ASSUME IInv, StartFails
  PROVE  IInv'
  BY DEF IInv, TypeOK, Contents, Nesting, Progress, FinalImage, Promised, TaskData, StartFails,
         leases, sealing

LEMMA CleanUpStartPreserves ==
  ASSUME IInv, CleanUpStart
  PROVE  IInv'
  BY DEF IInv, TypeOK, Contents, Nesting, Progress, FinalImage, Promised, TaskData,
         CleanUpStart, sealing

------------------------------------------------------------------------------
(* Tasks. *)

LEMMA BeginPreserves ==
  ASSUME IInv, NEW t \in Tasks, Begin(t)
  PROVE  IInv'
  BY DEF IInv, TypeOK, Contents, Nesting, Progress, FinalImage, Promised, TaskData, Begin,
         leases, sealing

LEMMA ClientLeavesPreserves ==
  ASSUME IInv, NEW t \in Tasks, ClientLeaves(t)
  PROVE  IInv'
<1>1. TypeOK'
  BY DEF IInv, TypeOK, Progress, ClientLeaves, leases, sealing
<1>2. Contents' /\ Nesting' /\ Progress' /\ FinalImage' /\ Promised'
  BY DEF IInv, Contents, Nesting, Progress, FinalImage, Promised, TaskData, ClientLeaves,
         leases, sealing
<1>3. QED
  BY <1>1, <1>2 DEF IInv

LEMMA CommitPreserves ==
  ASSUME IInv, NEW t \in Tasks, Commit(t)
  PROVE  IInv'
<1>1. FinalImage'
  BY DEF FinalImage, Commit, ShuttingDown
<1>2. Promised'
  BY DEF IInv, TypeOK, Promised, TaskData, Commit, sealing
<1>3. TypeOK' /\ Contents' /\ Nesting' /\ Progress'
  BY DEF IInv, TypeOK, Contents, Nesting, Progress, Commit, leases, sealing
<1>4. QED
  BY <1>1, <1>2, <1>3 DEF IInv

LEMMA AcknowledgePreserves ==
  ASSUME IInv, NEW t \in Tasks, Acknowledge(t)
  PROVE  IInv'
<1>1. TypeOK'
  BY DEF IInv, TypeOK, Nesting, Acknowledge, AskSeal, leases
<1>2. Contents'
  BY DEF IInv, Contents, Acknowledge, AskSeal
<1>3. FinalImage'
  BY DEF IInv, FinalImage, Acknowledge, AskSeal
<1>4. Promised'
  BY DEF IInv, TypeOK, Promised, TaskData, Acknowledge, AskSeal
<1>5. Nesting' /\ Progress'
  BY DEF IInv, Nesting, Progress, Acknowledge, leases
<1>6. QED
  BY <1>1, <1>2, <1>3, <1>4, <1>5 DEF IInv

LEMMA FinishPreserves ==
  ASSUME IInv, NEW t \in Tasks, Finish(t)
  PROVE  IInv'
<1>1. TypeOK'
  BY DEF IInv, TypeOK, Progress, Finish, leases, sealing
<1>2. Promised'
  BY DEF IInv, TypeOK, Promised, TaskData, Finish, sealing
<1>3. Contents' /\ Nesting' /\ Progress' /\ FinalImage'
  BY DEF IInv, Contents, Nesting, Progress, FinalImage, Finish, leases, sealing
<1>4. QED
  BY <1>1, <1>2, <1>3 DEF IInv

------------------------------------------------------------------------------
(* The storage shutdown and the launcher. *)

LEMMA ShutdownStoragePreserves ==
  ASSUME IInv, ShutdownStorage
  PROVE  IInv'
<1>1. TypeOK'
  <2>1. tries' \in 0..SealTries
    BY Bounds DEF ShutdownStorage
  <2>2. QED
    BY <2>1 DEF IInv, TypeOK, ShutdownStorage, leases, sealing
<1>2. Contents' /\ Nesting' /\ Progress' /\ FinalImage' /\ Promised'
  BY DEF IInv, Contents, Nesting, Progress, FinalImage, Promised, TaskData, ShutdownStorage,
         leases, sealing
<1>3. QED
  BY <1>1, <1>2 DEF IInv

LEMMA AwaitStartPreserves ==
  ASSUME IInv, AwaitStart
  PROVE  IInv'
<1>1. Progress'
  BY Bounds DEF IInv, Progress, AwaitStart
<1>2. TypeOK' /\ Contents' /\ Nesting' /\ FinalImage' /\ Promised'
  BY DEF IInv, TypeOK, Contents, Nesting, FinalImage, Promised, TaskData, AwaitStart, leases,
         sealing
<1>3. QED
  BY <1>1, <1>2 DEF IInv

LEMMA FinalSealPreserves ==
  ASSUME IInv, FinalSeal
  PROVE  IInv'
<1>1. TypeOK'
  BY DEF IInv, TypeOK, FinalSeal, AskSeal, leases
<1>2. Contents'
  BY DEF IInv, Contents, FinalSeal, AskSeal
<1>3. FinalImage'
  BY DEF FinalImage, FinalSeal, AskSeal
<1>4. Promised'
  BY DEF IInv, Promised, TaskData, FinalSeal, AskSeal
<1>5. Nesting' /\ Progress'
  BY DEF IInv, Nesting, Progress, FinalSeal, leases
<1>6. QED
  BY <1>1, <1>2, <1>3, <1>4, <1>5 DEF IInv

LEMMA CloseDatabasePreserves ==
  ASSUME IInv, CloseDatabase
  PROVE  IInv'
<1>1. Contents'
  BY DEF IInv, Contents, FinalImage, CloseDatabase, sealing
<1>2. TypeOK' /\ Nesting' /\ Progress' /\ FinalImage' /\ Promised'
  BY DEF IInv, TypeOK, Nesting, Progress, FinalImage, Promised, TaskData, CloseDatabase,
         leases, sealing
<1>3. QED
  BY <1>1, <1>2 DEF IInv

LEMMA ReleaseDatabasePreserves ==
  ASSUME IInv, ReleaseDatabase
  PROVE  IInv'
<1>1. TypeOK'
  <2>1. releaseErrors' \in 0..MaxReleaseErrors
    <3>1. CASE UNCHANGED releaseErrors
      BY <3>1 DEF IInv, TypeOK
    <3>2. CASE releaseErrors < MaxReleaseErrors /\ releaseErrors' = releaseErrors + 1
      BY <3>2, Bounds, CountsUp DEF IInv, TypeOK
    <3>3. QED
      BY <3>1, <3>2 DEF ReleaseDatabase, Release
  <2>2. QED
    BY <2>1 DEF IInv, TypeOK, ReleaseDatabase, Release, sealing
<1>2. Nesting'
  BY DEF IInv, Nesting, Progress, ReleaseDatabase
<1>3. Progress'
  BY DEF IInv, Progress, ReleaseDatabase, Release
<1>4. FinalImage'
  BY DEF FinalImage, ReleaseDatabase, Release
<1>5. Contents' /\ Promised'
  BY DEF IInv, Contents, Promised, TaskData, ReleaseDatabase, sealing
<1>6. QED
  BY <1>1, <1>2, <1>3, <1>4, <1>5 DEF IInv

LEMMA ReleaseServicePreserves ==
  ASSUME IInv, ReleaseService
  PROVE  IInv'
<1>1. TypeOK'
  <2>1. releaseErrors' \in 0..MaxReleaseErrors
    <3>1. CASE UNCHANGED releaseErrors
      BY <3>1 DEF IInv, TypeOK
    <3>2. CASE releaseErrors < MaxReleaseErrors /\ releaseErrors' = releaseErrors + 1
      BY <3>2, Bounds, CountsUp DEF IInv, TypeOK
    <3>3. QED
      BY <3>1, <3>2 DEF ReleaseService, Release
  <2>2. QED
    BY <2>1 DEF IInv, TypeOK, ReleaseService, Release, sealing
<1>2. Nesting'
  BY DEF IInv, Nesting, Progress, ReleaseService
<1>3. Progress'
  BY DEF IInv, Progress, ReleaseService, Release
<1>4. FinalImage'
  BY DEF FinalImage, ReleaseService, Release
<1>5. Contents' /\ Promised'
  BY DEF IInv, Contents, Promised, TaskData, ReleaseService, sealing
<1>6. QED
  BY <1>1, <1>2, <1>3, <1>4, <1>5 DEF IInv

\* The launcher moves nothing but its own stage.
LEMMA LauncherPreserves ==
  ASSUME IInv, LauncherStep \/ RequestShutdown
  PROVE  IInv'
<1> DEFINE Stages == {"draining", "storage", "resident", "exited"}
<1>1. PICK s \in Stages : GoesTo(s)
  BY DEF LauncherStep, RequestShutdown, Drained, DrainTimesOut, Exit
<1>2. Progress'
  BY DEF IInv, Progress, LauncherStep, RequestShutdown, Drained, DrainTimesOut, Exit, GoesTo
<1>3. TypeOK'
  <2>1. /\ serviceLease' \in BOOLEAN /\ dbLease' \in BOOLEAN
        /\ dbOpen' \in BOOLEAN /\ again' \in BOOLEAN
    BY <1>1 DEF IInv, TypeOK, GoesTo, leases, sealing
  <2>2. QED
    BY <1>1, <2>1 DEF IInv, TypeOK, GoesTo, sealing
<1>4. Contents' /\ FinalImage'
  BY <1>1 DEF IInv, Contents, FinalImage, GoesTo, sealing
<1>5. Nesting'
  BY <1>1 DEF IInv, Nesting, GoesTo, leases
<1>6. Promised'
  BY <1>1 DEF IInv, Promised, TaskData, GoesTo, sealing
<1>7. QED
  BY <1>2, <1>3, <1>4, <1>5, <1>6 DEF IInv

LEMMA StutterPreserves ==
  ASSUME IInv, UNCHANGED vars
  PROVE  IInv'
<1>1. TypeOK'
  <2>1. /\ serviceLease' \in BOOLEAN /\ dbLease' \in BOOLEAN
        /\ dbOpen' \in BOOLEAN /\ again' \in BOOLEAN
    BY DEF IInv, TypeOK, vars, leases, sealing
  <2>2. QED
    BY <2>1 DEF IInv, TypeOK, vars, sealing
<1>2. Contents' /\ FinalImage'
  BY DEF IInv, Contents, FinalImage, vars, sealing
<1>3. Nesting' /\ Progress'
  BY DEF IInv, Nesting, Progress, vars, leases
<1>4. Promised'
  BY DEF IInv, Promised, TaskData, vars, sealing
<1>5. QED
  BY <1>1, <1>2, <1>3, <1>4 DEF IInv

------------------------------------------------------------------------------
LEMMA InitEstablishes == Init => IInv
<1>1. SUFFICES ASSUME Init PROVE IInv
  OBVIOUS
<1>2. tries \in 0..SealTries /\ sealFailures \in 0..MaxSealFailures
                             /\ releaseErrors \in 0..MaxReleaseErrors
  BY <1>1, Bounds DEF Init
<1>3. TypeOK
  BY <1>1, <1>2 DEF Init, TypeOK
<1>4. Contents /\ FinalImage /\ Promised
  BY <1>1 DEF Init, Contents, FinalImage, Promised, TaskData
<1>5. Nesting /\ Progress
  BY <1>1 DEF Init, Nesting, Progress
<1>6. QED
  BY <1>3, <1>4, <1>5 DEF IInv

LEMMA StepPreserves ==
  ASSUME IInv, [Next]_vars
  PROVE  IInv'
<1>1. CASE \E t \in Tasks : \/ Begin(t) \/ ClientLeaves(t) \/ Commit(t) \/ Acknowledge(t)
                              \/ Finish(t)
  BY <1>1, BeginPreserves, ClientLeavesPreserves, CommitPreserves, AcknowledgePreserves,
     FinishPreserves
<1>2. CASE TimedSeal \/ EnsureStorage
  BY <1>2, TimedSealPreserves, EnsureStoragePreserves
<1>3. CASE StorageStep
  BY <1>3, SerializePreserves, PublishPreserves, SealFailsPreserves, AcquireLeasePreserves,
     OpenDatabasePreserves, StartFailsPreserves, CleanUpStartPreserves DEF StorageStep
<1>4. CASE ShutdownStep
  BY <1>4, ShutdownStoragePreserves, AwaitStartPreserves, FinalSealPreserves,
     CloseDatabasePreserves, ReleaseDatabasePreserves, ReleaseServicePreserves DEF ShutdownStep
<1>5. CASE LauncherStep \/ RequestShutdown
  BY <1>5, LauncherPreserves
<1>6. CASE AtRest \/ UNCHANGED vars
  BY <1>6, StutterPreserves DEF AtRest
<1>7. QED
  BY <1>1, <1>2, <1>3, <1>4, <1>5, <1>6 DEF Next

\* The invariant the properties follow from: where the writes are, how the
\* leases nest, and what a task or the shutdown may rely on at each step.
THEOREM Invariance == Spec => []IInv
<1>1. Init => IInv
  BY InitEstablishes
<1>2. IInv /\ [Next]_vars => IInv'
  BY StepPreserves
<1>3. QED
  BY <1>1, <1>2, PTL DEF Spec

\* Every step keeps the state of the shutdown well formed; the final seal is
\* never tried more often than performStorageShutdown allows.
THEOREM TypeCorrect == Spec => []TypeOK
<1>1. IInv => TypeOK
  BY DEF IInv
<1>2. QED
  BY <1>1, Invariance, PTL

\* The successor of a process finds every committed write, and a process that
\* exits owns nothing (performStorageShutdown, finalizeSafeExit).
THEOREM NothingLostInHandOver == Spec => []HandedOver
<1>1. IInv => HandedOver
  <2>1. SUFFICES ASSUME IInv PROVE HandedOver
    OBVIOUS
  <2>2. ~dbLease => written \subseteq image
    BY <2>1 DEF IInv, Contents, Nesting
  <2>3. stage = "exited" => ~dbLease /\ ~serviceLease
    BY <2>1 DEF IInv, Progress, Nesting
  <2>4. QED
    BY <2>2, <2>3 DEF HandedOver
<1>2. QED
  BY <1>1, Invariance, PTL

\* What acknowledgeDurableStorageMutation confirmed is in the sealed image,
\* whichever seal it joined and whenever the process ends.
THEOREM AcknowledgementsAreDurable == Spec => []AcknowledgedIsDurable
<1>1. IInv => AcknowledgedIsDurable
  BY DEF IInv, Promised, TaskData, AcknowledgedIsDurable
<1>2. QED
  BY <1>1, Invariance, PTL

\* The process-wide lease is taken before and given back after the narrower one.
THEOREM LeasesNest == Spec => []ServiceCoversDatabase
<1>1. IInv => ServiceCoversDatabase
  BY DEF IInv, Nesting, ServiceCoversDatabase
<1>2. QED
  BY <1>1, Invariance, PTL
=============================================================================
