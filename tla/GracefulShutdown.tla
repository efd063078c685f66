-------------------------- MODULE GracefulShutdown --------------------------
(***************************************************************************)
(* How the server process ends: the launcher (createBoundedGracefulShutdown,*)
(* tools/start-server.mjs) lets requests and tasks finish within a deadline *)
(* (stopServerWithinDeadline, server/index.js), then shuts the storage down *)
(* until that succeeds (performStorageShutdown, server/storage.js), and     *)
(* only then exits.                                                         *)
(*                                                                         *)
(* The database is the encrypted one: it runs in memory, and a commit is    *)
(* durable once an image that holds it is sealed.  Two leases keep other    *)
(* processes out, the service lease around the narrower database lease.     *)
(* A request whose client went away still runs, and nobody waits for it.    *)
(*                                                                         *)
(* Left out: telemetry that is flushed first, the update hand-off, and a    *)
(* lease lost in operation (every write and seal is refused from then on).  *)
(***************************************************************************)
EXTENDS Naturals

CONSTANTS Tasks,            \* requests and background tasks; each writes once
          Handlers,         \* the requests: their clients may go away
          SealTries,        \* attempts at the final seal in one shutdown
          MaxSealFailures,  \* bound of the model: seals that fail
          MaxReleaseErrors  \* bound of the model: releases that report an error

ASSUME ShutdownAssumption ==
  /\ Handlers \subseteq Tasks
  /\ SealTries \in Nat \ {0} /\ MaxSealFailures \in Nat /\ MaxReleaseErrors \in Nat

VARIABLES stage,         \* the launcher
          task, watched, \* where each task stands; those the drain waits for
          storage,       \* storageReadyPromise and storageInitialized
          shutdown,      \* performStorageShutdown
          tries,         \* attempts at the final seal
          serviceLease, dbLease,
          dbOpen,        \* is there a handle, db?
          memory,        \* the writes in the database in memory
          image,         \* those in the sealed image
          written,       \* all writes ever committed
          seal,          \* sealInFlightPromise: "idle", "begun", "serialized"
          copy,          \* the serialized database
          again,         \* sealRequestedGeneration is ahead of the seal
          sealFailures, releaseErrors

leases == <<serviceLease, dbLease>>
sealing == <<seal, copy, again>>
vars == <<stage, task, watched, storage, shutdown, tries, leases, dbOpen, memory,
          image, written, sealing, sealFailures, releaseErrors>>

\* storageShuttingDown
ShuttingDown == shutdown \notin {"none", "over"}

InProgress(t) == task[t] \in {"running", "committed", "sealing"}
Alive == stage # "exited"

Init ==
  /\ stage = "serving"
  /\ task = [t \in Tasks |-> "new"] /\ watched = {}
  /\ storage = "closed" /\ shutdown = "none" /\ tries = 0
  /\ serviceLease = FALSE /\ dbLease = FALSE /\ dbOpen = FALSE
  /\ memory = {} /\ image = {} /\ written = {}
  /\ seal = "idle" /\ copy = {} /\ again = FALSE
  /\ sealFailures = 0 /\ releaseErrors = 0

------------------------------------------------------------------------------
(* Seals. *)

\* Mutant: whoever finds a seal in flight is content with it.
AskSealJoins ==
  /\ seal' = IF seal = "idle" THEN "begun" ELSE seal
  /\ UNCHANGED <<copy, again>>

\* maybeSealDatabase: the seal in flight goes round again for a later request.
AskSeal ==
  /\ seal' = IF seal = "idle" THEN "begun" ELSE seal
  /\ again' = (seal # "idle")
  /\ UNCHANGED copy

\* performSqliteSeal: needs the lease; without a handle there is nothing to do.
Serialize ==
  /\ Alive /\ seal = "begun" /\ dbLease
  /\ copy' = IF dbOpen THEN memory ELSE image
  /\ seal' = "serialized"
  /\ UNCHANGED <<stage, task, watched, storage, shutdown, tries, leases, dbOpen, memory,
                 image, written, again, sealFailures, releaseErrors>>

\* Everybody who waits for the seal gets its result.
Settle(result) ==
  task' = [t \in Tasks |-> IF task[t] = "sealing" THEN result ELSE task[t]]

Publish ==
  /\ Alive /\ seal = "serialized"
  /\ image' = copy
  /\ again' = FALSE
  /\ IF again
       THEN seal' = "begun" /\ UNCHANGED <<task, shutdown>>
       ELSE /\ seal' = "idle" /\ Settle("answered")
            /\ shutdown' = CASE shutdown = "awaiting" -> "sealed"
                             [] shutdown = "closed" -> "drained"
                             [] OTHER -> shutdown
  /\ UNCHANGED <<stage, watched, storage, tries, leases, dbOpen, memory, written, copy,
                 sealFailures, releaseErrors>>

\* Mutant: the final seal is tried once too often.
AfterFailureOnceMore ==
  CASE shutdown = "awaiting" ->
         /\ tries' = tries + 1
         /\ shutdown' = IF tries <= SealTries THEN "sealing" ELSE "failed"
    [] shutdown = "closed" -> shutdown' = "failed" /\ UNCHANGED tries
    [] OTHER -> UNCHANGED <<shutdown, tries>>

\* What the failure of a seal means for the shutdown.
AfterFailure ==
  CASE shutdown = "awaiting" ->
         /\ tries' = tries + 1
         /\ shutdown' = IF tries' < SealTries THEN "sealing" ELSE "failed"
    [] shutdown = "closed" -> shutdown' = "failed" /\ UNCHANGED tries
    [] OTHER -> UNCHANGED <<shutdown, tries>>

SealFails ==
  /\ Alive /\ seal # "idle"
  /\ \/ seal = "begun" /\ ~dbLease /\ UNCHANGED sealFailures
     \/ sealFailures < MaxSealFailures /\ sealFailures' = sealFailures + 1
  /\ seal' = "idle" /\ again' = FALSE
  /\ Settle("ended") /\ AfterFailure
  /\ UNCHANGED <<stage, watched, storage, leases, dbOpen, memory, image, written, copy,
                 releaseErrors>>

\* The timer of scheduleSealDatabase.
TimedSeal ==
  /\ Alive /\ dbOpen /\ memory # image /\ seal = "idle"
  /\ AskSeal
  /\ UNCHANGED <<stage, task, watched, storage, shutdown, tries, leases, dbOpen, memory,
                 image, written, sealFailures, releaseErrors>>

------------------------------------------------------------------------------
(* Initialization. *)

\* ensureStorage, by the start-up and its retries, or by anybody later; never
\* again once the terminal shutdown has been requested.
EnsureStorage ==
  /\ stage = "serving" /\ storage = "closed" /\ ~ShuttingDown
  /\ storage' = "starting"
  /\ UNCHANGED <<stage, task, watched, shutdown, tries, leases, dbOpen, memory, image,
                 written, sealing, sealFailures, releaseErrors>>

\* initializeStorage: first the service lease, then the one of the database.
AcquireLease ==
  /\ Alive /\ storage = "starting" /\ ~dbLease
  /\ serviceLease' = TRUE /\ dbLease' = serviceLease
  /\ UNCHANGED <<stage, task, watched, storage, shutdown, tries, dbOpen, memory, image,
                 written, sealing, sealFailures, releaseErrors>>

\* maybeUnsealDatabase and getDb
OpenDatabase ==
  /\ Alive /\ storage = "starting" /\ dbLease
  /\ storage' = "open" /\ dbOpen' = TRUE /\ memory' = image
  /\ UNCHANGED <<stage, task, watched, shutdown, tries, leases, image, written, sealing,
                 sealFailures, releaseErrors>>

\* It failed, or the shutdown aborted it.
StartFails ==
  /\ Alive /\ storage = "starting"
  /\ storage' = "failing"
  /\ UNCHANGED <<stage, task, watched, shutdown, tries, leases, dbOpen, memory, image,
                 written, sealing, sealFailures, releaseErrors>>

\* Mutant: the wider lease goes first.
CleanUpServiceFirst ==
  /\ Alive /\ storage = "failing"
  /\ serviceLease' = FALSE /\ dbLease' = (serviceLease /\ dbLease)
  /\ storage' = IF serviceLease THEN storage ELSE "closed"
  /\ UNCHANGED <<stage, task, watched, shutdown, tries, dbOpen, memory, image, written,
                 sealing, sealFailures, releaseErrors>>

\* guardedInitialization gives the leases back, the narrower one first.  An
\* error of theirs is only logged: the lease is gone all the same.
CleanUpStart ==
  /\ Alive /\ storage = "failing"
  /\ dbLease' = FALSE /\ serviceLease' = (dbLease /\ serviceLease)
  /\ storage' = IF dbLease THEN storage ELSE "closed"
  /\ UNCHANGED <<stage, task, watched, shutdown, tries, dbOpen, memory, image, written,
                 sealing, sealFailures, releaseErrors>>

------------------------------------------------------------------------------
(* Tasks. *)

\* Work is refused until the start-up is ready.
Begin(t) ==
  /\ stage = "serving" /\ storage = "open" /\ task[t] = "new"
  /\ task' = [task EXCEPT ![t] = "running"] /\ watched' = watched \cup {t}
  /\ UNCHANGED <<stage, storage, shutdown, tries, leases, dbOpen, memory, image, written,
                 sealing, sealFailures, releaseErrors>>

\* The connection closes, the handler goes on.
ClientLeaves(t) ==
  /\ Alive /\ t \in Handlers \cap watched /\ InProgress(t)
  /\ watched' = watched \ {t}
  /\ UNCHANGED <<stage, task, storage, shutdown, tries, leases, dbOpen, memory, image,
                 written, sealing, sealFailures, releaseErrors>>

\* Mutant: writes are let in while the storage shuts down.
CommitAnyTime(t) ==
  /\ Alive /\ task[t] = "running"
  /\ storage = "open" /\ serviceLease /\ dbLease /\ dbOpen
  /\ memory' = memory \cup {t} /\ written' = written \cup {t}
  /\ task' = [task EXCEPT ![t] = "committed"]
  /\ UNCHANGED <<stage, watched, storage, shutdown, tries, leases, dbOpen, image, sealing,
                 sealFailures, releaseErrors>>

\* A statement that changes the database, past assertDatabaseMutationAllowed.
Commit(t) ==
  /\ Alive /\ task[t] = "running"
  /\ storage = "open" /\ ~ShuttingDown /\ serviceLease /\ dbLease /\ dbOpen
  /\ memory' = memory \cup {t} /\ written' = written \cup {t}
  /\ task' = [task EXCEPT ![t] = "committed"]
  /\ UNCHANGED <<stage, watched, storage, shutdown, tries, leases, dbOpen, image, sealing,
                 sealFailures, releaseErrors>>

\* acknowledgeDurableStorageMutation
Acknowledge(t) ==
  /\ Alive /\ task[t] = "committed"
  /\ task' = [task EXCEPT ![t] = "sealing"] /\ AskSeal
  /\ UNCHANGED <<stage, watched, storage, shutdown, tries, leases, dbOpen, memory, image,
                 written, sealFailures, releaseErrors>>

\* It wrote nothing, or was refused, or leaves its write to the timer.
Finish(t) ==
  /\ Alive /\ task[t] \in {"running", "committed"}
  /\ task' = [task EXCEPT ![t] = "ended"]
  /\ UNCHANGED <<stage, watched, storage, shutdown, tries, leases, dbOpen, memory, image,
                 written, sealing, sealFailures, releaseErrors>>

------------------------------------------------------------------------------
(* The storage shutdown. *)

\* shutdownStorage, called by retryStorageShutdown until it succeeds.
ShutdownStorage ==
  /\ stage = "storage" /\ shutdown \in {"none", "failed"}
  /\ shutdown' = "begun" /\ tries' = 0
  /\ UNCHANGED <<stage, task, watched, storage, leases, dbOpen, memory, image, written,
                 sealing, sealFailures, releaseErrors>>

\* It waits for an initialization under way, which it has aborted.
AwaitStart ==
  /\ Alive /\ shutdown = "begun"
  /\ \/ storage = "closed" /\ shutdown' = "over"
     \/ storage = "open" /\ shutdown' = "sealing"
  /\ UNCHANGED <<stage, task, watched, storage, tries, leases, dbOpen, memory, image,
                 written, sealing, sealFailures, releaseErrors>>

FinalSeal ==
  /\ Alive /\ shutdown = "sealing"
  /\ shutdown' = "awaiting" /\ AskSeal
  /\ UNCHANGED <<stage, task, watched, storage, tries, leases, dbOpen, memory, image,
                 written, sealFailures, releaseErrors>>

\* closeOpenDatabase; a seal in flight now is waited for, a later one is not.
CloseDatabase ==
  /\ Alive /\ shutdown = "sealed"
  /\ shutdown' = IF seal = "idle" THEN "drained" ELSE "closed"
  /\ dbOpen' = FALSE /\ memory' = {}
  /\ UNCHANGED <<stage, task, watched, storage, tries, leases, image, written, sealing,
                 sealFailures, releaseErrors>>

\* A lease is gone after its release, which may yet report an error; then the
\* attempt counts as failed and the storage stays initialized.
Release(next) ==
  \/ shutdown' = next /\ UNCHANGED releaseErrors
  \/ /\ releaseErrors < MaxReleaseErrors /\ releaseErrors' = releaseErrors + 1
     /\ shutdown' = "failed"

\* releaseEncryptedSqliteProcessLease; without a lease there is nothing to do.
ReleaseDatabase ==
  /\ Alive /\ shutdown = "drained"
  /\ IF dbLease THEN Release("database released")
                ELSE shutdown' = "database released" /\ UNCHANGED releaseErrors
  /\ dbLease' = FALSE
  /\ UNCHANGED <<stage, task, watched, storage, tries, serviceLease, dbOpen, memory, image,
                 written, sealing, sealFailures>>

\* releaseStorageServiceProcessLease
ReleaseService ==
  /\ Alive /\ shutdown = "database released"
  /\ IF serviceLease THEN Release("over") ELSE shutdown' = "over" /\ UNCHANGED releaseErrors
  /\ serviceLease' = FALSE
  /\ storage' = IF shutdown' = "over" THEN "closed" ELSE storage
  /\ UNCHANGED <<stage, task, watched, tries, dbLease, dbOpen, memory, image, written,
                 sealing, sealFailures>>

------------------------------------------------------------------------------
(* The launcher. *)

GoesTo(s) ==
  /\ stage' = s
  /\ UNCHANGED <<task, watched, storage, shutdown, tries, leases, dbOpen, memory, image,
                 written, sealing, sealFailures, releaseErrors>>

\* dispatchShutdownRequest: the terminal latch, the end of new work.
RequestShutdown == stage = "serving" /\ GoesTo("draining")

\* Every connection is closed and every background task is idle.
WatchedIdle == \A t \in watched : ~InProgress(t)

Drained == stage = "draining" /\ WatchedIdle /\ GoesTo("storage")

\* Mutant: the deadline is one for requests, not for background tasks.
DrainOfRequestsTimesOut ==
  stage = "draining" /\ (\E t \in watched \cap Handlers : InProgress(t)) /\ GoesTo("resident")

\* The process stays, with its storage, for the supervisor to kill.
DrainTimesOut == stage = "draining" /\ ~WatchedIdle /\ GoesTo("resident")

\* finalizeSafeExit
Exit == stage = "storage" /\ shutdown = "over" /\ GoesTo("exited")

AtRest == stage \in {"resident", "exited"} /\ UNCHANGED vars

StorageStep ==
  \/ Serialize \/ Publish \/ SealFails
  \/ AcquireLease \/ OpenDatabase \/ StartFails \/ CleanUpStart

ShutdownStep ==
  \/ ShutdownStorage \/ AwaitStart \/ FinalSeal \/ CloseDatabase
  \/ ReleaseDatabase \/ ReleaseService

LauncherStep == Drained \/ DrainTimesOut \/ Exit

Next ==
  \/ \E t \in Tasks : \/ Begin(t) \/ ClientLeaves(t) \/ Commit(t) \/ Acknowledge(t)
                      \/ Finish(t)
  \/ TimedSeal \/ EnsureStorage \/ StorageStep
  \/ RequestShutdown \/ ShutdownStep \/ LauncherStep \/ AtRest

Spec == Init /\ [][Next]_vars

\* Seals and initializations end; the shutdown and the launcher go on, timers
\* included.  Nothing is assumed of the tasks: one may hang for ever.
FairSpec == Spec /\ WF_vars(StorageStep) /\ WF_vars(ShutdownStep) /\ WF_vars(LauncherStep)

------------------------------------------------------------------------------
(* Properties. *)

TypeOK ==
  /\ stage \in {"serving", "draining", "storage", "resident", "exited"}
  /\ task \in [Tasks -> {"new", "running", "committed", "sealing", "answered", "ended"}]
  /\ watched \subseteq Tasks
  /\ storage \in {"closed", "starting", "failing", "open"}
  /\ shutdown \in {"none", "begun", "sealing", "awaiting", "sealed", "closed",
                   "drained", "database released", "failed", "over"}
  /\ tries \in 0..SealTries
  /\ serviceLease \in BOOLEAN /\ dbLease \in BOOLEAN /\ dbOpen \in BOOLEAN
  /\ memory \subseteq Tasks /\ image \subseteq Tasks /\ written \subseteq Tasks
  /\ seal \in {"idle", "begun", "serialized"} /\ copy \subseteq Tasks /\ again \in BOOLEAN
  /\ sealFailures \in 0..MaxSealFailures /\ releaseErrors \in 0..MaxReleaseErrors

\* The successor of a process finds every committed write: the database lease
\* is only ever free while the sealed image holds them all, and a process that
\* exits owns nothing (storage.js:11874-11877, start-server.mjs:631-633).
HandedOver ==
  /\ ~dbLease => written \subseteq image
  /\ stage = "exited" => ~dbLease /\ ~serviceLease

\* What was answered as saved survives, whenever the process is killed
\* (acknowledgeDurableStorageMutation, storage.js:5034-5039).
AcknowledgedIsDurable == \A t \in Tasks : task[t] = "answered" => t \in image

\* The process-wide lease outlives the narrower one, so that no second worker
\* can enter through another path (storage.js:11874-11877).
ServiceCoversDatabase == dbLease => serviceLease

\* A shutdown ends in the exit, or keeps the process because of a task that
\* does not end, whatever seals fail on the way (start-server.mjs:213-268).
Ends == stage = "draining" ~> stage \in {"exited", "resident"}
ShutdownEnds == [](releaseErrors = 0) => Ends

\* The same although the release of a lease reported an error: "A release
\* implementation may close the OS lock successfully and then surface a cleanup
\* error" (storage.js:4672-4675), and the resident retries go on "until
\* recovery" (start-server.mjs:254).
ShutdownEndsAfterCleanupError == Ends
=============================================================================
