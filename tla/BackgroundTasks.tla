--------------------------- MODULE BackgroundTasks ---------------------------
(***************************************************************************)
(* The background work of the server and how it is told to stop             *)
(* (beginBackgroundShutdown, server/index.js): recurring tasks that never   *)
(* overlap themselves (recurringTask.js), the recovery that runs each of    *)
(* them once after the start (startupRecovery.js), the registry of tasks    *)
(* that outlive their request (backgroundTaskRegistry.js), the worker of    *)
(* the mail sync (CoalescedWorker) and the Discover queue (DiscoverQueue).  *)
(*                                                                         *)
(* Two of the recurring tasks are modelled, the one that kicks the worker   *)
(* and the one that scans for research; the others share only the recovery. *)
(* Left out: the start-up subsystems, whose attempts run in the registry,   *)
(* and the retry timer of the mail sync, which kicks as a request does.     *)
(***************************************************************************)
EXTENDS CoalescedWorker, DiscoverQueue

CONSTANTS Requests,      \* requests that kick the worker
          DetachedTasks,
          Workloads      \* bound of the model: the activities that meet

MailFetch == "mail-fetch"
ResearchRecovery == "discover-research-recovery"

Research == "research"   \* accounts that use Discover

ASSUME BackgroundAssumption ==
  /\ Producers = Requests \cup {MailFetch}
  /\ Workloads \subseteq
       SUBSET ({MailFetch, ResearchRecovery, Research} \cup Requests \cup DetachedTasks)

VARIABLES load,       \* the activities of this behaviour
          task,       \* activeRun of each: "idle" when it is null
          detached,   \* activeByName
          recovery, entry,   \* the recovery, and the entry it is at
          shutdown    \* "none"; "stopping" until whenIdle resolves; "idle"

workerVars == vars
taskVars == <<load, task, detached, recovery, entry, shutdown>>
backgroundVars == <<workerVars, queueVars, taskVars>>

RecurringTasks == load \cap {MailFetch, ResearchRecovery}

\* DEFAULT_STARTUP_RECOVERY_ORDER
Entries ==
  (IF ResearchRecovery \in load THEN <<ResearchRecovery>> ELSE <<>>)
  \o (IF MailFetch \in load THEN <<MailFetch>> ELSE <<>>)

Stopping == shutdown # "none"

BackgroundInit ==
  /\ Init /\ QueueInit
  /\ load \in Workloads
  /\ Research \notin load => \A u \in Users : research[u].status = "none"
  /\ task = [t \in RecurringTasks |-> "idle"]
  /\ detached = {}
  /\ recovery = IF Research \in load THEN "over" ELSE "none"
  /\ entry = 1
  /\ shutdown = "none"

------------------------------------------------------------------------------
(* Recurring tasks. *)

\* Mutant: only the timer is stopped, not what else starts a run.
RunNowAnyTime(t) ==
  /\ task[t] = "idle"
  /\ task' = [task EXCEPT ![t] = "working"]

\* runNow: neither after the stop nor while a run is under way.
RunNow(t) ==
  /\ ~Stopping /\ task[t] = "idle"
  /\ task' = [task EXCEPT ![t] = "working"]

\* The interval's timer.
Tick(t) ==
  /\ RunNow(t)
  /\ UNCHANGED <<workerVars, queueVars, load, detached, recovery, entry, shutdown>>

\* execute goes to its next entry, or has done them all, or was aborted.
NextEntry ==
  /\ recovery' = IF entry = Len(Entries) \/ Stopping THEN "over" ELSE "pausing"
  /\ entry' = entry + 1

\* The finally of a run; the recovery goes on if it was the run it awaits.
RunEnds(t) ==
  /\ task' = [task EXCEPT ![t] = "idle"]
  /\ IF recovery = "awaiting" /\ Entries[entry] = t
       THEN NextEntry ELSE UNCHANGED <<recovery, entry>>

\* guardedRun does nothing while the server starts, under memory pressure or
\* once the signal is aborted; and a run may fail at its first read.
Skip(t) ==
  /\ task[t] = "working" /\ RunEnds(t)
  /\ IF Stopping THEN UNCHANGED deferrals
     ELSE deferrals < MaxDeferrals /\ deferrals' = deferrals + 1
  /\ UNCHANGED <<workerVars, durables, lines, runs, drainDue, retryTimer,
                 queueStopped, load, detached, shutdown>>

\* The mail task has made its jobs durable; it kicks and awaits the worker.
KickAndWait ==
  /\ task[MailFetch] = "working" /\ ~Stopping
  /\ Kick(MailFetch)
  /\ task' = [task EXCEPT ![MailFetch] = "waiting"]
  /\ UNCHANGED <<queueVars, load, detached, recovery, entry, shutdown>>

Scan ==
  /\ task[ResearchRecovery] = "working" /\ ScanReads
  /\ task' = [task EXCEPT ![ResearchRecovery] = "waiting"]
  /\ UNCHANGED <<workerVars, load, detached, recovery, entry, shutdown>>

ScanEnds ==
  /\ task[ResearchRecovery] = "waiting" /\ ScanQueues
  /\ RunEnds(ResearchRecovery)
  /\ UNCHANGED <<workerVars, load, detached, shutdown>>

TaskStep(t) ==
  \/ Skip(t)
  \/ t = MailFetch /\ KickAndWait
  \/ t = ResearchRecovery /\ (Scan \/ ScanEnds)

------------------------------------------------------------------------------
(* The recovery after the start. *)

\* run, once the server is ready, which may be after the stop.
RunRecovery ==
  /\ recovery = "none"
  /\ recovery' = IF Stopping \/ Entries = <<>> THEN "over" ELSE "pausing"
  /\ UNCHANGED <<workerVars, queueVars, load, task, detached, entry, shutdown>>

\* The settling delay or the stagger is over.
Launch ==
  /\ recovery = "pausing" /\ ~Stopping
  /\ LET t == Entries[entry]
     IN  IF task[t] = "idle"
           THEN RunNow(t) /\ recovery' = "awaiting" /\ UNCHANGED entry
           ELSE NextEntry /\ UNCHANGED task   \* "occupied"
  /\ UNCHANGED <<workerVars, queueVars, load, detached, shutdown>>

\* delayWithAbort rejects.
RecoveryAborted ==
  /\ recovery = "pausing" /\ Stopping
  /\ recovery' = "over"
  /\ UNCHANGED <<workerVars, queueVars, load, task, detached, entry, shutdown>>

------------------------------------------------------------------------------
(* Requests and detached tasks. *)

RequestKicks(p) ==
  /\ p \in load /\ Kick(p)
  /\ UNCHANGED <<queueVars, taskVars>>

Track(d) ==
  /\ d \in load /\ ~Stopping
  /\ d \notin detached /\ detached' = detached \cup {d}
  /\ UNCHANGED <<workerVars, queueVars, load, task, recovery, entry, shutdown>>

Untrack(d) ==
  /\ d \in detached /\ detached' = detached \ {d}
  /\ UNCHANGED <<workerVars, queueVars, load, task, recovery, entry, shutdown>>

\* The worker goes on; when its loop ends, so does the task that awaits it.
WorkerGoesOn ==
  /\ StartLoop \/ DrainFails \/ EndRound \/ StopDone
  /\ IF phase' = "idle" /\ MailFetch \in load /\ task[MailFetch] = "waiting"
       THEN RunEnds(MailFetch) ELSE UNCHANGED <<task, recovery, entry>>
  /\ UNCHANGED <<queueVars, load, detached, shutdown>>

RequestStartsResearch(u) ==
  /\ Research \in load
  /\ StartResearch(u) \/ QueueStarted(u)
  /\ UNCHANGED <<workerVars, taskVars>>

QueueDrains == Drain /\ UNCHANGED <<workerVars, taskVars>>

QueueRetries == RetryFires /\ UNCHANGED <<workerVars, taskVars>>

RunGoesOn(u) == RunStep(u) /\ UNCHANGED <<workerVars, taskVars>>

------------------------------------------------------------------------------
(* The end. *)

\* beginBackgroundShutdown: everything is stopped, and what is under way is
\* collected, without an await.
BeginBackgroundShutdown ==
  /\ ~Stopping
  /\ shutdown' = "stopping"
  /\ StopAndWait /\ StopQueue
  /\ UNCHANGED <<load, task, detached, recovery, entry>>

BackgroundIsIdle ==
  /\ shutdown = "stopping"
  /\ recovery \in {"none", "over"}
  /\ \A t \in RecurringTasks : task[t] = "idle"
  /\ stopper = "done"
  /\ QueueIsIdle
  /\ detached = {}
  /\ shutdown' = "idle"
  /\ UNCHANGED <<workerVars, queueVars, load, task, detached, recovery, entry>>

RecoveryStep == RunRecovery \/ Launch \/ RecoveryAborted

\* A drain of the queue that is due, a microtask or the rest of the step that
\* asked for it, comes before anything else.
BackgroundNext ==
  \/ QueueDrains
  \/ /\ ~drainDue
     /\ \/ \E t \in RecurringTasks : Tick(t) \/ TaskStep(t)
        \/ RecoveryStep
        \/ \E p \in Requests : RequestKicks(p)
        \/ \E d \in DetachedTasks : Track(d) \/ Untrack(d)
        \/ WorkerGoesOn \/ QueueRetries
        \/ \E u \in Users : RequestStartsResearch(u) \/ RunGoesOn(u)
        \/ BeginBackgroundShutdown \/ BackgroundIsIdle

BackgroundSpec == BackgroundInit /\ [][BackgroundNext]_backgroundVars

\* What the process does by itself goes on: promise reactions run and the timer
\* of a retry fires.
Reaction ==
  ~drainDue /\ (WorkerGoesOn \/ QueueRetries \/ RecoveryStep \/ BackgroundIsIdle)

\* The interval fires, and a run or a detached task settles: their calls have
\* deadlines and abort signals.
Activity ==
  /\ ~drainDue
  /\ \/ \E t \in RecurringTasks : Tick(t) \/ TaskStep(t)
     \/ \E d \in DetachedTasks : Untrack(d)

\* Fairness for each of these together is less than the process gives to every
\* task of its own, and enough; it is strong where a drain that is due, which
\* comes first, interrupts what is enabled.
BackgroundFairSpec ==
  /\ BackgroundSpec
  /\ WF_backgroundVars(QueueDrains \/ Reaction)
  /\ SF_backgroundVars(Activity)
  /\ \A u \in Users : SF_backgroundVars(~drainDue /\ RunGoesOn(u))

------------------------------------------------------------------------------
(* Properties. *)

BackgroundTypeOK ==
  /\ TypeOK /\ QueueTypeOK
  /\ load \in Workloads
  /\ task \in [RecurringTasks -> {"idle", "working", "waiting"}]
  /\ detached \subseteq DetachedTasks
  /\ recovery \in {"none", "pausing", "awaiting", "over"}
  /\ entry \in 1..(Len(Entries) + 1)
  /\ shutdown \in {"none", "stopping", "idle"}

\* Once the background work reports idle nothing of it runs or can begin
\* again: "storage is now safe to close" (backgroundTaskRegistry.js:12-21,
\* index.js:10703-10724), and every wake the worker had accepted was served.
IdleForGood ==
  shutdown = "idle" =>
    /\ StoppedIsQuiet /\ stopper = "done"
    /\ \A t \in RecurringTasks : task[t] = "idle"
    /\ recovery \in {"none", "over"}
    /\ detached = {}
    /\ QueueIsIdle /\ ~retryTimer

\* The background work reports idle after it was told to stop.
BackgroundIdles == shutdown = "stopping" ~> shutdown = "idle"
==============================================================================
