# PhD Atlas: a verification development

PhD Atlas is a workspace for doctoral applications: a Node server
(`server/index.js`, one process, about 28 000 lines of routes and workers) over
one SQLite database (`server/storage.js`), a React client with an offline mode
(`src/`), and launchers for server and desktop (`tools/`, `desktop/`).  The TLA+
modules here model the parts of the server, and the offline client, where
concurrency, failure or ordering decide whether the program is right.  TLC checks them on small
instances; TLAPS proves the main safety results for every value of the
constants.  `PROJECT.json` holds the exact correspondence of definitions to
lines, the runs, the mutants, the hazards and the theorems.

The repository is the public edition: `server/edition.js` sets
`PUBLIC_EDITION`, team applications are filtered out of every workspace
(`server/index.js:4119`, `:4150`), so an application belongs to the account that
owns it and no module here speaks of teams.

## 1. Inventory

A request passes an **admission gate**, gets a snapshot of its workspace, is
changed by its **route handler**, and is committed through **write lanes** by
the **workspace write path**.  Behind the requests work **recurring tasks**, the
**coalesced worker** of the mail sync, the **Discover queue** and the passes of
the **outgoing mail worker**.  In front of them stands the **offline client**,
which queues edits and replays them.  Everything ends with the **shutdown**,
which stops the background work, drains the requests, seals the database and
gives back its **leases**.

| Component | State | Operations | What is hard | What makes it right |
|---|---|---|---|---|
| Admission controller (`runtimeResilience.js`) | queue, `active`, per-key counters, `closed` | acquire, drain, release, abort, timeout, close | newcomers do not look at the queue; leases released twice; close beside leases | counters are the leases; no waiter overtaken, lost or starved |
| Write lanes (`storage.js` 185-390) | waiting and active operations, the owner in AsyncLocalStorage | call, re-entrant call, drain, release | barrier of a global waiter; calls inside calls, awaited or not | mutual exclusion per tenant; every call runs, for several lanes once nobody conflicting waits |
| Workspace writes (`storage.js`, PUT and DELETE of `index.js`) | rows, tenant revisions; per request a snapshot, its baseline, its plan | hydrate, take lanes, compare revisions, merge, plan, commit, retry | every `await` lets others commit; two processes share a database; deletes beside edits; bounded retries | each request is one atomic step or none |
| Coalesced worker (`coalescedWorker.js`) | `activePromise`, `rerunRequested`, `acceptingKicks` | kick, drain loop, stopAndWait | a wake that arrives as the loop ends; failing drains; stop during a round | no accepted wake is lost |
| Outgoing mail (`index.js` 7820-7990, `storage.js` 21560-21990) | journal rows, the copy of the status in the application, the durable image | claim, dispatch mark, hand-over, acceptance, projection, retry, reconciliation | SMTP cannot be asked afterwards; crashes; old copies of the application written back | handed over at most once; nothing forgotten |
| HTTP routes (`index.js`) | none of their own | some 400 handlers | see workspace writes | each confined to what it names |
| Storage engine, snapshot transport (`storage.js`, `databaseConnection.js`) | SQLite in a file or in memory, sealed image or external copy | seal, synchronise, hydrate, migrate | a commit that is not durable yet; a failed copy after a commit | an acknowledged commit survives |
| Process leases (`sqliteProcessLease.js`) | lock file, heartbeat | acquire, assertOwned, release | a lease lost while a write runs | one owner |
| Recurring and background tasks (`recurringTask.js`, `backgroundTaskRegistry.js`, `startupRecovery.js`, `index.js` 10703) | timers, promises under way, the entry of the recovery | start, runNow, stop, track, drain, recover | the stop meets the timer, the recovery, a task that waits for a worker | what reports idle stays idle; it does report |
| Discover queue (`index.js` 10796-11600) | durable job per account; queues per user, their order, a cursor, scheduled keys, runs, a retry timer | start, scan, queue, drain, run, defer, settle, stop | a scan reads jobs that run, end or are resumed before it queues them; refusals and retries in turn | the books agree; every job ends |
| Start and shutdown (`index.js` 10703, 27957; `start-server.mjs`) | terminal latch, drain deadline, resident retries | request, drain, shut storage down, retry | late answers meet a closed database | what was acknowledged is durable when the lease is given back |
| Shared password work (`passwordWorkAdmission.js`) | work per key, subscribers | join, cancel, settle | joining work that is being cancelled | a subscriber gets the answer |
| Stream and memory admission (`streamAdmission.js`, `memoryReservationLedger.js`) | leases by bytes | reserve, grow, release | several limits at once | the ledger is the leases |
| System mail (`storage.js` 21250-21555) | rows of jobs | claim, mark, accept | as outgoing mail | as outgoing mail |
| Mail synchronisation (`mailSync.js`) | cursors, classification jobs | fetch, classify, confirm | restart between fetch and cursor | no message skipped |
| Offline client (`src/offline.ts`, `App.tsx` 6060-6320 and 7200-7500, PATCH `/delta` of `index.js`) | draft, its baseline, one queued edit per application, the save and the replay under way | type, save, queue, merge, replay, rebase, acknowledge | answers are lost after the server acted; edits meanwhile, here and elsewhere | no queued edit vanishes unsettled; nothing is overwritten unseen |
| Field merge (`applicationMerge.js`) | none | three-way merge | | both edits kept or a collision reported |
| Backup, system update (`automaticBackupAdmission.js`, `systemUpdate*.js`) | archives, a journal | write, restore, install, roll back | crash between files | recoverable |
| Research pipeline, admission insights, interview preparation | checkpoints, caches | search, rank, resume | third parties | |
| Realtime and push | subscriptions, batches | notify | | |
| Authentication, uploads, AI providers, user interface, desktop shell | | | | |

The last rows are single SQL statements, file I/O, calls of third parties, or
presentation; `PROJECT.json` gives the reason for each.

## 2. Modules

| Module | Models |
|---|---|
| `AdmissionController` | `createMutationAdmissionController` |
| `FairSemaphore` | what a gate promises: bounded holders, no overtaking |
| `WriteLanes` | `withWriteLock` and its drain |
| `LaneLock` | what the lanes promise: no common lane is held twice |
| `StoreWrites` | `hydrateUser`, `lockedWriteStore`, the write plan, the merge, `writeStoreWithRetry`, the transaction, and the PUT and DELETE handlers |
| `AtomicStore` | what the store promises: each request one step on the durable applications, or refused |
| `CoalescedWorker` | `createCoalescedWorker` |
| `DiscoverQueue` | the queue of Discover research: start, recovery scan, dispatch in turn, deferral, the end of a run |
| `BackgroundTasks` | recurring tasks, the start-up recovery, the registry of detached tasks and `beginBackgroundShutdown`; extends and composes the two above |
| `OutgoingMail` | `processOutgoingCommunication` and the journal functions it calls |
| `GracefulShutdown` | `dispatchShutdownRequest`, `stopServerWithinDeadline`, `performStorageShutdown` with `retryStorageShutdown`, the seals, the two leases, `ensureStorage` |
| `OfflineReplay` | an application on a device: draft, online save, offline queue, replay, field merge, and the PATCH handler that receives it, while another device edits it |
| `*_proofs` | the theorems of each; those of the worker and of the Discover queue are in `BackgroundTasks_proofs` |
| `SequenceFacts` | lemmas about `RemoveAt`, `Append`, `Tail`, concatenations and `ToSet` used by three of them |
| `MC*` | the instances TLC checks |

`AdmissionController` implements `FairSemaphore`, `WriteLanes` implements
`LaneLock` and `StoreWrites` implements `AtomicStore`: the runs check each
abstract specification as a PROPERTY under a refinement mapping, and the three
refinements are also proved.  `StoreWrites` composes with the lanes
through their promise: its action `TakeLanes` grants lanes in any order that
`LaneLock` allows, so it does not repeat their queue, and the fairness it
assumes of `TakeLanes` is the liveness that `WriteLanes` shows for calls of a
single lane.  `BackgroundTasks` uses the worker whole: its steps are steps of
`CoalescedWorker` or leave it alone, which is proved (`WorkerRefined`), so the
worker's theorems hold of it there.  `OfflineReplay` takes a committed request
as the one atomic step that `AtomicStore` promises.

### How state and actions correspond to the code

*Atomicity.* JavaScript runs a callback to its end, so everything between two
`await`s is one action.  Loops inside one callback (the two drains) are unrolled
into steps and a flag (`draining`, `scan`) keeps everything else out until the
loop ends.

*Admission.*  `queue`, `active`, `activeByKey`, `queuedByKey` and `closed` are
the closure variables of the controller; `status` says where each caller is.
`Acquire` has one disjunct per return of `acquire`; `Release` is the release
function of a lease, `ReleaseAgain` its second call; `Abandon` is a timer or an
abort, `DrainOne` one turn of the loop of `drain`.

*Lanes.*  `waiters` and `active` are the two module variables; `owner` is the
AsyncLocalStorage context.  `Call`, `CallInside`, `Release` and the three
`Drain…` steps follow `withWriteLock` and `drainWriteLaneWaiters`.  `Release`
looks at no inner call, as the `finally` of `withWriteLock` does not; a body that
awaits one (`Awaited`) has just not come to its end.  What it does not await, a
timer or a promise left behind, has its context too and may outlive it
(`CallInside`, then `Release`); started after it, it queues like any other call
(`Call`).

*Workspace writes.*  `content` are the rows of the applications table, each the
set of edits it contains, which is what makes a lost update visible; `trash` and
`revision` are `users` and `workspace_tenant_revisions`.  `apps`, `base`,
`baseTrash` and `baseRev` are the request's store and the baseline attached to
it.  A request walks `Hydrate`, `TakeLanes`, `CheckSnapshot`, `Rebase` (when the
snapshot is stale), `PlanWrite`, `Commit` or `CommitConflict`, and after a
conflict in the PUT handler `RetryEdit`.  The field merge is abstracted to its
two outcomes: both edits kept, or a collision.

*Worker.*  `phase` is what `activePromise` and the position in `runDrainLoop`
amount to; `waiting` is a history of the producers whose kick no drain followed
yet.

*Discover queue.*  `research` is the durable `researchJob` of each user;
`starting` holds the jobs whose request is between its transaction and
`enqueueDiscoverResearch`, `found` what the recovery scan has read and not yet
queued.  `queues`, `order` and `cursor` are the map of queues with its key
order, `scheduled` the set of scheduled keys, `runs` the jobs of the worker
pool.  A run goes from `begun` to `researching`, and then through `closing`
(its job is recorded as ended) or `deferred` (put back) to the `finally` that
settles the books.  Each turn of the loop of a drain is a step: it passes the
users that cannot run, takes the next one (`DrainTakes`) or ends (`DrainReturns`,
`DrainRefused`), and `drainDue` stays set until then.  A drain that is due is a
microtask or the rest of the step that asked for it, so in `BackgroundNext` it
comes before anything else.

*Background.*  `task` is `activeRun` of each recurring task: it works, and the
mail task then waits for the worker it kicked, the scan for what it read.
`recovery` and `entry` are the position in `startupRecovery.js`, `detached` the
registry.  `shutdown` goes from `stopping`, when `beginBackgroundShutdown` has
stopped everything and collected what is under way, to `idle`, when `whenIdle`
resolves.  `load` only bounds which activities meet in a behaviour.

*Offline.*  A field holds the edit that wrote it last, and an edit is the moment
at which it was made, on one clock; `history` remembers what the server ever
held.  `draft` and `baseline` are `draftRef` and `draftBaselineRef`, `queue` the
entry in localStorage.  `save` and `sync` are the positions of
`performSaveApplication` and of a run of `syncOfflineQueue`; `calls` are the
requests on their way, including those whose sender has given them up and which
the server may still carry out.  `due` is a trigger of the replay that has not
been acted on.

*Mail.*  `row` is a journal row: its status, whether `dispatch_started_at` is
set, and whether its times allow a claim (`due`).  `resident` is the status in
the application's payload, which every editor of the application reads and
writes back.  Neither retries nor projections change the tenant revision, so an
editor may hold a copy that is older than the payload and still be accepted:
`snapshot` is that copy.  `disk` is the image a restart finds when a commit
needs an acknowledgement (sealed or external database).  `received` counts what
the provider may have got.

*Shutdown.*  `stage` is where the launcher is: serving, draining
(`stopServerWithinDeadline`), in the storage shutdown, `resident` (the drain
missed its deadline, the process keeps its storage) or exited.  `shutdown` is
the position in `performStorageShutdown`, from `begun` to `over` or `failed`;
`storageShuttingDown` is true in between.  `storage` is what
`storageReadyPromise` and `storageInitialized` say together, `dbOpen` whether
there is a handle `db`.  The database is the encrypted one: `memory` is lost
with the process, `image` is the sealed file.  `seal`, `copy` and `again` are
`sealInFlightPromise`, the serialized database, and whether
`sealRequestedGeneration` is ahead of the generation that is being sealed.
Reading the terminal latch is the guard `stage = "serving"` of `EnsureStorage`.
`watched` are the tasks the drain waits for: a handler whose client goes away
is not among them, but runs on.

## 3. Runs

| Run | Instance | Shows |
|---|---|---|
| `admission` | 5 requests, 2 accounts and an anonymous caller, 2 slots, 1 per account, queues of 3 and 1; 3 732 states | counters equal leases, nobody admissible is left in the queue, the gate is a fair semaphore, every waiter is settled without help of its own timeout |
| `write_lanes` | 6 operations: two of one tenant, one of another, one of both, a global one, and one called inside three others, of which one does not await it; 8 638 states | mutual exclusion (as refinement), no lost wakeup, no overtaking; global and single-lane calls run, and one for several lanes does once no conflicting call waits along with it |
| `store` | in 2 processes, 2 edits and a delete of one application, an edit of another one of the account, and a delete of an account without a trash, one attempt of each kind; 42 588 states | atomic requests (as refinement), commits only into held lanes, trash and deletion in one commit, every change moves its tenant's revision, every request answered |
| `store_delete_race` | an edit and a delete of one application | violation, finding 1 |
| `store_retry_index` | two edits of an account's second application | violation, finding 2 |
| `background` | three mixtures: the mail task, a request that kicks the same worker and a detached task; the scan and research of two accounts; both recurring tasks in the recovery; 21 843 states | no wake lost and each served, the Discover books agree, research ends, what reports idle stays idle and does report |
| `mail` | 2 messages, 2 workers of which one at a time is admitted (the default), claims that may turn stale under a live worker, an editor with an old copy, 1 failure, 1 crash that loses unsealed commits; 143 198 states | at most one hand-over, what may have been received stays locked, also in the durable image; active mail stays among the communications; journal and payload close together; a durable acceptance is irreversible; everything settles |
| `mail_sent_twice` | 1 message, 2 workers at once, slow claims | violation, finding 3 |
| `graceful_shutdown` | 2 requests whose clients may go away and a background task, 2 failing seals, 1 failing release, start-ups that fail or are aborted; 278 788 states | no committed write is lost to the next process, acknowledged writes survive, the leases nest, the shutdown ends |
| `shutdown_stuck` | one request, one failing release | violation, finding 4 |
| `offline` | an application of 2 fields, 2 edits typed, 1 made elsewhere, 1 request lost, 1 rebase; 257 446 states | a queued edit leaves the queue only when it is settled, a request replaces only what it was made from, the queue drains |
| `offline_save_over_queue` | 2 edits typed, nothing lost, an online save that starts while an edit is queued | violation, finding 5 |

Every property has a mutant, an operator beside the definition it replaces
(`\* Mutant: ...`), and TLC finds the property violated with it.

### Bounds, and why they are enough

*Admission*: 2 slots and 1 per account make every guard matter: the gate full,
the key full, either queue full, a saturated waiter ahead of an admissible one.
The gates that reject a saturated key at once (`QueueWhenPerKeyActive = FALSE`)
are covered by the theorems.  *Lanes*: every kind of conflict (same lane,
overlap, global, nested) has its operation, each may be called again for ever;
the inner call that is not awaited is to a tenant its caller did not ask for.
*Store*: two edits and a delete of one application, from two processes, use up
both bounds on attempts when these are 1 (the code's are 3 and 2,
`MAX_STORE_WRITE_RETRIES` and `commitApplicationWithAutoMergeRetry`) and need
only more requests of the same sort.  *Background*: one slot and two accounts
make the users wait for their turn; one refusal or ended time slice
(`MaxDeferrals`) takes each way back into the queue; `MaxJobs = 1` still lets a
failed job be resumed again and again, before and after its run has settled.
That a user with a run is passed over needs a second slot: instances with one
slot and two jobs per account, and with two slots and two jobs, reach more than
half a million states and take too long for every day; `QueueBooksAgree` covers
them for the books.  *Mail*: the statuses only move forward or back to queued, so a crash and a
failure reach each phase after each of them.  Deliveries in parallel that reach
the mark in time are the theorems' case `~SlowClaims`; the run keeps the default,
one at a time, with slow claims.  *Shutdown*: 2
attempts at the final seal (the code's 3) and 2 failures let an attempt recover
by itself and let it fail as a whole and be repeated; one task after its drain,
one abandoned and one hanging are all the kinds of tasks there are.

*Offline*: an edit typed while another is saved or replayed, one edit elsewhere
and one lost answer let each of the three meet each of the others at every
position; the code tries two rebases (`APPLICATION_SAVE_REBASE_ATTEMPTS`), the
run one.

Two runs leave out what a finding breaks.  `store` never makes two edits of an
account's second application conflict (finding 2), so the handler's own retry
happens there only for the first one.  `offline` starts no online save while an
edit is queued (`SavesOverQueue = FALSE`, finding 5); `offline_save_over_queue`
has the code's behaviour.

`BackgroundTasks.cfg` and the two offline configurations turn the deadlock check
off: background work that was stopped, or a device with nothing to send, has
nothing to do.  All other runs check for deadlock.

### Fairness

Weak fairness of a step says that the event loop runs the callback.  Strong
fairness is used in these places.  `Release` (admission, lanes): a lease is
released, in a `finally` or by the binding to the HTTP response; it is strong
because an unrolled drain disables it for a few steps.  `ReturnInside`: an inner
call ends, though other inner calls come and go, and whether or not its caller is
still there.  `TakeLanes`: what
`EveryCallRuns` shows of single-lane calls, the only ones these requests make.
`Claim`: the pass over the due rows, every 30 seconds, comes to each of them
although the claim is disabled while a row is not due or the slots are taken.
Nothing is assumed of timeouts, aborts, failures or crashes.

In the background, promise reactions, a due drain and the timer of a retry run
(weak fairness of `QueueDrains \/ Reaction`), the intervals fire and tasks and
detached work settle, because their calls carry deadlines and abort signals
(strong fairness of `Activity`), and a run of each user goes on (strong, because
drains come first).  That memory is not refused for ever is the bound
`MaxDeferrals`.

On the device, what is in flight is answered unless it is given up, the autosave
timer fires, a merge or a rebase goes on once its list has arrived, a trigger of
the replay is acted on (strong: the connection may go away in between), and the
connection comes back.  Requests may be lost as often as the bound allows, and
`QueueDrains` says under which conditions the queue still drains.

In the shutdown three groups of steps are weakly fair: the seals and start-ups
under way, the storage shutdown with its repetitions, and the launcher.  The
last two are driven by timers that keep the process alive
(`waitForRetry`, the exit hold).  Of the tasks nothing is assumed: one that
hangs makes the drain miss its deadline, which `ShutdownEnds` counts as an end
because the process then stays on purpose.  The write lock that the final seal
takes is left out, which assumes that a handler nobody waits for any more does
not keep it for ever.

## 4. Findings

1. `store_delete_race`: a row to delete is expected at the revision its tenant
   has when the plan is made, not when it was read (`storage.js:2156`).  An
   account without a trash deletes under the settings lane only, so an edit
   committed between the check and the plan disappears unseen, where
   `storage.js:2207-2209` asks for a conflict.
2. `store_retry_index`: the PUT handler's retry uses an index found in the
   focused snapshot in the list of the whole workspace (`index.js:17877`).  The
   application that stands there is overwritten in the list, and the write plan
   deletes it; `index.js:3471` calls the handler confined to one entity.
3. `mail_sent_twice`: `markOutgoingMailDispatching` returns another worker's
   mark like one's own (`storage.js:21818`).  With `OUTGOING_MAIL_MAX_ACTIVE`
   above 1 and two minutes between claim and mark, the message is handed over
   twice.
4. `shutdown_stuck`: when the release of a lease reports an error, the lease is
   gone and the attempt counts as failed (`storage.js:11889`).  Every later
   attempt begins with a seal, a seal needs the database lease
   (`storage.js:4940-4947`), and so every attempt fails: the process stays
   although the image is sealed and nothing holds the database.  The comment at
   `storage.js:4672-4675` keeps a lease only for "a later shutdown retry", and
   the retries go on "until recovery" (`start-server.mjs:254`), which cannot
   come.
5. `offline_save_over_queue`: an edit queued while the server was unreachable
   becomes part of the baseline (`App.tsx:6299`, from `7291`).  A save of another
   field that starts before the replay is refused for its hash
   (`index.js:17372`) and rebased with that baseline, so the queued edit counts
   as unchanged and the server's old value wins (`offline.ts:1182`); the success
   of the save then removes the queued entry (`App.tsx:7329-7331`, `7362`).  The
   edit is nowhere, where `App.tsx:6071-6073` says that every entry is retried,
   disjoint edits merge and reconnecting is enough to drain the queue.

Seen in the code, and without a run of their own:

- `index.js:11143` reads `currentJob` inside the transaction that completes a
  research run; no such name is in scope there, so the transaction throws and
  every run that built its result is recorded as failed
  (`DISCOVER_RESEARCH_FAILED`).  The comment at `index.js:11285-11287` wants
  the opposite.  The tests replace `runJob` and do not get there.
  `DiscoverQueue` models what the code does: `Fails` is the only way a finished
  run ends.
- `storage.js:21455` returns another worker's mark of a system mail as finding
  3 does for outgoing mail, and nothing admits system mail one at a time.
- `App.tsx:6302-6316` keeps a draft that was typed into during a save and puts
  it on the baseline of the answer; a field merged in from elsewhere is then
  absent from the draft and the next save reverts it.  No other device is needed:
  a save that was given up and commits late plays its part, and a field goes
  back to an edit that the server had already replaced (six edits typed and three
  requests given up; TLC replays the script in 47 steps).  `offline.ts:1114` compares the
  times of whole entries and whole records, so an older edit of one field can
  win through a younger edit of another.  The properties of `OfflineReplay` are
  worded to allow both.
- A save given up by the client (`App.tsx:7450-7464`) may commit after a newer
  edit of the same field was queued.  The server stamps it with its commit time,
  and the replay of the newer edit then takes the older value for the later one
  (`offline.ts:1107-1116`, `1090-1097`): the newer edit is dropped although no
  other device wrote.  `offline.ts:1244-1245` rules this out for an answer that
  arrives ("Its later commit timestamp must never defeat the user's
  later-authored edit"); nothing does for one that is lost.  TLC finds it in
  eleven steps when `Overruled`, in `QueuedEditsSettle`, does not count
  `used.losses`; as it stands the property says that without another device and
  without a request given up no queued edit is ever overruled.
- `withWriteLock` gives the lanes back when its body ends (`storage.js:381-386`),
  and an inner call that the body did not await would go on beside the next
  holder of the lane.  The timers set by every changing statement inside a lane
  (`storage.js:3699`, `5241`) carry its context, but ask for no lane themselves,
  and no body was found that leaves a call of `withWriteLock` behind.  Nothing in
  `withWriteLock` prevents it, so `write_lanes` has such a caller:
  `ImplementsLaneLock` promises exclusion among the operations that were
  admitted, and what a body does not await stays the business of its author.
- `passwordWorkAdmission.js:199` lets a caller join work whose last subscriber
  is just cancelling it; the window lies between two microtasks.

## 5. Theorems

All are proved by TLAPS for every value of the constants, from the assumptions
the modules name (`LimitsAssumption`, `RequestsAssumption`,
`OperationsAssumption`, `StoreAssumption`, `QueueAssumption`,
`BackgroundAssumption`, `MailAssumption`, `ShutdownAssumption` and
`OfflineAssumption`; all are evaluated by TLC in the runs).

*Admission* (`Invariance`, `TypeCorrect`, `CountersAreLeases`, `LimitsHold`,
`WorkConserving`, `Refinement`).  The counters alone are not inductive: a drain
may decrement a counter only because the queue holds exactly the queued callers,
once each.  The invariant therefore joins the types, `LeasesCounted`,
`QueueIsTheWaiters`, `WaitersCounted`, `WithinLimits`, `ClosedHasNoWaiters` and
`NobodyLeftBehind`.  Work conservation is what lets a newcomer pass: the
refinement of `WalkIn` needs that nobody in the queue could be admitted.

*Lanes* (`LanesInvariance`, `LanesTypeCorrect`, `MutualExclusion`,
`NoLostWakeup`, `FirstComeFirstServed`, `LockRefinement`).
The invariant follows the index of the drain: every waiter before `scan` is
blocked now, and stays so until the drain ends, because a drain only ever adds
active operations.  At the end of the drain this is `NobodyForgotten`; in the
middle it is what `NoOvertaking` needs.

*Workspace writes* (`StoreInvariance`, `TrashIsTransactional`,
`StoreTypeCorrect`, `StoreIsAtomic`, `CommitsUnderLanes`, `ChangesAreSeen`,
`DatabaseHoldsWhatWasSaved`, `ChangesStayConfined`, `DeletesAreSeenThrough`,
`LanesComeBack`).  The
invariant says that a snapshot is honest: as long as the revision it read of its
account stands, so does the trash it read, and a plan that touches the trash
expects that revision.  So the comparison in the transaction protects the trash,
and a trash item appears exactly with its deletion.  `StoreIsAtomic`,
the refinement of `AtomicStore`, and the two after it add that the rows a
request read are honest in the same way (`BaseHonest`), that its list is those
rows with its own edit in the target, or without the target (`EditsItsTarget`,
`DropsItsTarget`), through every merge, that its plan expects the revision it
read (`PlanFits`), and that the lanes it was granted are still out.  They assume
`RightIndex`: the handler does not retry, or an edit is about the first
application of its account; finding 2 shows what happens otherwise.
On them rest `DatabaseHoldsWhatWasSaved`, an equation between the database and
the answers (an application holds exactly the edits answered as saved, and is
gone exactly when a delete was), and the complements of the first two findings:
`ChangesStayConfined` shows that finding 2 has no cause but the index, and
`DeletesAreSeenThrough` that finding 1 has none but the deletes that leave no
trash item.  `LanesComeBack` needs no such assumption: every way out of a write
gives its lanes back.

*Worker* (`WorkerInvariance`, `WorkerTypeCorrect`, `WakesAreKept`,
`StopIsFinal`).  The invariant joins the types, `NoWakeLost`, `StoppedIsQuiet`, that an idle
worker owes nothing (`IdleOwesNothing`) and that a stopper has closed the door
(`StopperRefuses`).

*Background* (`BackgroundInvariance`, `WorkerRefined`, `StaysIdle`,
`BackgroundTypeCorrect`, `QueueBooksAgree`).
`WorkerRefined` shows that every step of the composition is a step of the worker
or a stutter, so the worker's theorems carry over.  For `StaysIdle` the
invariant says that the parts are stopped together (`StopsTogether`), that a
stopped queue stays empty and without a timer (`EmptyOnceStopped`), and that
after the report nothing is under way (`QuietOnceIdle`).  For the books
(`QueueBooksAgree`) it says that a job is in one place only, a queue, a run or
on its way from a request or the scan (`InOnePlace`), that the keys are exactly
those jobs, and that a user has a turn exactly when his queue is not empty;
`InRecovery` and `Places` tie the scan's lists to the position of the recovery.

*Mail* (`MailTypeCorrect`, `JournalAndApplicationAgree`, `ActiveMailIsShown`,
`ClosedTogether`, `AcceptanceStays`; `MailInvariance`, `MailIsSentOnce`,
`MaybeSentStaysLocked`).  The first five hold of any configuration.  Their
invariant, `Agreement`, relates row, payload, image and copies message by
message: what is active is shown, what is shown as sent is sent, what is sent is
shown as sent or gone, the image is never ahead past the hand-over, and no copy
carries a sent message that has been removed since; without the last a stale
write could show a message as sent in a step that closes nothing.  `StepShapes`
sorts the twenty actions into five kinds, so that each fact is argued once per
kind.  The last three assume `Prompt`: deliveries are serial
(`MaxActive = 1`, the default) or a claim never turns stale under a live worker;
finding 3 shows that one of the two is needed.  The invariant gives a claim one
holder: a worker past the mark is the only one with that message, the row has
its mark, and past the acknowledgement the durable image has it too.  So a
worker that hands over finds nothing received, and a crash cannot bring back a
claimable row of a message that may be with the provider.

*Shutdown* (`Invariance`, `TypeCorrect`, `NothingLostInHandOver`,
`AcknowledgementsAreDurable`, `LeasesNest`).  The properties speak of the image
only; the invariant adds where the writes are otherwise (`Contents`: in memory
while the database is open, in the image while it is closed, and an image is
only replaced by a larger one), that the handle, the two leases and the storage
nest (`Nesting`), what each position of the shutdown implies (`Progress`), and
that a serialized copy holds the write of everyone who waits for it unless the
seal goes round again (`Promised`, `FinalImage`).

*Offline* (`OfflineTypeCorrect`, `AnswersFindTheirCaller`).  The types of the
save and of the run of the replay depend on their stage, so the invariant adds
`Linked`: a request belongs to the one that waits for it, and each waits for one
at a time.  The types grow with the clock; `TypesGrow` and `Carried` say once
that what a step leaves alone keeps its type.  These two hold with saves over
a queue too.

`VersionsIdentifyCopies`, `NothingOverwrittenUnseen` and `NoQueuedEditIsLost`
assume that no save starts over a queued edit (`~SavesOverQueue`); finding 5
shows the last one false without it.  Their argument goes in four steps.
First, the save and the replay take turns (`Turns`).  Second, a copy that carries
the server's version is the server's copy (`KnownCopies`): of every request, of
a queued entry, and of the baseline while nothing is queued, since queueing an
edit makes it part of the baseline (App.tsx:7291).  So a request that passes the
check of its hash replaces what it was made from, which is
`NothingOverwrittenUnseen`.  Third, what the replay sends is the entry it took
from the queue, up to the fields where the copy it was merged with was changed
later (`Replayed`), and an entry typed meanwhile is no older than that one
(`InTime`); once the request is saved, the server has held what it carried
(`Held`).  Fourth, with no other device and no request given up, the server has
what the device took it to have (`Alone`), so a merge overrules nothing.
Together (`SettleInv`) they make an acknowledgement settle each field it drops.
Each part was an invariant of TLC first, up to three edits typed, one made
elsewhere and one request lost, or three typed and two lost (6.7 million states).

`EditsArriveInOrder` adds that with no other device and no request given up the
server never goes back to an earlier edit of a field: what is queued, sent or replayed is at least as late as
what it was made from (`Rising`), and a save asks for what the screen showed,
rebased or not (`SaveAsks`).  §4 shows that it may go back once requests are
given up.

What stays with TLC: every liveness property (TLAPS proves no liveness under
fairness).  No module uses a RECURSIVE operator, and no theorem needs an
induction over data.

## 6. Not modelled

The reasons, component by component, are in `PROJECT.json`.  Inside the modelled
components: diagnostics counters and wait times, message bodies, audit events,
back-off lengths, the fields of an application beyond which edit wrote them,
profile assets, settings, quotas, and deletion of an application or account with
mail in progress.  Of the shutdown: external and unencrypted databases, the
telemetry flushed before the final seal, the update hand-off, a lease lost in
operation, and a start-up that fails after it opened the database.  Of the
background: the start-up subsystems, whose attempts are tasks of the registry,
the recurring tasks that only share the recovery, the research itself and its
checkpoint, the bound on the backlog.  Of the offline client: several
applications, sessions that end, the application closed and opened again,
storage that is full.  Hazards that no property covers yet have a note there.

Most of the repository's lines are routes that format, filter and store one
record, React components, calls of AI and mail providers, and command-line
tools: sequential code whose tests reach what a model of it would say.

## 7. Plan

1. Done: gate, lanes, workspace writes, outgoing mail, shutdown, coalesced
   worker, Discover queue and recurring tasks with their composition, offline
   replay; their abstract specifications, runs and theorems.
2. `SharedPasswordWork` and `MemoryReservations`: joined work is answered, the
   ledger is the leases; composed with the gate.
3. `SystemMail` beside the outgoing mail; `MailSync`: a cursor never passes a
   message that was not kept.
4. `ProcessLease`, `UpdateJournal`, `SnapshotTransport`.
5. Theorems: the invariants of these modules; and which requests given up let
   the server go back to an earlier edit (`EditsArriveInOrder` allows none).
