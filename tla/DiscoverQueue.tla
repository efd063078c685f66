---------------------------- MODULE DiscoverQueue ----------------------------
(***************************************************************************)
(* The queue of Discover research (server/index.js, createApp).  An account *)
(* has one durable job; the process keeps the jobs it is to run in a queue  *)
(* per user, serves the users in turn, a bounded number at a time and at    *)
(* most one of each, and puts a job back when memory or its time slice      *)
(* ends it early.  A periodic scan finds the durable jobs nobody queued.    *)
(*                                                                         *)
(* A run that built its result is never recorded as completed: the          *)
(* transaction that would do so reads currentJob, which is not defined      *)
(* there (index.js:11143), and the error it raises marks the job failed.    *)
(*                                                                         *)
(* Left out: the research itself and its checkpoint, the credentials a      *)
(* start is tested for, the bound on the backlog, and accounts deleted      *)
(* while their job is queued.                                               *)
(***************************************************************************)
EXTENDS Integers, FiniteSets, SequencesExt

CONSTANTS Users,
          Concurrency,   \* DISCOVER_RESEARCH_CONCURRENCY
          MaxJobs,       \* bound of the model: jobs of one account
          MaxDeferrals   \* bound of the model: refusals and slices that end

ASSUME QueueAssumption ==
  /\ IsFiniteSet(Users) /\ Users # {}
  /\ Concurrency \in Nat \ {0} /\ MaxJobs \in Nat \ {0} /\ MaxDeferrals \in Nat

JobIds == 1..MaxJobs
Keys == Users \X JobIds   \* discoverResearchJobKey

VARIABLES research,      \* per user, the durable researchJob
          starting,      \* jobs made durable whose request has yet to queue them
          found,         \* what the scan has read
          queues, order, \* discoverResearchQueues: per user, and its key order
          cursor,
          scheduled,     \* scheduledDiscoverResearchJobKeys
          runs,          \* the jobs being executed, each with its stage
          drainDue,      \* a call of drainDiscoverResearchQueue is on its way
          retryTimer,
          queueStopped,
          deferrals

durables == <<research, starting, found>>
lines == <<queues, order, cursor, scheduled>>
queueVars == <<durables, lines, runs, drainDue, retryTimer, queueStopped,
               deferrals>>

Unfinished(u) == research[u].status \in {"queued", "running"}

\* What an earlier process may have left in the store.
QueueInit ==
  /\ research \in [Users -> [id : {0}, status : {"none"}]
                            \cup [id : {1}, status : {"queued", "running"}]]
  /\ starting = {} /\ found = {}
  /\ queues = [u \in Users |-> <<>>] /\ order = <<>> /\ cursor = 0
  /\ scheduled = {} /\ runs = {}
  /\ drainDue = FALSE /\ retryTimer = FALSE /\ queueStopped = FALSE
  /\ deferrals = 0

------------------------------------------------------------------------------
(* Queueing. *)

\* enqueueDiscoverResearch, for jobs of different users in whatever order the
\* store has them.
Enqueue(jobs) ==
  LET fresh == jobs \ scheduled
      Owners == {u \in Users : \E i \in JobIds : <<u, i>> \in fresh}
  IN  /\ queues' = [u \in Users |->
                      IF u \in Owners
                      THEN Append(queues[u], CHOOSE i \in JobIds : <<u, i>> \in fresh)
                      ELSE queues[u]]
      /\ \E new \in SetToSeqs({u \in Owners : queues[u] = <<>>}) : order' = order \o new
      /\ scheduled' = scheduled \cup fresh
      /\ drainDue' = (drainDue \/ fresh # {})
      /\ UNCHANGED cursor

EnqueueUnlessStopped(jobs) ==
  IF queueStopped THEN UNCHANGED <<lines, drainDue>> ELSE Enqueue(jobs)

\* POST /api/discover/research/start, its transaction: an unfinished job is
\* reported as it is, a failed one is resumed if its checkpoint still fits.
StartResearch(u) ==
  /\ ~Unfinished(u)
  /\ \E i \in JobIds :
       /\ i = research[u].id + 1 \/ (i = research[u].id /\ research[u].status = "failed")
       /\ research' = [research EXCEPT ![u] = [id |-> i, status |-> "queued"]]
       /\ starting' = starting \cup {<<u, i>>}
  /\ UNCHANGED <<found, lines, runs, drainDue, retryTimer, queueStopped,
                 deferrals>>

\* The request goes on after the transaction.
QueueStarted(u) ==
  \E i \in JobIds :
    /\ <<u, i>> \in starting
    /\ starting' = starting \ {<<u, i>>}
    /\ EnqueueUnlessStopped({<<u, i>>})
    /\ UNCHANGED <<research, found, runs, retryTimer, queueStopped, deferrals>>

\* Mutant: the scan takes up only jobs that no run has begun.
ScanReadsQueued ==
  /\ found' = IF queueStopped THEN {}
              ELSE {<<u, research[u].id>> : u \in {v \in Users : research[v].status = "queued"}}
  /\ UNCHANGED <<research, starting, lines, runs, drainDue, retryTimer,
                 queueStopped, deferrals>>

\* recoverDiscoverResearchQueue reads the store and, later, queues what it saw.
ScanReads ==
  /\ found' = IF queueStopped THEN {}
              ELSE {<<u, research[u].id>> : u \in {v \in Users : Unfinished(v)}}
  /\ UNCHANGED <<research, starting, lines, runs, drainDue, retryTimer,
                 queueStopped, deferrals>>

ScanQueues ==
  /\ EnqueueUnlessStopped(found) /\ found' = {}
  /\ UNCHANGED <<research, starting, runs, retryTimer, queueStopped, deferrals>>

------------------------------------------------------------------------------
(* Dispatch. *)

\* drainDiscoverResearchQueue, one turn of its loop a step; drainDue until it
\* returns.

Eligible == {k \in 1..Len(order) : \A r \in runs : r.user # order[k]}

Dispatching ==
  /\ ~queueStopped /\ ~retryTimer
  /\ Cardinality(runs) < Concurrency /\ Eligible # {}

\* k is the place of the first user from the cursor on that has no run.
IsNext(k) ==
  LET Offset(j) == (j - 1 - cursor) % Len(order)
  IN  k \in Eligible /\ \A j \in Eligible : Offset(k) <= Offset(j)

\* Mutant: the cursor is not wrapped.
PassesUnwrapped(k) == cursor' = k

Passes(k) == cursor' = k % Len(order)

Takes(k) ==
  LET u == order[k]
      rest == Tail(queues[u])
  IN  /\ queues' = [queues EXCEPT ![u] = rest]
      /\ order' = IF rest = <<>> THEN RemoveAt(order, k) ELSE order
      /\ runs' = runs \cup {[user |-> u, id |-> Head(queues[u]), stage |-> "begun"]}

DrainTakes ==
  /\ drainDue /\ Dispatching
  /\ \E k \in 1..Len(order) : IsNext(k) /\ Passes(k) /\ Takes(k)
  /\ UNCHANGED <<durables, scheduled, drainDue, retryTimer, queueStopped, deferrals>>

\* The memory guard or the memory ledger refuses.
DrainRefused ==
  /\ drainDue /\ Dispatching
  /\ deferrals < MaxDeferrals /\ deferrals' = deferrals + 1
  /\ \E k \in 1..Len(order) : IsNext(k) /\ Passes(k)
  /\ retryTimer' = TRUE /\ drainDue' = FALSE
  /\ UNCHANGED <<durables, queues, order, scheduled, runs, queueStopped>>

DrainReturns ==
  /\ drainDue /\ ~Dispatching
  /\ drainDue' = FALSE
  /\ UNCHANGED <<durables, lines, runs, retryTimer, queueStopped, deferrals>>

Drain == DrainTakes \/ DrainRefused \/ DrainReturns

\* The timer of scheduleDiscoverResearchRetry.
RetryFires ==
  /\ retryTimer /\ retryTimer' = FALSE /\ drainDue' = TRUE
  /\ UNCHANGED <<durables, lines, runs, queueStopped, deferrals>>

------------------------------------------------------------------------------
(* A run: runQueuedDiscoverResearch and what the queue does around it. *)

Enters(r, s) == runs' = (runs \ {r}) \cup {[r EXCEPT !.stage = s]}

\* The transactions of a run leave a job alone that is not its own any more,
\* or no longer unfinished.
Records(r, status) ==
  research' = [research EXCEPT ![r.user].status =
                 IF research[r.user].id = r.id /\ Unfinished(r.user) THEN status ELSE @]

\* publishDiscoverResearchProgress, first once the requester and the keys are
\* found to be allowed, and then as the research goes on.
Researches(r) ==
  /\ \/ r.stage = "begun" /\ research[r.user].id = r.id
     \/ r.stage = "researching"
  /\ Records(r, "running") /\ Enters(r, "researching")
  /\ UNCHANGED <<starting, found, lines, drainDue, retryTimer, queueStopped,
                 deferrals>>

\* It was refused, an error ended it, or it has its result and fails to record
\* it (see above).
Fails(r) ==
  /\ r.stage \in {"begun", "researching"} /\ ~queueStopped
  /\ Records(r, "failed") /\ Enters(r, "closing")
  /\ UNCHANGED <<starting, found, lines, drainDue, retryTimer, queueStopped,
                 deferrals>>

\* publishDiscoverResearchDeferral: memory, the time slice or the end of the
\* process stopped it.
Defers(r) ==
  /\ r.stage \in {"begun", "researching"}
  /\ IF queueStopped THEN UNCHANGED deferrals
     ELSE deferrals < MaxDeferrals /\ deferrals' = deferrals + 1
  /\ Records(r, "queued") /\ Enters(r, "deferred")
  /\ UNCHANGED <<starting, found, lines, drainDue, retryTimer, queueStopped>>

\* Mutant: the key of a job that is given up stays behind.
SettlesKeepingKey(r) ==
  /\ r.stage \in {"closing", "deferred"}
  /\ runs' = runs \ {r} /\ drainDue' = TRUE
  /\ IF r.stage = "deferred" /\ ~queueStopped
       THEN /\ queues' = [queues EXCEPT ![r.user] = <<r.id>> \o @]
            /\ order' = IF queues[r.user] = <<>> THEN Append(order, r.user) ELSE order
            /\ retryTimer' = TRUE
       ELSE UNCHANGED <<queues, order, retryTimer>>
  /\ UNCHANGED <<durables, cursor, scheduled, queueStopped, deferrals>>

\* The finally of the worker: a deferred job goes to the head of its queue and
\* waits for the timer, any other leaves the queue's books; then it drains.
Settles(r) ==
  /\ r.stage \in {"closing", "deferred"}
  /\ runs' = runs \ {r} /\ drainDue' = TRUE
  /\ IF r.stage = "deferred" /\ ~queueStopped
       THEN /\ queues' = [queues EXCEPT ![r.user] = <<r.id>> \o @]
            /\ order' = IF queues[r.user] = <<>> THEN Append(order, r.user) ELSE order
            /\ retryTimer' = TRUE
            /\ UNCHANGED scheduled
       ELSE /\ scheduled' = scheduled \ {<<r.user, r.id>>}
            /\ UNCHANGED <<queues, order, retryTimer>>
  /\ UNCHANGED <<durables, cursor, queueStopped, deferrals>>

\* stopDiscoverResearchQueue: what waits is dropped, what runs is aborted.
StopQueue ==
  /\ queueStopped' = TRUE /\ retryTimer' = FALSE
  /\ scheduled' = scheduled \ {key \in Keys : key[2] \in ToSet(queues[key[1]])}
  /\ queues' = [u \in Users |-> <<>>] /\ order' = <<>>
  /\ UNCHANGED <<durables, cursor, runs, drainDue, deferrals>>

\* discoverResearchQueueIsIdle
QueueIsIdle == runs = {} /\ order = <<>>

RunStep(u) ==
  \E r \in runs : r.user = u /\ (Researches(r) \/ Fails(r) \/ Defers(r) \/ Settles(r))

------------------------------------------------------------------------------
(* Properties. *)

QueueTypeOK ==
  /\ research \in [Users -> [id : 0..MaxJobs,
                             status : {"none", "queued", "running", "failed"}]]
  /\ starting \subseteq Keys /\ found \subseteq Keys /\ scheduled \subseteq Keys
  /\ \A u \in Users : queues[u] \in Seq(JobIds)
  /\ order \in Seq(Users) /\ cursor \in 0..(Cardinality(Users) - 1)
  /\ runs \subseteq [user : Users, id : JobIds,
                     stage : {"begun", "researching", "closing", "deferred"}]
  /\ {drainDue, retryTimer, queueStopped} \subseteq BOOLEAN
  /\ deferrals \in 0..MaxDeferrals

Waits(u, i) == i \in ToSet(queues[u])
Runs(u, i) == \E r \in runs : r.user = u /\ r.id = i

KeysAreTheJobs ==
  scheduled = {key \in Keys : Waits(key[1], key[2]) \/ Runs(key[1], key[2])}

InOnePlace ==
  \A u \in Users : /\ IsInjective(queues[u])
                   /\ \A i \in JobIds : ~(Waits(u, i) /\ Runs(u, i))

OneRunEach ==
  /\ \A r, s \in runs : r.user = s.user => r = s
  /\ Cardinality(runs) <= Concurrency

TurnsAreTheQueues ==
  IsInjective(order) /\ ToSet(order) = {u \in Users : queues[u] # <<>>}

\* The queue's books agree: a job is scheduled while it waits or runs, and at
\* no other time, or no request and no scan could ever queue it again; it never
\* does both, or twice; a user has one run at most and a turn while something
\* of theirs waits (index.js:10805-10810, 11475-11486).
BooksAgree == KeysAreTheJobs /\ InOnePlace /\ OneRunEach /\ TurnsAreTheQueues

\* An unfinished job ends unless the process stops, one that an earlier process
\* left or that was resumed before its failed run had settled included
\* (index.js:11474-11492, 11507-11530).
ResearchEnds == \A u \in Users : Unfinished(u) ~> (~Unfinished(u) \/ queueStopped)
=============================================================================
