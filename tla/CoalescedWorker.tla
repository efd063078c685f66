--------------------------- MODULE CoalescedWorker ---------------------------
(***************************************************************************)
(* createCoalescedWorker (server/coalescedWorker.js): the single-flight     *)
(* worker behind the persisted mail sync.  Producers make work durable and  *)
(* kick; a drain looks at the work that is there when it begins.            *)
(*                                                                         *)
(* Left out: the counters and time stamps of the snapshot, and the          *)
(* descriptions of errors.                                                  *)
(***************************************************************************)

CONSTANT Producers

VARIABLES phase,            \* activePromise: "idle" when it is null; "starting"
                            \* until the loop begins; "draining"; "reporting"
          acceptingKicks,
          rerunRequested,
          stopper,          \* stopAndWait: "none", "waiting" or "done"
          waiting           \* producers whose kick no drain has followed yet

vars == <<phase, acceptingKicks, rerunRequested, stopper, waiting>>

Init ==
  /\ phase = "idle"
  /\ acceptingKicks = TRUE
  /\ rerunRequested = FALSE
  /\ stopper = "none"
  /\ waiting = {}

\* Mutant: a wake that finds the worker active is not remembered.
KickForgets(p) ==
  /\ acceptingKicks
  /\ waiting' = waiting \cup {p}
  /\ phase' = IF phase = "idle" THEN "starting" ELSE phase
  /\ rerunRequested' = FALSE
  /\ UNCHANGED <<acceptingKicks, stopper>>

\* kick: the first one starts the loop, the others ask for one more round.
Kick(p) ==
  /\ acceptingKicks
  /\ waiting' = waiting \cup {p}
  /\ IF phase = "idle"
       THEN phase' = "starting" /\ rerunRequested' = FALSE
       ELSE rerunRequested' = TRUE /\ UNCHANGED phase
  /\ UNCHANGED <<acceptingKicks, stopper>>

\* The loop calls drain.
BeginDrain == phase' = "draining" /\ waiting' = {}

\* The promise reaction in which runDrainLoop begins.
StartLoop ==
  /\ phase = "starting"
  /\ BeginDrain
  /\ UNCHANGED <<acceptingKicks, rerunRequested, stopper>>

\* drain failed: onError is awaited.
DrainFails ==
  /\ phase = "draining"
  /\ phase' = "reporting"
  /\ UNCHANGED <<acceptingKicks, rerunRequested, stopper, waiting>>

\* Mutant: the error of a drain ends the loop without freeing the worker.
EndRoundUnlessFailed ==
  /\ phase = "draining"
  /\ IF rerunRequested THEN BeginDrain ELSE phase' = "idle" /\ UNCHANGED waiting
  /\ rerunRequested' = FALSE
  /\ UNCHANGED <<acceptingKicks, stopper>>

\* The round is over: either the next one begins or the worker is idle, in
\* one uninterrupted step.
EndRound ==
  /\ phase \in {"draining", "reporting"}
  /\ IF rerunRequested THEN BeginDrain ELSE phase' = "idle" /\ UNCHANGED waiting
  /\ rerunRequested' = FALSE
  /\ UNCHANGED <<acceptingKicks, stopper>>

\* stopAndWait refuses later kicks and waits for the owner of the moment.
StopAndWait ==
  /\ stopper = "none"
  /\ acceptingKicks' = FALSE
  /\ stopper' = "waiting"
  /\ UNCHANGED <<phase, rerunRequested, waiting>>

StopDone ==
  /\ stopper = "waiting"
  /\ phase = "idle"
  /\ stopper' = "done"
  /\ UNCHANGED <<phase, acceptingKicks, rerunRequested, waiting>>

Next ==
  \/ \E p \in Producers : Kick(p)
  \/ StartLoop \/ DrainFails \/ EndRound \/ StopAndWait \/ StopDone

Spec == Init /\ [][Next]_vars

------------------------------------------------------------------------------
TypeOK ==
  /\ phase \in {"idle", "starting", "draining", "reporting"}
  /\ acceptingKicks \in BOOLEAN /\ rerunRequested \in BOOLEAN
  /\ stopper \in {"none", "waiting", "done"}
  /\ waiting \subseteq Producers

\* "A wake-up is never lost" (coalescedWorker.js:26-32): while an accepted
\* kick has not been followed by a drain, one is about to begin.
NoWakeLost ==
  waiting # {} => phase = "starting" \/ (phase # "idle" /\ rerunRequested)

\* Whoever awaits stopAndWait finds every accepted wake served and nothing
\* that could begin again (coalescedWorker.js:148-155).
StoppedIsQuiet == stopper = "done" => waiting = {} /\ phase = "idle" /\ ~acceptingKicks

\* A producer whose kick was accepted sees a drain begin after it.
EveryWakeServed == \A p \in Producers : p \in waiting ~> p \notin waiting
==============================================================================
