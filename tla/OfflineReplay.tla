---------------------------- MODULE OfflineReplay ----------------------------
(***************************************************************************)
(* The edits of one application on one device: typed into the draft, saved  *)
(* online or queued (performSaveApplication, src/App.tsx), replayed when     *)
(* the server is back (syncOfflineQueue), merged field by field              *)
(* (src/offline.ts), and applied by the PATCH handler of                     *)
(* /api/applications/:id/delta (server/index.js), while another device       *)
(* edits the same application and answers are lost.                          *)
(*                                                                         *)
(* A field holds the edit that wrote it last; an edit is the moment it was   *)
(* made, on one clock for all devices and the server.  What StoreWrites      *)
(* shows of a request in the server, one atomic commit, is taken from there. *)
(*                                                                         *)
(* Left out: several applications, sessions that end, the application        *)
(* closed and opened again, storage that is full.                            *)
(***************************************************************************)
EXTENDS Naturals, Sequences, FiniteSets

CONSTANTS Fields,
          SavesOverQueue, \* TRUE: as in the code, an online save may start
                          \* while an edit of the application is queued
          RebaseAttempts, \* APPLICATION_SAVE_REBASE_ATTEMPTS
          MaxTyped,       \* bounds: edits typed here,
          MaxElsewhere,   \* edits of the other device,
          MaxLosses       \* requests given up

ASSUME OfflineAssumption ==
  /\ SavesOverQueue \in BOOLEAN
  /\ {RebaseAttempts, MaxTyped, MaxElsewhere, MaxLosses} \subseteq Nat

VARIABLES server,    \* the application on the server: [val, ver]
          history,   \* per field, the edits the server has held
          clock,
          calls,     \* requests on their way, answered ones included
          draft,     \* draftRef: the fields on the screen
          baseline,  \* draftBaselineRef: what the screen counts as saved
          queue,     \* the queue in localStorage: at most one entry
          reachable, \* is the server reachable, as far as the client knows
          due,       \* a trigger of syncOfflineQueue is pending
          sync,      \* offlineSyncRunRef
          save,      \* performSaveApplication; one save at a time
          used       \* how much of each bound is used

client == <<draft, baseline, queue, reachable, due, sync, save>>
vars == <<server, history, clock, calls, client, used>>

Edits == 0..clock
Values == [Fields -> Edits]
Copies == [val : Values, ver : Edits]
Entries == [at : Edits, app : Values, base : Copies]

\* A PATCH: the delta is what target changes on base.  by is "nobody" once the
\* client has given the request up, as the lost-th; seen is the server's copy
\* when it was checked and, once saved, the copy in the answer.
Call(by, base, target) ==
  [by |-> by, stage |-> "sent", base |-> base, target |-> target, seen |-> base, lost |-> 0]

Changed(c) == {f \in Fields : c.target[f] # c.base.val[f]}
Patched(c) == [f \in Fields |-> IF f \in Changed(c) THEN c.target[f] ELSE server.val[f]]

------------------------------------------------------------------------------
(* The queue, offline.ts. *)

\* mergeOfflineApplicationUpdate with autoResolve: of two diverging edits the
\* later one wins, by the time of the whole entry and of the whole record.
Merge(app, base, at, theirs) ==
  [f \in Fields |->
     IF \/ app[f] \in {theirs.val[f], base.val[f]}
        \/ theirs.ver # base.ver /\ theirs.val[f] # base.val[f] /\ at < theirs.ver
     THEN theirs.val[f] ELSE app[f]]

\* enqueueApplicationUpdate: one entry per application.  A new revision has
\* its own id, the time it was queued, and keeps the base of the first one.
Enqueue(app, base) ==
  /\ clock' = clock + 1
  /\ queue' = <<[at |-> clock', app |-> app,
                 base |-> IF queue = <<>> THEN base ELSE queue[1].base]>>
  /\ due' = (due \/ (reachable /\ sync.stage = "idle"))

\* removeOfflineQueueItems.
Without(ids) == IF queue = <<>> \/ queue[1].at \in ids THEN <<>> ELSE queue

\* Mutant: an acknowledgement removes the application's entry, whatever its id.
AcknowledgedByApplication(op, saved) == <<>>

\* acknowledgeOfflineApplicationUpdate: a newer revision is rebased on the
\* copy that was saved, unless its base has moved already.
Acknowledged(op, saved) ==
  IF queue = <<>> \/ queue[1].at = op.at \/ queue[1].base # op.base
  THEN Without({op.at})
  ELSE <<[queue[1] EXCEPT
            !.app = Merge(queue[1].app, [val |-> op.app, ver |-> saved.ver], queue[1].at, saved),
            !.base = saved]>>
------------------------------------------------------------------------------
Init ==
  /\ server = [val |-> [f \in Fields |-> 0], ver |-> 0]
  /\ history = [f \in Fields |-> {0}]
  /\ clock = 0 /\ calls = {}
  /\ draft = server.val /\ baseline = server
  /\ queue = <<>> /\ reachable = TRUE /\ due = FALSE
  /\ sync = [stage |-> "idle"] /\ save = [stage |-> "idle"]
  /\ used = [typed |-> 0, elsewhere |-> 0, losses |-> 0]

Uses(bound, limit) == used[bound] < limit /\ used' = [used EXCEPT ![bound] = @ + 1]

Put(val) ==
  /\ server' = [val |-> val, ver |-> clock + 1]
  /\ history' = [f \in Fields |-> history[f] \cup {val[f]}]
  /\ clock' = clock + 1

(* The server and the other device. *)

\* Nobody waits for the answer of a request that was given up.
Becomes(c, d) ==
  calls' = (calls \ {c}) \cup
           (IF d.by = "nobody" /\ d.stage \in {"saved", "refused"} THEN {} ELSE {d})

\* Mutant: the version is not compared, only where the delta leads.
ServerChecksTarget(c) ==
  /\ c.stage = "sent"
  /\ Becomes(c, [c EXCEPT !.seen = server,
                          !.stage = IF Patched(c) = c.target THEN "checked" ELSE "refused"])
  /\ UNCHANGED <<server, history, clock, client, used>>

\* The handler reads the application: another version is a conflict, and so is
\* a target that the delta does not lead to.
ServerChecks(c) ==
  /\ c.stage = "sent"
  /\ Becomes(c, [c EXCEPT !.seen = server,
                          !.stage = IF c.base.ver = server.ver /\ Patched(c) = c.target
                                    THEN "checked" ELSE "refused"])
  /\ UNCHANGED <<server, history, clock, client, used>>

\* It commits; if the application changed since, it merges, unless the same
\* field changed differently.
ServerCommits(c) ==
  /\ c.stage = "checked"
  /\ \/ /\ \E f \in Changed(c) : server.val[f] \notin {c.seen.val[f], c.target[f]}
        /\ Becomes(c, [c EXCEPT !.stage = "refused"])
        /\ UNCHANGED <<server, history, clock>>
     \/ /\ \A f \in Changed(c) : server.val[f] \in {c.seen.val[f], c.target[f]}
        /\ Put(Patched(c))
        /\ Becomes(c, [c EXCEPT !.stage = "saved", !.seen = server'])
  /\ UNCHANGED <<client, used>>

EditElsewhere(f) ==
  /\ Uses("elsewhere", MaxElsewhere)
  /\ Put([server.val EXCEPT ![f] = clock + 1])
  /\ UNCHANGED <<calls, client>>

(* Typing and saving. *)

Type(f) ==
  /\ Uses("typed", MaxTyped)
  /\ clock' = clock + 1
  /\ draft' = [draft EXCEPT ![f] = clock']
  /\ UNCHANGED <<server, history, calls, baseline, queue, reachable, due, sync, save>>

MustSave == save.stage = "idle" /\ draft # baseline.val

\* queueForSync: the unsynced copy counts as saved from here on.
QueueForSync(app, base) ==
  /\ Enqueue(app, base)
  /\ baseline' = [val |-> app, ver |-> base.ver]

SaveOffline ==
  /\ MustSave /\ ~reachable
  /\ QueueForSync(draft, baseline)
  /\ UNCHANGED <<server, history, calls, draft, reachable, sync, save, used>>

\* The ids in the queue are read before the request.
SaveOnline ==
  /\ MustSave /\ reachable
  /\ SavesOverQueue \/ queue = <<>>
  /\ save' = [stage |-> "sent", target |-> draft, base |-> baseline, tries |-> 0,
              over |-> {queue[i].at : i \in DOMAIN queue}]
  /\ calls' = calls \cup {Call("save", baseline, draft)}
  /\ UNCHANGED <<server, history, clock, draft, baseline, queue, reachable, due, sync, used>>

\* replaceApplication, and the queued revisions go.  A draft typed into since
\* is kept as it is, on the new baseline.
Saved(copy) ==
  /\ queue' = Without(save.over)
  /\ baseline' = copy
  /\ draft' = IF draft = save.target THEN copy.val ELSE draft
  /\ save' = [stage |-> "idle"]

SaveAnswered(c) ==
  /\ c.by = "save" /\ c.stage = "saved"
  /\ calls' = calls \ {c}
  /\ Saved(c.seen)
  /\ UNCHANGED <<server, history, clock, reachable, due, sync, used>>

\* Mutant: one attempt too many.
SaveRefusedOnceMore(c) ==
  /\ c.by = "save" /\ c.stage = "refused"
  /\ calls' = calls \ {c}
  /\ save' = IF save.tries <= RebaseAttempts
             THEN [save EXCEPT !.stage = "rebasing", !.tries = @ + 1]
             ELSE [stage |-> "idle"]
  /\ UNCHANGED <<server, history, clock, draft, baseline, queue, reachable, due, sync, used>>

\* A conflict: the save is rebased, a few times at most.
SaveRefused(c) ==
  /\ c.by = "save" /\ c.stage = "refused"
  /\ calls' = calls \ {c}
  /\ save' = IF save.tries < RebaseAttempts
             THEN [save EXCEPT !.stage = "rebasing", !.tries = @ + 1]
             ELSE [stage |-> "idle"]
  /\ UNCHANGED <<server, history, clock, draft, baseline, queue, reachable, due, sync, used>>

\* rebaseApplicationForRetry: the merge counts the edit as made just now.
Rebase ==
  /\ save.stage = "rebasing"
  /\ LET merged == Merge(save.target, save.base, clock, server)
     IN  \/ /\ merged = server.val
            /\ Saved(server)
            /\ UNCHANGED calls
         \/ /\ merged # server.val
            /\ calls' = calls \cup {Call("save", server, merged)}
            /\ save' = [save EXCEPT !.stage = "sent"]
            /\ UNCHANGED <<draft, baseline, queue>>
  /\ UNCHANGED <<server, history, clock, reachable, due, sync, used>>

RebaseFails ==
  /\ save.stage = "rebasing"
  /\ Uses("losses", MaxLosses)
  /\ save' = [stage |-> "idle"]
  /\ UNCHANGED <<server, history, clock, calls, draft, baseline, queue, reachable, due, sync>>

\* The request or its answer is lost: withSmartRetry sends it again, or the
\* first request's edit is queued, or the draft stays unsaved.  The server may
\* still act on the request that was given up.
SaveGivesUp(c) ==
  /\ c.by = "save"
  /\ Uses("losses", MaxLosses)
  /\ LET others == (calls \ {c}) \cup {[c EXCEPT !.by = "nobody", !.lost = used'.losses]}
     IN  \/ /\ calls' = others \cup {Call("save", c.base, c.target)}
            /\ UNCHANGED <<clock, baseline, queue, due, save>>
         \/ /\ save.tries = 0
            /\ calls' = others
            /\ QueueForSync(save.target, save.base)
            /\ save' = [stage |-> "idle"]
         \/ /\ save.tries > 0
            /\ calls' = others
            /\ save' = [stage |-> "idle"]
            /\ UNCHANGED <<clock, baseline, queue, due>>
  /\ UNCHANGED <<server, history, draft, reachable, sync>>

(* The replay of the queue. *)

SyncStart ==
  /\ reachable /\ due /\ sync.stage = "idle" /\ queue # <<>>
  /\ sync' = [stage |-> "listing", op |-> queue[1]]
  /\ due' = FALSE
  /\ UNCHANGED <<server, history, clock, calls, draft, baseline, queue, reachable, save, used>>

\* Mutant: nobody looks for revisions queued meanwhile.
SyncEndsUnawares(remaining) ==
  /\ queue' = remaining
  /\ sync' = [stage |-> "idle"]
  /\ UNCHANGED due

\* The run ends; a revision queued meanwhile is followed up.
SyncEnds(remaining) ==
  /\ queue' = remaining
  /\ due' = (due \/ \E i \in DOMAIN remaining : remaining[i].at # sync.op.at)
  /\ sync' = [stage |-> "idle"]

\* The list of applications arrived: nothing to replay, or the merged copy.
SyncMerge ==
  /\ sync.stage = "listing"
  /\ LET merged == Merge(sync.op.app, sync.op.base, sync.op.at, server)
     IN  \/ /\ merged = server.val
            /\ SyncEnds(Without({sync.op.at}))
            /\ UNCHANGED calls
         \/ /\ merged # server.val
            /\ calls' = calls \cup {Call("sync", server, merged)}
            /\ sync' = [sync EXCEPT !.stage = "sent"]
            /\ UNCHANGED <<queue, due>>
  /\ UNCHANGED <<server, history, clock, draft, baseline, reachable, save, used>>

SyncListFails ==
  /\ sync.stage = "listing"
  /\ Uses("losses", MaxLosses)
  /\ sync' = [stage |-> "idle"]
  /\ UNCHANGED <<server, history, clock, calls, draft, baseline, queue, reachable, due, save>>

SyncAnswered(c) ==
  /\ c.by = "sync"
  /\ \/ /\ c.stage = "saved"
        /\ SyncEnds(Acknowledged(sync.op, c.seen))
     \/ /\ c.stage = "refused"
        /\ SyncEnds(queue)
  /\ calls' = calls \ {c}
  /\ UNCHANGED <<server, history, clock, draft, baseline, reachable, save, used>>

SyncGivesUp(c) ==
  /\ c.by = "sync"
  /\ Uses("losses", MaxLosses)
  /\ calls' = (calls \ {c}) \cup {[c EXCEPT !.by = "nobody", !.lost = used'.losses]}
  /\ SyncEnds(queue)
  /\ UNCHANGED <<server, history, clock, draft, baseline, reachable, save>>

(* Connectivity. *)

GoOffline ==
  /\ reachable /\ reachable' = FALSE
  /\ UNCHANGED <<server, history, clock, calls, draft, baseline, queue, due, sync, save, used>>

\* The effect on serverReachable calls syncOfflineQueue, in vain while a run
\* is under way.
GoOnline ==
  /\ ~reachable /\ reachable' = TRUE
  /\ due' = (due \/ sync.stage = "idle")
  /\ UNCHANGED <<server, history, clock, calls, draft, baseline, queue, sync, save, used>>

ServerStep(c) == ServerChecks(c) \/ ServerCommits(c)
Answer(c) == SaveAnswered(c) \/ SaveRefused(c) \/ SyncAnswered(c)

Next ==
  \/ \E f \in Fields : Type(f) \/ EditElsewhere(f)
  \/ \E c \in calls : ServerStep(c) \/ Answer(c) \/ SaveGivesUp(c) \/ SyncGivesUp(c)
  \/ SaveOffline \/ SaveOnline \/ Rebase \/ RebaseFails
  \/ SyncStart \/ SyncMerge \/ SyncListFails \/ GoOffline \/ GoOnline

Spec == Init /\ [][Next]_vars

\* What is in flight is answered unless it is given up, the autosave timer
\* fires, a trigger of the replay is acted on, and the connection comes back.
Fairness ==
  /\ WF_vars(\E c \in calls : c.by # "nobody" /\ (ServerStep(c) \/ Answer(c)))
  /\ WF_vars(SaveOffline \/ SaveOnline) /\ WF_vars(Rebase) /\ WF_vars(SyncMerge)
  /\ SF_vars(SyncStart) /\ WF_vars(GoOnline)

FairSpec == Spec /\ Fairness
------------------------------------------------------------------------------
TypeOK ==
  /\ server \in Copies /\ history \in [Fields -> SUBSET Edits] /\ clock \in Nat
  /\ draft \in Values /\ baseline \in Copies
  /\ queue = <<>> \/ queue \in [{1} -> Entries]
  /\ reachable \in BOOLEAN /\ due \in BOOLEAN
  /\ calls \subseteq [by : {"save", "sync", "nobody"}, stage : {"sent", "checked", "saved", "refused"},
                      base : Copies, target : Values, seen : Copies, lost : 0..MaxLosses]
  /\ used \in [typed : 0..MaxTyped, elsewhere : 0..MaxElsewhere, losses : 0..MaxLosses]
  /\ sync \in [stage : {"idle"}] \cup [stage : {"listing", "sent"}, op : Entries]
  /\ save \in [stage : {"idle"}] \cup
       [stage : {"sent", "rebasing"}, target : Values, base : Copies,
        tries : 0..RebaseAttempts, over : SUBSET Edits]

\* The field was changed by another device, or by a request given up, and the
\* record after the edit was typed: in the copy the server has, or in the one
\* the replay under way was merged with.
Overruled(entry, f) ==
  /\ used.elsewhere + used.losses > 0
  /\ \E copy \in {server} \cup {c.base : c \in {d \in calls : d.by = "sync"}} :
       copy.val[f] # entry.base.val[f] /\ copy.ver > entry.app[f]

\* An edit leaves the queue, or is replaced in it, only when the server has
\* held it, when a later edit of the field takes its place, or when it is
\* overruled: reconnecting drains the queue, disjoint edits merge, and a
\* divergence is settled by authoring time (App.tsx:6071-6073;
\* offline.ts:1242-1246).
QueuedEditsSettle ==
  [][\A i \in DOMAIN queue : \A f \in Fields :
       LET edit == queue[i].app[f]
       IN  edit # queue[i].base.val[f] =>
             \/ edit \in history'[f]
             \/ \E j \in DOMAIN queue' : queue'[j].app[f] >= edit
             \/ Overruled(queue[i], f)]_vars

\* A request sent again, a replay after a lost answer, or a request that was
\* given up and still runs, replaces a field only while the server has what
\* the copy shows that the request was made from: nothing is overwritten
\* unseen, whoever wrote it (applicationMerge.js:232-239, index.js:17930-17966).
OverwritesOnlyWhatWasSeen ==
  [][used'.elsewhere = used.elsewhere =>
       \A f \in Fields : server'.val[f] # server.val[f] =>
         \E c \in calls : /\ c.stage = "checked" /\ c.target[f] = server'.val[f]
                          /\ c.base.val[f] = server.val[f]]_vars

\* The queue drains when the connection comes back again and again, and with
\* no reconnection at all when no request is lost and nobody edits elsewhere
\* (App.tsx:6073; the follow-up of 6212-6220).
QueueDrains ==
  ([]<>~reachable \/ [](used.losses + used.elsewhere = 0)) => []<>(queue = <<>>)

==============================================================================
