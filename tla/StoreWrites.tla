----------------------------- MODULE StoreWrites -----------------------------
(***************************************************************************)
(* How a request that edits or deletes one application gets from its        *)
(* snapshot of the workspace to the database: lockedWriteStore, the write   *)
(* plan, the merge with what was committed meanwhile, writeStoreWithRetry   *)
(* and the transaction of writeStoreUnlocked (server/storage.js), with the  *)
(* PUT and DELETE handlers of /api/applications/:id around them             *)
(* (server/index.js).                                                       *)
(*                                                                         *)
(* Every `await` between two steps lets other requests run.  The content of *)
(* an application is the set of the edits it holds, so two versions differ  *)
(* exactly when their fingerprints do.  The order in which lanes are        *)
(* granted is left open: WriteLanes shows that it is a LaneLock.            *)
(*                                                                         *)
(* Left out: profile assets, settings and audit events (merged alike or     *)
(* appended), quota guards, encryption and the snapshot transport.          *)
(***************************************************************************)
EXTENDS Naturals, Sequences, FiniteSets, SequencesExt

CONSTANTS Requests,
          Deletes,        \* requests that delete; the others edit
          KeepTrash,      \* deletes of an account that keeps a trash, a field
                          \* of its row; others delete at once
          Target,         \* the application of each request
          Account,        \* the account lane of each request
          Process,        \* the server process each request runs in
          Applications,
          Place,          \* the place of each in the order of their deadlines
          AppLane,        \* the lane (tenant) each application belongs to: its
                          \* owner's account (edition.js: there are no teams)
          Lanes,
          SettingsLane,
          StoreRetries,   \* MAX_STORE_WRITE_RETRIES
          RouteRetries    \* the bound of commitApplicationWithAutoMergeRetry

ASSUME StoreAssumption ==
  /\ IsFiniteSet(Requests) /\ "absent" \notin Requests
  /\ IsFiniteSet(Applications)
  /\ Place \in [Applications -> Nat]
  /\ \A a, b \in Applications : Place[a] = Place[b] => a = b
  /\ KeepTrash \subseteq Deletes /\ Deletes \subseteq Requests
  /\ Target \in [Requests -> Applications]
  /\ SettingsLane \in Lanes
  /\ Account \in [Requests -> Lanes \ {SettingsLane}]
  /\ AppLane \in [Applications -> Lanes \ {SettingsLane}]
  /\ \A r \in Requests : AppLane[Target[r]] = Account[r]
  /\ StoreRetries \in Nat /\ RouteRetries \in Nat

VARIABLES content,    \* applications table: the edits of each row there is
          trash,      \* users table: the deletes in each account's trash
          revision,   \* workspace_tenant_revisions
          held,       \* the lanes that are out: <<request, lanes>>
          pc,         \* where each request stands
          apps,       \* request.store.applications, a sequence of records
          base,       \* the fingerprints of its baseline
          baseTrash,  \* the baseline of the account row
          baseRev,    \* the tenant revisions of its baseline
          expected,   \* expectedTenantRevisions of the write plan
          tries,      \* attempts of writeStoreWithRetry so far
          rounds      \* attempts of the PUT handler so far

durable == <<content, trash, revision>>
vars == <<content, trash, revision, held, pc, apps, base, baseTrash, baseRev,
          expected, tries, rounds>>

------------------------------------------------------------------------------
(* Snapshots. *)

\* What an absent row counts as in a comparison of fingerprints.
Absent == {"absent"}
At(f, a) == IF a \in DOMAIN f THEN f[a] ELSE Absent

\* The account's applications.
Workspace(r) == {a \in Applications : AppLane[a] = Account[r]}

\* A focused snapshot holds the target only; the handler's retry reads the
\* account's whole workspace.
InScope(r) == IF rounds[r] = 0 THEN {Target[r]} ELSE Workspace(r)
LanesInScope(r) == {SettingsLane, Account[r]}

\* A list of records in deadline order, from the content of each.
Rank(f, a) == Cardinality({b \in DOMAIN f : Place[b] <= Place[a]})
Listed(f) ==
  [i \in 1..Cardinality(DOMAIN f) |->
     LET a == CHOOSE b \in DOMAIN f : Rank(f, b) = i
     IN  [id |-> a, edits |-> f[a]]]

Ids(s) == {s[i].id : i \in DOMAIN s}
FirstIndex(s, a) ==
  CHOOSE i \in DOMAIN s : s[i].id = a /\ \A j \in DOMAIN s : s[j].id = a => i <= j
LastIndex(s, a) ==
  CHOOSE i \in DOMAIN s : s[i].id = a /\ \A j \in DOMAIN s : s[j].id = a => j <= i

\* Assignment to an index of a list, or to the first one after it.
PutAt(s, i, e) == [j \in DOMAIN s \cup {i} |-> IF j = i THEN e ELSE s[j]]

\* The Map built from a list: the last record of an id is the one that counts.
AsMap(s) == [a \in Ids(s) |-> s[LastIndex(s, a)].edits]

\* The rows readScopedStore returns now.
Rows(ids) == [a \in ids \cap DOMAIN content |-> content[a]]
Latest(r) == Rows(InScope(r))

\* The account row as the request means to leave it.
ProposedTrash(r) == IF r \in KeepTrash THEN baseTrash[r] \cup {r} ELSE baseTrash[r]

------------------------------------------------------------------------------
(* The write plan and the merge. *)

\* entityWritePlan: records that differ from the baseline, ids it has lost.
Upserts(r) ==
  Restrict(apps[r], {i \in DOMAIN apps[r] : At(base[r], apps[r][i].id) # apps[r][i].edits})
DeletedIds(r) == DOMAIN base[r] \ Ids(apps[r])

\* tenantKeys: those of the rows written.  A deleted row contributes none.
PlanLanes(r) ==
  {AppLane[a] : a \in Ids(Upserts(r))} \cup (IF r \in KeepTrash THEN {Account[r]} ELSE {})

\* Mutant: every write takes the lane of audit events.
LanesToTakeForAudit(r) == {SettingsLane}

\* tenantKeysForWriteStore: the lanes taken before the write.
LanesToTake(r) == IF PlanLanes(r) = {} THEN {SettingsLane} ELSE PlanLanes(r)

\* Mutant: deleting a row does not count as a change of its tenant.
ExtendedLanesWithoutDeletes(r) == PlanLanes(r)

\* extendWritePlanTenantKeysForDeletes: the tenants of the rows to delete.
ExtendedLanes(r) ==
  PlanLanes(r) \cup {AppLane[a] : a \in DeletedIds(r) \cap DOMAIN content}

\* mergeEntityChanges: both sides changed an application, differently.
Conflicting(r, latest) ==
  {a \in DOMAIN base[r] :
     /\ At(latest, a) # base[r][a]
     /\ At(AsMap(apps[r]), a) # base[r][a]
     /\ At(latest, a) # At(AsMap(apps[r]), a)}

\* mergeUserChanges: both sides changed the account's trash.
TrashConflict(r) == r \in KeepTrash /\ trash[Account[r]] # baseTrash[r]

\* What the request changed, on top of the latest rows.
Merged(r, latest) ==
  LET mine == AsMap(apps[r])
      changed == {a \in DOMAIN base[r] : At(mine, a) # base[r][a]}
  IN  [a \in (DOMAIN latest \ changed) \cup (changed \cap DOMAIN mine) |->
         IF a \in changed THEN mine[a] ELSE latest[a]]

------------------------------------------------------------------------------
Init ==
  /\ content = [a \in Applications |-> {}]
  /\ trash = [l \in Lanes |-> {}]
  /\ revision = [l \in Lanes |-> 0]
  /\ held = {}
  /\ pc = [r \in Requests |-> "arriving"]
  /\ apps = [r \in Requests |-> <<>>]
  /\ base = [r \in Requests |-> <<>>]
  /\ baseTrash = [r \in Requests |-> {}]
  /\ baseRev = [r \in Requests |-> <<>>]
  /\ expected = [r \in Requests |-> <<>>]
  /\ tries = [r \in Requests |-> 0]
  /\ rounds = [r \in Requests |-> 0]

Goto(r, label) == pc' = [pc EXCEPT ![r] = label]
ReleaseLanes(r) == held' = {h \in held : h[1] # r}

\* The baseline of a snapshot read now: rows, account row, tenant revisions.
CaptureBaseline(r) ==
  /\ base' = [base EXCEPT ![r] = Latest(r)]
  /\ baseTrash' = [baseTrash EXCEPT ![r] = trash[Account[r]]]
  /\ baseRev' = [baseRev EXCEPT ![r] = [l \in LanesInScope(r) |-> revision[l]]]

\* hydrateUser reads the focused snapshot; the handler edits its copy, or
\* filters it out, and answers 404 when it is not there.
Hydrate(r) ==
  /\ pc[r] = "arriving"
  /\ \/ /\ Target[r] \notin DOMAIN content
        /\ Goto(r, "refused")
        /\ UNCHANGED <<apps, base, baseTrash, baseRev>>
     \/ /\ Target[r] \in DOMAIN content
        /\ CaptureBaseline(r)
        /\ apps' = [apps EXCEPT ![r] =
             IF r \in Deletes THEN <<>>
             ELSE <<[id |-> Target[r], edits |-> content[Target[r]] \cup {r}]>>]
        /\ Goto(r, "calling")
  /\ UNCHANGED <<content, trash, revision, held, expected, tries, rounds>>

\* lockedWriteStore: the lanes of the plan are granted.  Each process has its
\* own lanes.
TakeLanes(r) ==
  /\ pc[r] = "calling"
  /\ \A h \in held : Process[h[1]] = Process[r] => h[2] \cap LanesToTake(r) = {}
  /\ held' = held \cup {<<r, LanesToTake(r)>>}
  /\ tries' = [tries EXCEPT ![r] = 0]
  /\ Goto(r, "locked")
  /\ UNCHANGED <<content, trash, revision, apps, base, baseTrash, baseRev, expected, rounds>>

\* durableTenantRevisionsMatch: is the snapshot still the durable state?
CheckSnapshot(r) ==
  /\ pc[r] = "locked"
  /\ \/ /\ \A l \in DOMAIN baseRev[r] : revision[l] = baseRev[r][l]
        /\ Goto(r, "writing")
     \/ /\ \E l \in DOMAIN baseRev[r] : revision[l] # baseRev[r][l]
        /\ Goto(r, "stale")
  /\ UNCHANGED <<content, trash, revision, held, apps, base, baseTrash, baseRev,
                 expected, tries, rounds>>

\* A STORE_WRITE_CONFLICT names the first application in conflict; the PUT
\* handler tries again when it is its own.
HandlerRetries(r) ==
  /\ r \notin Deletes
  /\ rounds[r] < RouteRetries
  /\ Target[r] \in Conflicting(r, Latest(r))
  /\ \A a \in Conflicting(r, Latest(r)) : Place[Target[r]] <= Place[a]

\* Mutant: a conflict leaves its lanes taken.
ConflictKeepsLanes(r) ==
  /\ Goto(r, IF HandlerRetries(r) THEN "retrying" ELSE "refused")
  /\ UNCHANGED <<held, apps, base, baseTrash, baseRev>>

Conflict(r) ==
  /\ Goto(r, IF HandlerRetries(r) THEN "retrying" ELSE "refused")
  /\ ReleaseLanes(r)
  /\ UNCHANGED <<apps, base, baseTrash, baseRev>>

\* Mutant: the stale list is written as it is, with the latest baseline.
RebaseWithoutMerge(r) ==
  /\ pc[r] = "stale"
  /\ CaptureBaseline(r)
  /\ Goto(r, "writing")
  /\ UNCHANGED <<content, trash, revision, held, apps, expected, tries, rounds>>

\* The snapshot is stale: read the latest one and merge the request's changes
\* onto it, in lockedWriteStore and again in writeStoreWithRetry.
Rebase(r) ==
  /\ pc[r] = "stale"
  /\ \/ /\ TrashConflict(r) \/ Conflicting(r, Latest(r)) # {}
        /\ Conflict(r)
     \/ /\ ~TrashConflict(r)
        /\ Conflicting(r, Latest(r)) = {}
        /\ apps' = [apps EXCEPT ![r] = Listed(Merged(r, Latest(r)))]
        /\ CaptureBaseline(r)
        /\ Goto(r, "writing")
        /\ UNCHANGED held
  /\ UNCHANGED <<content, trash, revision, expected, tries, rounds>>

\* Mutant: the trash item is written ahead of the transaction.
PlanWriteTrashFirst(r) ==
  /\ pc[r] = "writing"
  /\ expected' = [expected EXCEPT ![r] = [l \in ExtendedLanes(r) |-> revision[l]]]
  /\ trash' = [trash EXCEPT ![Account[r]] = ProposedTrash(r)]
  /\ Goto(r, "planned")
  /\ UNCHANGED <<content, revision, held, apps, base, baseTrash, baseRev, tries, rounds>>

\* writeStoreUnlocked up to its last await: the plan.  A tenant the baseline
\* does not name, or that only a deleted row touches, is expected at the
\* revision it has now.
PlanWrite(r) ==
  /\ pc[r] = "writing"
  /\ expected' = [expected EXCEPT ![r] =
       [l \in ExtendedLanes(r) |->
          IF l \in PlanLanes(r) \cap DOMAIN baseRev[r] THEN baseRev[r][l] ELSE revision[l]]]
  /\ Goto(r, "planned")
  /\ UNCHANGED <<content, trash, revision, held, apps, base, baseTrash, baseRev, tries, rounds>>

Expected(r) == \A l \in DOMAIN expected[r] : revision[l] = expected[r][l]

\* The durable rows after the upserts and the deletions of the plan.
Written(r) ==
  LET up == AsMap(Upserts(r))
  IN  [a \in (DOMAIN content \cup DOMAIN up) \ DeletedIds(r) |->
         IF a \in DOMAIN up THEN up[a] ELSE content[a]]

\* The transaction: it compares the revisions, then writes all or nothing.
Commit(r) ==
  /\ pc[r] = "planned"
  /\ Expected(r)
  /\ content' = Written(r)
  /\ trash' = [trash EXCEPT ![Account[r]] = IF r \in KeepTrash THEN ProposedTrash(r) ELSE @]
  /\ revision' = [l \in Lanes |->
                    revision[l] + (IF l \in DOMAIN expected[r] THEN 1 ELSE 0)]
  /\ ReleaseLanes(r)
  /\ Goto(r, "saved")
  /\ UNCHANGED <<apps, base, baseTrash, baseRev, expected, tries, rounds>>

\* Mutant: one attempt too many.
CommitConflictOnceMore(r) ==
  /\ pc[r] = "planned"
  /\ ~Expected(r)
  /\ tries[r] <= StoreRetries
  /\ tries' = [tries EXCEPT ![r] = @ + 1]
  /\ Goto(r, "stale")
  /\ UNCHANGED <<content, trash, revision, held, apps, base, baseTrash, baseRev, expected, rounds>>

\* The transaction found another revision: writeStoreWithRetry merges and
\* tries again, until its attempts are used up.
CommitConflict(r) ==
  /\ pc[r] = "planned"
  /\ ~Expected(r)
  /\ \/ /\ tries[r] < StoreRetries
        /\ tries' = [tries EXCEPT ![r] = @ + 1]
        /\ Goto(r, "stale")
        /\ UNCHANGED held
     \/ /\ tries[r] >= StoreRetries
        /\ Goto(r, "refused")
        /\ ReleaseLanes(r)
        /\ UNCHANGED tries
  /\ UNCHANGED <<content, trash, revision, apps, base, baseTrash, baseRev, expected, rounds>>

\* commitApplicationWithAutoMergeRetry: the three-way merge of the edit with
\* the latest application, unless their fields collide, in a list of the whole
\* workspace, at the index the application had in the list of before, which may
\* be one past the end; a gap in the list is an error like any other.
RetryEdit(r) ==
  /\ pc[r] = "retrying"
  /\ \/ /\ Goto(r, "refused")
        /\ UNCHANGED <<apps, base, baseTrash, baseRev, rounds>>
     \/ /\ Target[r] \in DOMAIN content
        /\ rounds' = [rounds EXCEPT ![r] = @ + 1]
        /\ base' = [base EXCEPT ![r] = Rows(Workspace(r))]
        /\ baseTrash' = [baseTrash EXCEPT ![r] = trash[Account[r]]]
        /\ baseRev' = [baseRev EXCEPT ![r] = [l \in LanesInScope(r) |-> revision[l]]]
        /\ LET latestIndex == FirstIndex(apps[r], Target[r])
               latest == Listed(Rows(Workspace(r)))
               updated == [id |-> Target[r], edits |-> content[Target[r]] \cup {r}]
           IN  /\ latestIndex \in 1..(Len(latest) + 1)
               /\ apps' = [apps EXCEPT ![r] = PutAt(latest, latestIndex, updated)]
        /\ Goto(r, "calling")
  /\ UNCHANGED <<content, trash, revision, held, expected, tries>>

Step(r) ==
  \/ Hydrate(r) \/ TakeLanes(r) \/ CheckSnapshot(r) \/ Rebase(r) \/ PlanWrite(r)
  \/ Commit(r) \/ CommitConflict(r) \/ RetryEdit(r)

Answered(r) == pc[r] \in {"saved", "refused"}
AllAnswered == (\A r \in Requests : Answered(r)) /\ UNCHANGED vars

Next == AllAnswered \/ \E r \in Requests : Step(r)

Spec == Init /\ [][Next]_vars

\* Timers, file and worker calls come back, and WriteLanes serves every call
\* for a single lane, the only ones these requests make.
Fairness == \A r \in Requests : WF_vars(Step(r)) /\ SF_vars(TakeLanes(r))

FairSpec == Spec /\ Fairness

------------------------------------------------------------------------------
TypeOK ==
  /\ DOMAIN content \subseteq Applications
  /\ \A a \in DOMAIN content : content[a] \subseteq Requests
  /\ trash \in [Lanes -> SUBSET Requests]
  /\ revision \in [Lanes -> Nat]
  /\ held \subseteq Requests \X SUBSET Lanes
  /\ pc \in [Requests -> {"arriving", "calling", "locked", "stale", "writing",
                          "planned", "retrying", "saved", "refused"}]
  /\ tries \in [Requests -> 0..StoreRetries]
  /\ rounds \in [Requests -> 0..RouteRetries]

\* Each request is one atomic step on the durable applications or leaves no
\* trace: no acknowledged edit is lost or half written, whatever is merged
\* and retried (storage.js:185-187, applicationPutConcurrency.test.js:246).
Atomic == INSTANCE AtomicStore WITH
  outcome <- [r \in Requests |-> IF Answered(r) THEN pc[r] ELSE "pending"]
ImplementsAtomicStore == Atomic!Spec

\* An application leaves the database only in the version that the request
\* deleting it had read: a divergent update makes the delete a conflict
\* (storage.js:2207-2209).
DeletesOnlyWhatWasRead ==
  [][\A a \in DOMAIN content \ DOMAIN content' :
       \E r \in Deletes : /\ pc[r] = "planned" /\ pc'[r] = "saved"
                         /\ DOMAIN base[r] = {a} /\ base[r][a] = content[a]]_vars

\* A commit changes no application but the one its request is about
\* (index.js:3471-3475: handlers "provably confined to one resident entity").
ConfinedToItsApplication ==
  [][\A a \in Applications :
       At(content', a) # At(content, a)
         => \E r \in Requests : Target[r] = a /\ pc[r] = "planned" /\ pc'[r] = "saved"]_vars

\* A trash item and the deletion of its application are one commit: the trash
\* of an account holds exactly the deletes that were saved.
TrashMatchesDeletes ==
  \A r \in KeepTrash : r \in trash[Account[r]] <=> pc[r] = "saved"

\* A write is committed only into tenants whose lanes its request holds
\* (storage.js:410-413).  The delete of an account without a trash is left
\* out: its plan names no tenant, DeletesOnlyWhatWasRead shows what follows.
CommitsIntoHeldLanes ==
  [][\A l \in Lanes : revision'[l] # revision[l] =>
       \E h \in held : h \notin held' /\ (l \in h[2] \/ h[1] \in Deletes \ KeepTrash)]_vars

\* No committed change of an application goes unnoticed: whoever holds a
\* snapshot of its tenant sees another revision.
ChangesAdvanceTheTenant ==
  [][\A a \in Applications :
       At(content', a) # At(content, a) => revision'[AppLane[a]] > revision[AppLane[a]]]_vars

\* Every request is answered: retries are bounded and lanes are given back.
EveryRequestAnswered == \A r \in Requests : <>Answered(r)
==============================================================================
