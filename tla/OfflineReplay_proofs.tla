------------------------ MODULE OfflineReplay_proofs ------------------------
(***************************************************************************)
(* The device, the server and the requests between them keep their types,   *)
(* for any fields and any bounds.  What a run of the replay, or a save,     *)
(* holds exists only while it runs: the proof needs that an answer finds    *)
(* the one that waits for it.                                               *)
(***************************************************************************)
EXTENDS OfflineReplay, TLAPS

CallType == [by : {"save", "sync", "nobody"}, stage : {"sent", "checked", "saved", "refused"},
             base : Copies, target : Values, seen : Copies, lost : 0..MaxLosses]
SyncType == [stage : {"idle"}] \cup [stage : {"listing", "sent"}, op : Entries]
SaveType == [stage : {"idle"}] \cup
              [stage : {"sent", "rebasing"}, target : Values, base : Copies,
               tries : 0..RebaseAttempts, over : SUBSET Edits]
QueueType == {<<>>} \cup [{1} -> Entries]
UsedType == [typed : 0..MaxTyped, elsewhere : 0..MaxElsewhere, losses : 0..MaxLosses]

Typed ==
  /\ server \in Copies /\ history \in [Fields -> SUBSET Edits] /\ clock \in Nat
  /\ draft \in Values /\ baseline \in Copies /\ queue \in QueueType
  /\ reachable \in BOOLEAN /\ due \in BOOLEAN
  /\ calls \in SUBSET CallType /\ sync \in SyncType /\ save \in SaveType
  /\ used \in UsedType

\* A request belongs to the save or to the run of the replay that waits for its
\* answer; each waits for one at a time.
Linked ==
  /\ \A c \in calls : c.by = "sync" => sync.stage = "sent"
  /\ \A c \in calls : c.by = "save" => save.stage = "sent"
  /\ \A c, d \in calls : c.by = d.by /\ c.by # "nobody" => c = d

IInv == Typed /\ Linked

LEMMA TypedIsTypeOK == Typed <=> TypeOK
BY DEF Typed, TypeOK, QueueType, CallType, SyncType, SaveType, UsedType

------------------------------------------------------------------------------
(* Time only adds to the types. *)

LEMMA TypesGrow ==
  ASSUME clock \in Nat, clock' \in Nat, clock <= clock'
  PROVE  /\ Edits \subseteq Edits' /\ Values \subseteq Values' /\ Copies \subseteq Copies'
         /\ Entries \subseteq Entries' /\ QueueType \subseteq QueueType'
         /\ CallType \subseteq CallType' /\ SyncType \subseteq SyncType'
         /\ SaveType \subseteq SaveType'
         /\ [Fields -> SUBSET Edits] \subseteq [Fields -> SUBSET Edits']
<1>1. Edits \subseteq Edits' BY DEF Edits
<1> HIDE DEF Edits
<1>2. Values \subseteq Values' BY <1>1 DEF Values
<1>3. Copies \subseteq Copies' BY <1>1, <1>2 DEF Copies
<1>4. Entries \subseteq Entries' BY <1>1, <1>2, <1>3 DEF Entries
<1>5. QueueType \subseteq QueueType' BY <1>4 DEF QueueType
<1>6. CallType \subseteq CallType' BY <1>2, <1>3 DEF CallType
<1>7. SyncType \subseteq SyncType' BY <1>4 DEF SyncType
<1>8. SaveType \subseteq SaveType' BY <1>1, <1>2, <1>3 DEF SaveType
<1>9. [Fields -> SUBSET Edits] \subseteq [Fields -> SUBSET Edits'] BY <1>1
<1> QED BY <1>1, <1>2, <1>3, <1>4, <1>5, <1>6, <1>7, <1>8, <1>9

\* What a step leaves alone keeps its type.
LEMMA Carried ==
  ASSUME Typed, clock' \in Nat, clock <= clock'
  PROVE  /\ server \in Copies' /\ history \in [Fields -> SUBSET Edits']
         /\ draft \in Values' /\ baseline \in Copies' /\ queue \in QueueType'
         /\ calls \in SUBSET CallType' /\ sync \in SyncType' /\ save \in SaveType'
         /\ reachable \in BOOLEAN /\ due \in BOOLEAN
         /\ UsedType' = UsedType /\ used \in UsedType
<1>1. UsedType' = UsedType BY DEF UsedType
<1>2. calls \in SUBSET CallType' BY TypesGrow DEF Typed
<1> QED BY <1>1, <1>2, TypesGrow DEF Typed

LEMMA MergeType ==
  ASSUME NEW app \in Values, NEW base, NEW at, NEW theirs \in Copies
  PROVE  Merge(app, base, at, theirs) \in Values
BY DEF Merge, Values, Copies

LEMMA PatchedType ==
  ASSUME server \in Copies, NEW c \in CallType PROVE Patched(c) \in Values
BY DEF Patched, Values, Copies, CallType

LEMMA CallTyped ==
  ASSUME NEW by \in {"save", "sync"}, NEW base \in Copies, NEW target \in Values
  PROVE  Call(by, base, target) \in CallType
BY OfflineAssumption DEF Call, CallType

LEMMA UsesType ==
  ASSUME used \in UsedType, NEW b \in {"typed", "elsewhere", "losses"},
         NEW limit, limit = [typed |-> MaxTyped, elsewhere |-> MaxElsewhere, losses |-> MaxLosses][b],
         Uses(b, limit)
  PROVE  used' \in UsedType
BY OfflineAssumption DEF Uses, UsedType

LEMMA WithoutType ==
  ASSUME queue \in QueueType, NEW ids PROVE Without(ids) \in QueueType
BY DEF Without, QueueType

LEMMA AcknowledgedType ==
  ASSUME queue \in QueueType, NEW op \in Entries, NEW saved \in Copies
  PROVE  Acknowledged(op, saved) \in QueueType
<1>1. CASE queue = <<>> \/ queue[1].at = op.at \/ queue[1].base # op.base
  BY <1>1, WithoutType DEF Acknowledged
<1>2. CASE ~(queue = <<>> \/ queue[1].at = op.at \/ queue[1].base # op.base)
  <2>1. queue[1] \in Entries BY <1>2 DEF QueueType
  <2> DEFINE merged == Merge(queue[1].app, [val |-> op.app, ver |-> saved.ver], queue[1].at, saved)
  <2>2. merged \in Values BY <2>1, MergeType DEF Entries
  <2>3. Acknowledged(op, saved) = <<[queue[1] EXCEPT !.app = merged, !.base = saved]>>
    BY <1>2 DEF Acknowledged
  <2> HIDE DEF merged
  <2>4. [queue[1] EXCEPT !.app = merged, !.base = saved] \in Entries
    BY <2>1, <2>2 DEF Entries
  <2> QED BY <2>3, <2>4 DEF QueueType
<1> QED BY <1>1, <1>2

LEMMA InitHolds == Init => IInv
<1> SUFFICES ASSUME Init PROVE IInv OBVIOUS
<1>1. clock = 0 /\ 0 \in Edits BY DEF Init, Edits
<1>2. server \in Copies BY <1>1 DEF Init, Copies, Values
<1>3. draft \in Values /\ baseline \in Copies BY <1>2 DEF Init, Copies
<1>4. history \in [Fields -> SUBSET Edits] BY <1>1 DEF Init
<1>5. queue \in QueueType /\ sync \in SyncType /\ save \in SaveType
  BY DEF Init, QueueType, SyncType, SaveType
<1>6. used \in UsedType BY OfflineAssumption DEF Init, UsedType
<1>7. clock \in Nat /\ calls \in SUBSET CallType BY DEF Init
<1>8. reachable \in BOOLEAN /\ due \in BOOLEAN BY Zenon DEF Init
<1>9. Typed BY <1>2, <1>3, <1>4, <1>5, <1>6, <1>7, <1>8 DEF Typed
<1> QED BY <1>9 DEF Init, IInv, Linked

------------------------------------------------------------------------------
(* The server, the other device, and typing. *)

LEMMA PutType ==
  ASSUME Typed, NEW val \in Values', Put(val)
  PROVE  /\ server' \in Copies' /\ history' \in [Fields -> SUBSET Edits']
         /\ clock' = clock + 1 /\ clock' \in Nat
<1>1. clock' = clock + 1 /\ clock \in Nat /\ clock' \in Nat BY DEF Put, Typed
<1>2. server' \in Copies' BY <1>1 DEF Put, Copies, Edits
<1>3. history \in [Fields -> SUBSET Edits'] BY <1>1, TypesGrow DEF Typed
<1>4. history' \in [Fields -> SUBSET Edits'] BY <1>3 DEF Put, Values
<1> QED BY <1>1, <1>2, <1>4

\* A request moves on: what the others are to each other does not change.
LEMMA BecomesLinked ==
  ASSUME IInv, NEW c \in calls, NEW d, d.by = c.by, Becomes(c, d), UNCHANGED <<sync, save>>
  PROVE  Linked'
<1>1. calls' \subseteq (calls \ {c}) \cup {d} BY DEF Becomes
<1>2. \A x \in calls' : x = d \/ (x \in calls /\ x # c) BY <1>1
<1> QED BY <1>2 DEF IInv, Linked

LEMMA ServerStepHolds ==
  ASSUME IInv, NEW c \in calls, ServerStep(c) PROVE IInv'
<1>1. c \in CallType BY DEF IInv, Typed
<1>2. ASSUME ServerChecks(c) PROVE IInv'
  <2>1. PICK d : /\ Becomes(c, d)
                 /\ \E s \in {"checked", "refused"} : d = [c EXCEPT !.seen = server, !.stage = s]
    BY <1>2 DEF ServerChecks
  <2>2. d \in CallType /\ d.by = c.by BY <1>1, <2>1 DEF IInv, Typed, CallType
  <2>3. UNCHANGED <<server, history, clock, draft, baseline, queue, reachable, due, sync, save, used>>
    BY <1>2 DEF ServerChecks, client
  <2>4. calls' \in SUBSET CallType BY <2>1, <2>2 DEF Becomes, IInv, Typed
  <2>5. clock' \in Nat /\ clock <= clock' BY <2>3 DEF IInv, Typed
  <2>6. CallType \subseteq CallType' BY <2>5, TypesGrow DEF IInv, Typed
  <2>7. Typed' BY <2>3, <2>4, <2>5, <2>6, Carried DEF IInv, Typed
  <2>8. Linked' BY <2>1, <2>2, <2>3, BecomesLinked
  <2> QED BY <2>7, <2>8 DEF IInv
<1>3. ASSUME ServerCommits(c) PROVE IInv'
  <2>1. UNCHANGED <<draft, baseline, queue, reachable, due, sync, save, used>>
    BY <1>3 DEF ServerCommits, client
  <2>2. CASE /\ Becomes(c, [c EXCEPT !.stage = "refused"])
             /\ UNCHANGED <<server, history, clock>>
    <3> DEFINE d == [c EXCEPT !.stage = "refused"]
    <3>1. d \in CallType /\ d.by = c.by BY <1>1 DEF CallType
    <3>2. calls' \in SUBSET CallType BY <2>2, <3>1 DEF Becomes, IInv, Typed
    <3>3. clock' \in Nat /\ clock <= clock' BY <2>2 DEF IInv, Typed
    <3>4. CallType \subseteq CallType' BY <3>3, TypesGrow DEF IInv, Typed
    <3>5. Typed' BY <2>1, <2>2, <3>2, <3>3, <3>4, Carried DEF IInv, Typed
    <3>6. Linked' BY <2>1, <2>2, <3>1, BecomesLinked
    <3> QED BY <3>5, <3>6 DEF IInv
  <2>3. CASE /\ Put(Patched(c))
             /\ Becomes(c, [c EXCEPT !.stage = "saved", !.seen = server'])
    <3> DEFINE d == [c EXCEPT !.stage = "saved", !.seen = server']
    <3>1. clock' = clock + 1 /\ clock \in Nat BY <2>3 DEF Put, IInv, Typed
    <3>2. clock' \in Nat /\ clock <= clock' BY <3>1
    <3>3. Values \subseteq Values' /\ CallType \subseteq CallType' BY <3>1, <3>2, TypesGrow
    <3>4. Patched(c) \in Values' BY <1>1, <3>3, PatchedType DEF IInv, Typed
    <3>5. server' \in Copies' /\ history' \in [Fields -> SUBSET Edits']
      BY <2>3, <3>4, PutType DEF IInv
    <3>6. d \in CallType' /\ d.by = c.by
      <4>1. c \in CallType' BY <1>1, <3>3
      <4> QED BY <3>5, <4>1 DEF CallType
    <3>7. calls \in SUBSET CallType' BY <3>2, Carried DEF IInv
    <3>8. calls' \in SUBSET CallType' BY <2>3, <3>6, <3>7 DEF Becomes
    <3>9. Typed' BY <2>1, <3>2, <3>5, <3>8, Carried DEF IInv, Typed
    <3>10. Linked' BY <2>1, <2>3, <3>6, BecomesLinked
    <3> QED BY <3>9, <3>10 DEF IInv
  <2> QED BY <1>3, <2>2, <2>3 DEF ServerCommits
<1> QED BY <1>2, <1>3 DEF ServerStep

LEMMA EditHolds ==
  ASSUME IInv, NEW f \in Fields, EditElsewhere(f) \/ Type(f) PROVE IInv'
<1>1. clock' = clock + 1 /\ clock \in Nat BY DEF EditElsewhere, Type, Put, IInv, Typed
<1>2. clock' \in Nat /\ clock <= clock' BY <1>1
<1>3. Values \subseteq Values' /\ clock + 1 \in Edits' BY <1>1, <1>2, TypesGrow DEF Edits
<1>4. used' \in UsedType BY UsesType DEF EditElsewhere, Type, IInv, Typed
<1>5. UNCHANGED <<calls, baseline, queue, reachable, due, sync, save>>
  BY DEF EditElsewhere, Type, client
<1>6. CASE EditElsewhere(f)
  <2> DEFINE val == [server.val EXCEPT ![f] = clock + 1]
  <2>1. server.val \in Values' BY <1>3 DEF IInv, Typed, Copies
  <2>2. val \in Values' BY <1>3, <2>1 DEF Values
  <2>3. Put(val) BY <1>6 DEF EditElsewhere
  <2>4. server' \in Copies' /\ history' \in [Fields -> SUBSET Edits']
    BY <2>2, <2>3, PutType DEF IInv
  <2>5. UNCHANGED draft BY <1>6 DEF EditElsewhere, client
  <2>6. Typed' BY <1>2, <1>4, <1>5, <2>4, <2>5, Carried DEF IInv, Typed
  <2> QED BY <1>5, <2>6 DEF IInv, Linked
<1>7. CASE Type(f)
  <2>1. draft \in Values' BY <1>3 DEF IInv, Typed
  <2>2. draft' \in Values' BY <1>1, <1>3, <1>7, <2>1 DEF Type, Values
  <2>3. UNCHANGED <<server, history>> BY <1>7 DEF Type
  <2>4. Typed' BY <1>2, <1>4, <1>5, <2>2, <2>3, Carried DEF IInv, Typed
  <2> QED BY <1>5, <2>4 DEF IInv, Linked
<1> QED BY <1>6, <1>7

------------------------------------------------------------------------------
(* Saving. *)

LEMMA EnqueueType ==
  ASSUME Typed, NEW app \in Values, NEW base \in Copies, Enqueue(app, base)
  PROVE  /\ clock' \in Nat /\ clock <= clock'
         /\ queue' \in QueueType' /\ due' \in BOOLEAN
<1>1. clock' = clock + 1 /\ clock \in Nat BY DEF Enqueue, Typed
<1>2. clock' \in Nat /\ clock <= clock' BY <1>1
<1>3. clock' \in Edits' BY <1>2 DEF Edits
<1> DEFINE b == IF queue = <<>> THEN base ELSE queue[1].base
<1>4. b \in Copies BY DEF Typed, QueueType, Entries
<1>5. app \in Values' /\ b \in Copies' BY <1>1, <1>2, <1>4, TypesGrow
<1>6. queue' = <<[at |-> clock', app |-> app, base |-> b]>> BY DEF Enqueue
<1> HIDE DEF b
<1>7. [at |-> clock', app |-> app, base |-> b] \in Entries' BY <1>3, <1>5 DEF Entries
<1>8. queue' \in QueueType' BY <1>6, <1>7 DEF QueueType
<1>9. due' \in BOOLEAN BY Zenon DEF Enqueue
<1> QED BY <1>2, <1>8, <1>9

LEMMA SaveOfflineHolds == IInv /\ SaveOffline => IInv'
<1> SUFFICES ASSUME IInv, SaveOffline PROVE IInv' OBVIOUS
<1>1. Enqueue(draft, baseline) /\ baseline' = [val |-> draft, ver |-> baseline.ver]
  BY DEF SaveOffline, QueueForSync
<1>2. UNCHANGED <<server, history, calls, draft, reachable, sync, save, used>> BY DEF SaveOffline
<1>3. clock' \in Nat /\ clock <= clock' /\ queue' \in QueueType' /\ due' \in BOOLEAN
  BY <1>1, EnqueueType DEF IInv, Typed
<1>4. baseline' \in Copies' BY <1>1, <1>3, Carried DEF IInv, Copies
<1>5. Typed' BY <1>2, <1>3, <1>4, Carried DEF IInv, Typed
<1> QED BY <1>2, <1>5 DEF IInv, Linked

\* A new request of one who waits for none.
LEMMA NewCallLinked ==
  ASSUME Linked, NEW d, d.by \in {"save", "sync"}, calls' = calls \cup {d},
         \A c \in calls : c.by # d.by,
         (d.by = "save") => (save'.stage = "sent" /\ sync' = sync),
         (d.by = "sync") => (sync'.stage = "sent" /\ save' = save)
  PROVE  Linked'
BY DEF Linked

LEMMA SaveOnlineHolds == IInv /\ SaveOnline => IInv'
<1> SUFFICES ASSUME IInv, SaveOnline PROVE IInv' OBVIOUS
<1> DEFINE d == Call("save", baseline, draft)
<1>1. /\ save' = [stage |-> "sent", target |-> draft, base |-> baseline, tries |-> 0,
                  over |-> {queue[i].at : i \in DOMAIN queue}]
      /\ calls' = calls \cup {d} /\ save.stage = "idle"
      /\ UNCHANGED <<server, history, clock, draft, baseline, queue, reachable, due, sync, used>>
  BY DEF SaveOnline, MustSave
<1>2. clock' \in Nat /\ clock <= clock' BY <1>1 DEF IInv, Typed
<1>3. d \in CallType /\ d.by = "save" BY CallTyped DEF IInv, Typed, Call
<1>4. {queue[i].at : i \in DOMAIN queue} \in SUBSET Edits
  BY DEF IInv, Typed, QueueType, Entries
<1>5. 0 \in 0..RebaseAttempts BY OfflineAssumption
<1>6. save' \in SaveType BY <1>1, <1>4, <1>5 DEF SaveType, IInv, Typed
<1>7. calls' \in SUBSET CallType BY <1>1, <1>3 DEF IInv, Typed
<1>8. calls' \in SUBSET CallType' /\ save' \in SaveType'
  BY <1>2, <1>6, <1>7, TypesGrow DEF IInv, Typed
<1>9. Typed' BY <1>1, <1>2, <1>8, Carried DEF IInv, Typed
<1>10. \A c \in calls : c.by # "save" BY <1>1 DEF IInv, Linked
<1>11. save'.stage = "sent" BY <1>1
<1> HIDE DEF d
<1>12. Linked' BY <1>1, <1>3, <1>10, <1>11, NewCallLinked DEF IInv
<1> QED BY <1>9, <1>12 DEF IInv

\* A save that ends well.
LEMMA SavedType ==
  ASSUME IInv, save.stage # "idle", NEW copy \in Copies, Saved(copy)
  PROVE  /\ queue' \in QueueType /\ baseline' \in Copies /\ draft' \in Values
         /\ save' \in SaveType
<1>1. queue' \in QueueType BY WithoutType DEF Saved, IInv, Typed
<1>2. draft' \in Values BY DEF Saved, IInv, Typed, Copies
<1>3. save' \in SaveType BY DEF Saved, SaveType
<1> QED BY <1>1, <1>2, <1>3 DEF Saved

\* The one request of a save, or of a run, is gone: it may turn to anything.
LEMMA CallGone ==
  ASSUME Linked, NEW c \in calls, c.by \in {"save", "sync"}, calls' = calls \ {c},
         c.by = "save" => sync' = sync, c.by = "sync" => save' = save
  PROVE  Linked'
<1>1. \A x \in calls' : x \in calls /\ x.by # c.by BY DEF Linked
<1> QED BY <1>1 DEF Linked

LEMMA SaveAnsweredHolds ==
  ASSUME IInv, NEW c \in calls, SaveAnswered(c) PROVE IInv'
<1>1. /\ c.by = "save" /\ calls' = calls \ {c} /\ Saved(c.seen)
      /\ UNCHANGED <<server, history, clock, reachable, due, sync, used>>
  BY DEF SaveAnswered
<1>2. c \in CallType /\ c.seen \in Copies BY DEF IInv, Typed, CallType
<1>3. save.stage = "sent" BY <1>1 DEF IInv, Linked
<1>4. /\ queue' \in QueueType /\ baseline' \in Copies /\ draft' \in Values
      /\ save' \in SaveType
  BY <1>1, <1>2, <1>3, SavedType
<1>5. clock' \in Nat /\ clock <= clock' BY <1>1 DEF IInv, Typed
<1>6. /\ queue' \in QueueType' /\ baseline' \in Copies' /\ draft' \in Values'
      /\ save' \in SaveType'
  BY <1>4, <1>5, TypesGrow DEF IInv, Typed
<1>7. Typed' BY <1>1, <1>5, <1>6, Carried DEF IInv, Typed
<1>8. Linked' BY <1>1, CallGone DEF IInv
<1> QED BY <1>7, <1>8 DEF IInv

LEMMA SaveRefusedHolds ==
  ASSUME IInv, NEW c \in calls, SaveRefused(c) PROVE IInv'
<1>1. /\ c.by = "save" /\ calls' = calls \ {c}
      /\ save' = IF save.tries < RebaseAttempts
                 THEN [save EXCEPT !.stage = "rebasing", !.tries = @ + 1]
                 ELSE [stage |-> "idle"]
      /\ UNCHANGED <<server, history, clock, draft, baseline, queue, reachable, due, sync, used>>
  BY DEF SaveRefused
<1>2. save.stage = "sent" /\ save \in SaveType BY <1>1 DEF IInv, Linked, Typed
<1>3. save \in [stage : {"sent", "rebasing"}, target : Values, base : Copies,
                tries : 0..RebaseAttempts, over : SUBSET Edits]
  BY <1>2 DEF SaveType
<1>4. save.tries < RebaseAttempts => save.tries + 1 \in 0..RebaseAttempts
  BY <1>3, OfflineAssumption
<1>5. save' \in SaveType BY <1>1, <1>3, <1>4 DEF SaveType
<1>6. clock' \in Nat /\ clock <= clock' BY <1>1 DEF IInv, Typed
<1>7. save' \in SaveType' BY <1>5, <1>6, TypesGrow DEF IInv, Typed
<1>8. Typed' BY <1>1, <1>6, <1>7, Carried DEF IInv, Typed
<1>9. Linked' BY <1>1, CallGone DEF IInv
<1> QED BY <1>8, <1>9 DEF IInv

LEMMA RebaseHolds == IInv /\ Rebase => IInv'
<1> SUFFICES ASSUME IInv, Rebase PROVE IInv' OBVIOUS
<1> DEFINE merged == Merge(save.target, save.base, clock, server)
<1>1. /\ save.stage = "rebasing"
      /\ UNCHANGED <<server, history, clock, reachable, due, sync, used>>
  BY DEF Rebase
<1>2. save \in [stage : {"sent", "rebasing"}, target : Values, base : Copies,
                tries : 0..RebaseAttempts, over : SUBSET Edits]
  BY <1>1 DEF IInv, Typed, SaveType
<1>3. merged \in Values BY <1>2, MergeType DEF IInv, Typed
<1>4. clock' \in Nat /\ clock <= clock' BY <1>1 DEF IInv, Typed
<1>5. \A c \in calls : c.by # "save" BY <1>1 DEF IInv, Linked
<1>6. CASE Saved(server) /\ UNCHANGED calls
  <2>1. /\ queue' \in QueueType /\ baseline' \in Copies /\ draft' \in Values
        /\ save' \in SaveType
    BY <1>1, <1>6, SavedType DEF IInv, Typed
  <2>2. /\ queue' \in QueueType' /\ baseline' \in Copies' /\ draft' \in Values'
        /\ save' \in SaveType'
    BY <1>4, <2>1, TypesGrow DEF IInv, Typed
  <2>3. Typed' BY <1>1, <1>4, <1>6, <2>2, Carried DEF IInv, Typed
  <2>4. Linked' BY <1>1, <1>5, <1>6 DEF IInv, Linked
  <2> QED BY <2>3, <2>4 DEF IInv
<1>7. CASE /\ calls' = calls \cup {Call("save", server, merged)}
           /\ save' = [save EXCEPT !.stage = "sent"]
           /\ UNCHANGED <<draft, baseline, queue>>
  <2> DEFINE d == Call("save", server, merged)
  <2>1. d \in CallType /\ d.by = "save" BY <1>3, CallTyped DEF IInv, Typed, Call
  <2>2. save' \in SaveType /\ save'.stage = "sent" BY <1>2, <1>7 DEF SaveType
  <2>3. calls' \in SUBSET CallType BY <1>7, <2>1 DEF IInv, Typed
  <2>4. calls' \in SUBSET CallType' /\ save' \in SaveType'
    BY <1>4, <2>2, <2>3, TypesGrow DEF IInv, Typed
  <2>5. Typed' BY <1>1, <1>4, <1>7, <2>4, Carried DEF IInv, Typed
  <2>6. calls' = calls \cup {d} BY <1>7
  <2> HIDE DEF d
  <2>7. Linked' BY <1>1, <1>5, <2>1, <2>2, <2>6, NewCallLinked DEF IInv
  <2> QED BY <2>5, <2>7 DEF IInv
<1> QED BY <1>6, <1>7 DEF Rebase

\* The save, or the run, stops short of a request.
LEMMA StopsHolds ==
  ASSUME IInv, RebaseFails \/ SyncListFails PROVE IInv'
<1>1. UNCHANGED <<server, history, clock, calls, draft, baseline, queue, reachable, due>>
  BY DEF RebaseFails, SyncListFails
<1>2. used' \in UsedType BY UsesType DEF RebaseFails, SyncListFails, IInv, Typed
<1>3. clock' \in Nat /\ clock <= clock' BY <1>1 DEF IInv, Typed
<1>4. CASE RebaseFails
  <2>1. /\ save.stage = "rebasing" /\ save' = [stage |-> "idle"] /\ UNCHANGED sync
        /\ save' \in SaveType'
    BY <1>4 DEF RebaseFails, SaveType
  <2>2. Typed' BY <1>1, <1>2, <1>3, <2>1, Carried DEF IInv, Typed
  <2> QED BY <1>1, <2>1, <2>2 DEF IInv, Linked
<1>5. CASE SyncListFails
  <2>1. /\ sync.stage = "listing" /\ sync' = [stage |-> "idle"] /\ UNCHANGED save
        /\ sync' \in SyncType'
    BY <1>5 DEF SyncListFails, SyncType
  <2>2. Typed' BY <1>1, <1>2, <1>3, <2>1, Carried DEF IInv, Typed
  <2> QED BY <1>1, <2>1, <2>2 DEF IInv, Linked
<1> QED BY <1>4, <1>5

\* A request given up stays under way, but nobody waits for it.
LEMMA GivenUp ==
  ASSUME IInv, NEW c \in calls, c.by \in {"save", "sync"}, Uses("losses", MaxLosses)
  PROVE  LET d == [c EXCEPT !.by = "nobody", !.lost = used'.losses]
             others == (calls \ {c}) \cup {d}
         IN /\ others \in SUBSET CallType /\ used' \in UsedType
            /\ d.by = "nobody"
            /\ \A x \in others : x.by # "nobody" => x \in calls /\ x.by # c.by
<1>1. used' \in UsedType BY UsesType DEF IInv, Typed
<1>2. used'.losses \in 0..MaxLosses BY <1>1 DEF UsedType
<1> DEFINE d == [c EXCEPT !.by = "nobody", !.lost = used'.losses]
<1>3. c \in CallType BY DEF IInv, Typed
<1>4. d \in CallType /\ d.by = "nobody" BY <1>2, <1>3 DEF CallType
<1> HIDE DEF d
<1>5. \A x \in (calls \ {c}) \cup {d} : x.by # "nobody" => x \in calls /\ x.by # c.by
  BY <1>4 DEF IInv, Linked
<1>6. (calls \ {c}) \cup {d} \in SUBSET CallType BY <1>4 DEF IInv, Typed
<1> QED BY <1>1, <1>4, <1>5, <1>6 DEF d

LEMMA SaveGivesUpHolds ==
  ASSUME IInv, NEW c \in calls, SaveGivesUp(c) PROVE IInv'
<1> DEFINE others == (calls \ {c}) \cup {[c EXCEPT !.by = "nobody", !.lost = used'.losses]}
<1>1. /\ c.by = "save" /\ Uses("losses", MaxLosses)
      /\ UNCHANGED <<server, history, draft, reachable, sync>>
  BY DEF SaveGivesUp
<1>2. \/ /\ calls' = others \cup {Call("save", c.base, c.target)}
         /\ UNCHANGED <<clock, baseline, queue, due, save>>
      \/ /\ calls' = others
         /\ QueueForSync(save.target, save.base)
         /\ save' = [stage |-> "idle"]
      \/ /\ calls' = others
         /\ save' = [stage |-> "idle"]
         /\ UNCHANGED <<clock, baseline, queue, due>>
  BY DEF SaveGivesUp
<1>3. /\ others \in SUBSET CallType /\ used' \in UsedType
      /\ \A x \in others : x.by # "nobody" => x \in calls /\ x.by # c.by
  BY <1>1, GivenUp
<1>4. save.stage = "sent" /\ c \in CallType BY <1>1 DEF IInv, Linked, Typed
<1>5. save.target \in Values /\ save.base \in Copies
  BY <1>4 DEF IInv, Typed, SaveType
<1> HIDE DEF others
<1>6. CASE /\ calls' = others \cup {Call("save", c.base, c.target)}
           /\ UNCHANGED <<clock, baseline, queue, due, save>>
  <2> DEFINE d == Call("save", c.base, c.target)
  <2>1. d \in CallType /\ d.by = "save" BY <1>4, CallTyped DEF CallType, Call
  <2>2. clock' \in Nat /\ clock <= clock' BY <1>6 DEF IInv, Typed
  <2>3. calls' \in SUBSET CallType BY <1>3, <1>6, <2>1
  <2>4. calls' \in SUBSET CallType' BY <2>2, <2>3, TypesGrow DEF IInv, Typed
  <2>5. Typed' BY <1>1, <1>3, <1>6, <2>2, <2>4, Carried DEF IInv, Typed
  <2> HIDE DEF d
  <2>6. \A x \in calls' : x.by # "nobody" => x = d \/ (x \in calls /\ x.by # "save")
    BY <1>1, <1>3, <1>6 DEF d
  <2>7. Linked' BY <1>1, <1>4, <1>6, <2>1, <2>6 DEF IInv, Linked
  <2> QED BY <2>5, <2>7 DEF IInv
<1>7. CASE calls' = others /\ save' = [stage |-> "idle"]
  <2>1. \A x \in calls' : x.by # "nobody" => x \in calls /\ x.by # "save" BY <1>1, <1>3, <1>7
  <2>2. Linked' BY <1>1, <2>1 DEF IInv, Linked
  <2>3. /\ clock' \in Nat /\ clock <= clock' /\ queue' \in QueueType' /\ due' \in BOOLEAN
        /\ baseline' \in Copies'
    <3>1. CASE QueueForSync(save.target, save.base)
      <4>1. Enqueue(save.target, save.base) /\ baseline' = [val |-> save.target, ver |-> save.base.ver]
        BY <3>1 DEF QueueForSync
      <4>2. clock' \in Nat /\ clock <= clock' /\ queue' \in QueueType' /\ due' \in BOOLEAN
        BY <1>5, <4>1, EnqueueType DEF IInv
      <4>3. save.target \in Values' /\ save.base \in Copies'
        BY <1>5, <4>2, TypesGrow DEF IInv, Typed
      <4>4. baseline' \in Copies' BY <4>1, <4>3 DEF Copies
      <4> QED BY <4>2, <4>4
    <3>2. CASE UNCHANGED <<clock, baseline, queue, due>>
      <4>1. clock' \in Nat /\ clock <= clock' BY <3>2 DEF IInv, Typed
      <4> QED BY <3>2, <4>1, Carried DEF IInv
    <3>3. CASE calls' = others \cup {Call("save", c.base, c.target)} /\ UNCHANGED save
      BY <1>4, <1>7, <3>3
    <3> QED BY <1>2, <3>1, <3>2, <3>3
  <2>4. calls' \in SUBSET CallType' BY <1>3, <1>7, <2>3, TypesGrow DEF IInv, Typed
  <2>5. save' \in SaveType' BY <1>7 DEF SaveType
  <2>6. Typed' BY <1>1, <1>3, <2>3, <2>4, <2>5, Carried DEF IInv, Typed
  <2> QED BY <2>2, <2>6 DEF IInv
<1> QED BY <1>2, <1>6, <1>7

------------------------------------------------------------------------------
(* The replay, and the connection. *)

LEMMA SyncStartHolds == IInv /\ SyncStart => IInv'
<1> SUFFICES ASSUME IInv, SyncStart PROVE IInv' OBVIOUS
<1>1. /\ sync.stage = "idle" /\ queue # <<>> /\ due' = FALSE
      /\ sync' = [stage |-> "listing", op |-> queue[1]]
      /\ UNCHANGED <<server, history, clock, calls, draft, baseline, queue, reachable, save, used>>
  BY DEF SyncStart
<1>2. queue[1] \in Entries BY <1>1 DEF IInv, Typed, QueueType
<1>3. sync' \in SyncType BY <1>1, <1>2 DEF SyncType
<1>4. clock' \in Nat /\ clock <= clock' BY <1>1 DEF IInv, Typed
<1>5. sync' \in SyncType' BY <1>3, <1>4, TypesGrow DEF IInv, Typed
<1>6. due' \in BOOLEAN BY <1>1
<1>7. Typed' BY <1>1, <1>4, <1>5, <1>6, Carried DEF IInv, Typed
<1>8. Linked' BY <1>1 DEF IInv, Linked
<1> QED BY <1>7, <1>8 DEF IInv

\* A run of the replay ends and leaves some queue.
LEMMA SyncEndsType ==
  ASSUME IInv, NEW remaining \in QueueType, SyncEnds(remaining), clock' = clock
  PROVE  /\ clock' \in Nat /\ clock <= clock'
         /\ queue' \in QueueType' /\ due' \in BOOLEAN /\ sync' \in SyncType'
<1>1. clock' \in Nat /\ clock <= clock' BY DEF IInv, Typed
<1>2. queue' \in QueueType' BY <1>1, TypesGrow DEF SyncEnds, IInv, Typed
<1>3. due' \in BOOLEAN BY Zenon DEF SyncEnds
<1>4. sync' \in SyncType' BY DEF SyncEnds, SyncType
<1> QED BY <1>1, <1>2, <1>3, <1>4

LEMMA SyncMergeHolds == IInv /\ SyncMerge => IInv'
<1> SUFFICES ASSUME IInv, SyncMerge PROVE IInv' OBVIOUS
<1> DEFINE merged == Merge(sync.op.app, sync.op.base, sync.op.at, server)
<1>1. /\ sync.stage = "listing"
      /\ UNCHANGED <<server, history, clock, draft, baseline, reachable, save, used>>
  BY DEF SyncMerge
<1>2. sync \in [stage : {"listing", "sent"}, op : Entries]
  BY <1>1 DEF IInv, Typed, SyncType
<1>3. merged \in Values BY <1>2, MergeType DEF IInv, Typed, Entries
<1>4. clock' \in Nat /\ clock <= clock' BY <1>1 DEF IInv, Typed
<1>5. \A c \in calls : c.by # "sync" BY <1>1 DEF IInv, Linked
<1>6. CASE SyncEnds(Without({sync.op.at})) /\ UNCHANGED calls
  <2>1. queue' \in QueueType' /\ due' \in BOOLEAN /\ sync' \in SyncType'
    BY <1>1, <1>6, SyncEndsType, WithoutType DEF IInv, Typed
  <2>2. Typed' BY <1>1, <1>4, <1>6, <2>1, Carried DEF IInv, Typed
  <2>3. Linked' BY <1>1, <1>5, <1>6 DEF IInv, Linked
  <2> QED BY <2>2, <2>3 DEF IInv
<1>7. CASE /\ calls' = calls \cup {Call("sync", server, merged)}
           /\ sync' = [sync EXCEPT !.stage = "sent"]
           /\ UNCHANGED <<queue, due>>
  <2> DEFINE d == Call("sync", server, merged)
  <2>1. d \in CallType /\ d.by = "sync" BY <1>3, CallTyped DEF IInv, Typed, Call
  <2>2. sync' \in SyncType /\ sync'.stage = "sent" BY <1>2, <1>7 DEF SyncType
  <2>3. calls' \in SUBSET CallType BY <1>7, <2>1 DEF IInv, Typed
  <2>4. calls' \in SUBSET CallType' /\ sync' \in SyncType'
    BY <1>4, <2>2, <2>3, TypesGrow DEF IInv, Typed
  <2>5. Typed' BY <1>1, <1>4, <1>7, <2>4, Carried DEF IInv, Typed
  <2>6. calls' = calls \cup {d} BY <1>7
  <2> HIDE DEF d
  <2>7. Linked' BY <1>1, <1>5, <2>1, <2>2, <2>6, NewCallLinked DEF IInv
  <2> QED BY <2>5, <2>7 DEF IInv
<1> QED BY <1>6, <1>7 DEF SyncMerge

LEMMA SyncAnsweredHolds ==
  ASSUME IInv, NEW c \in calls, SyncAnswered(c) PROVE IInv'
<1>1. /\ c.by = "sync" /\ calls' = calls \ {c}
      /\ UNCHANGED <<server, history, clock, draft, baseline, reachable, save, used>>
  BY DEF SyncAnswered
<1>2. c \in CallType /\ c.seen \in Copies BY DEF IInv, Typed, CallType
<1>3. sync.op \in Entries BY <1>1 DEF IInv, Typed, Linked, SyncType
<1>4. \E remaining \in QueueType : SyncEnds(remaining)
  BY <1>2, <1>3, AcknowledgedType DEF SyncAnswered, IInv, Typed
<1>5. /\ clock' \in Nat /\ clock <= clock'
      /\ queue' \in QueueType' /\ due' \in BOOLEAN /\ sync' \in SyncType'
  BY <1>1, <1>4, SyncEndsType
<1>6. calls' \in SUBSET CallType' BY <1>1, <1>5, Carried DEF IInv
<1>7. Typed' BY <1>1, <1>5, <1>6, Carried DEF IInv, Typed
<1>8. Linked' BY <1>1, CallGone DEF IInv
<1> QED BY <1>7, <1>8 DEF IInv

LEMMA SyncGivesUpHolds ==
  ASSUME IInv, NEW c \in calls, SyncGivesUp(c) PROVE IInv'
<1> DEFINE others == (calls \ {c}) \cup {[c EXCEPT !.by = "nobody", !.lost = used'.losses]}
<1>1. /\ c.by = "sync" /\ Uses("losses", MaxLosses) /\ calls' = others /\ SyncEnds(queue)
      /\ UNCHANGED <<server, history, clock, draft, baseline, reachable, save>>
  BY DEF SyncGivesUp
<1>2. /\ others \in SUBSET CallType /\ used' \in UsedType
      /\ \A x \in others : x.by # "nobody" => x \in calls /\ x.by # c.by
  BY <1>1, GivenUp
<1> HIDE DEF others
<1>3. /\ clock' \in Nat /\ clock <= clock'
      /\ queue' \in QueueType' /\ due' \in BOOLEAN /\ sync' \in SyncType'
  BY <1>1, SyncEndsType DEF IInv, Typed
<1>4. calls' \in SUBSET CallType' BY <1>1, <1>2, <1>3, TypesGrow DEF IInv, Typed
<1>5. Typed' BY <1>1, <1>2, <1>3, <1>4, Carried DEF IInv, Typed
<1>6. Linked' BY <1>1, <1>2 DEF IInv, Linked
<1> QED BY <1>5, <1>6 DEF IInv

LEMMA ConnectionHolds == IInv /\ (GoOffline \/ GoOnline) => IInv'
<1> SUFFICES ASSUME IInv, GoOffline \/ GoOnline PROVE IInv' OBVIOUS
<1>1. UNCHANGED <<server, history, clock, calls, draft, baseline, queue, sync, save, used>>
  BY DEF GoOffline, GoOnline
<1>2. reachable' \in BOOLEAN BY Zenon DEF GoOffline, GoOnline
<1>3. due' \in BOOLEAN
  <2>1. due \in BOOLEAN BY DEF IInv, Typed
  <2>2. GoOffline => due' = due BY DEF GoOffline
  <2>3. GoOnline => due' = (due \/ sync.stage = "idle") BY DEF GoOnline
  <2> QED BY <2>1, <2>2, <2>3, Zenon
<1>4. clock' \in Nat /\ clock <= clock' BY <1>1 DEF IInv, Typed
<1>5. Typed' BY <1>1, <1>2, <1>3, <1>4, Carried DEF IInv, Typed
<1> QED BY <1>1, <1>5 DEF IInv, Linked

LEMMA IInvStep == IInv /\ [Next]_vars => IInv'
<1> SUFFICES ASSUME IInv, [Next]_vars PROVE IInv' OBVIOUS
<1>1. ASSUME UNCHANGED vars PROVE IInv'
  <2>1. UNCHANGED <<server, history, clock, calls, draft, baseline, queue, reachable, due,
                    sync, save, used>>
    BY <1>1 DEF vars, client
  <2>2. clock' \in Nat /\ clock <= clock' BY <2>1 DEF IInv, Typed
  <2>3. Typed' BY <2>1, <2>2, Carried DEF IInv, Typed
  <2> QED BY <2>1, <2>3 DEF IInv, Linked
<1>2. ASSUME NEW c \in calls, ServerStep(c) \/ Answer(c) \/ SaveGivesUp(c) \/ SyncGivesUp(c)
      PROVE  IInv'
  BY <1>2, ServerStepHolds, SaveAnsweredHolds, SaveRefusedHolds, SyncAnsweredHolds,
     SaveGivesUpHolds, SyncGivesUpHolds DEF Answer
<1> QED BY <1>1, <1>2, EditHolds, SaveOfflineHolds, SaveOnlineHolds, RebaseHolds, StopsHolds,
           SyncStartHolds, SyncMergeHolds, ConnectionHolds DEF Next

\* An answer finds the save, or the run of the replay, that waits for it, and
\* there is one of each at a time (performSaveApplication, syncOfflineQueue).
THEOREM AnswersFindTheirCaller == Spec => []Linked
<1>1. IInv => Linked BY DEF IInv
<1> QED BY <1>1, InitHolds, IInvStep, PTL DEF Spec

\* The draft, the queue, the requests and the server keep their types; the
\* queue has one entry at most, and a save rebases a bounded number of times.
THEOREM OfflineTypeCorrect == Spec => []TypeOK
<1>1. IInv => TypeOK BY TypedIsTypeOK DEF IInv
<1> QED BY <1>1, InitHolds, IInvStep, PTL DEF Spec
------------------------------------------------------------------------------
(* As long as no save starts over a queued edit, the save and the replay take *)
(* turns: a save runs only over an empty queue, a replay only over an entry. *)

Turns ==
  /\ save.stage # "idle" => queue = <<>>
  /\ sync.stage # "idle" => /\ queue # <<>> /\ queue[1].base = sync.op.base
                            /\ queue[1].at = sync.op.at => queue[1] = sync.op

\* The steps that touch neither the queue, the save nor the replay.
Aside ==
  \/ UNCHANGED vars
  \/ \E f \in Fields : Type(f) \/ EditElsewhere(f)
  \/ \E c \in calls : ServerStep(c)
  \/ GoOffline \/ GoOnline

LEMMA AsideLeaves == Aside => UNCHANGED <<baseline, queue, sync, save>>
BY DEF Aside, vars, client, Type, EditElsewhere, ServerStep, ServerChecks, ServerCommits,
       GoOffline, GoOnline

LEMMA NextIs ==
  [Next]_vars =>
    \/ Aside \/ SaveOffline \/ SaveOnline \/ Rebase \/ RebaseFails
    \/ \E c \in calls : SaveAnswered(c) \/ SaveRefused(c) \/ SaveGivesUp(c)
    \/ SyncStart \/ SyncMerge \/ SyncListFails
    \/ \E c \in calls : SyncAnswered(c) \/ SyncGivesUp(c)
BY Zenon DEF Next, Aside, Answer

\* What the queue holds after an edit is queued.
LEMMA Enqueued ==
  ASSUME Typed, NEW app, NEW base, Enqueue(app, base)
  PROVE  /\ queue' # <<>> /\ queue'[1].at = clock + 1 /\ queue'[1].app = app
         /\ queue'[1].base = IF queue = <<>> THEN base ELSE queue[1].base
         /\ clock' = clock + 1
BY DEF Enqueue

LEMMA TurnsStep ==
  ASSUME IInv, Turns, ~SavesOverQueue, [Next]_vars PROVE Turns'
<1>1. CASE Aside BY <1>1, AsideLeaves DEF Turns
<1>2. CASE SaveOffline
  <2>1. save.stage = "idle" /\ UNCHANGED <<sync, save>> /\ Enqueue(draft, baseline)
    BY <1>2 DEF SaveOffline, MustSave, QueueForSync
  <2>2. sync.stage # "idle" => sync.op.at # clock + 1
    BY DEF IInv, Typed, SyncType, Entries, Edits
  <2> QED BY <2>1, <2>2, Enqueued DEF Turns, IInv
<1>3. CASE SaveOnline
  <2>1. queue = <<>> /\ UNCHANGED <<queue, sync>> BY <1>3 DEF SaveOnline
  <2> QED BY <2>1 DEF Turns
<1>4. CASE Rebase \/ RebaseFails \/ \E c \in calls : SaveAnswered(c) \/ SaveRefused(c) \/ SaveGivesUp(c)
  <2>1. save.stage # "idle" /\ UNCHANGED sync
    BY <1>4 DEF Rebase, RebaseFails, SaveAnswered, SaveRefused, SaveGivesUp, IInv, Linked
  <2>2. queue = <<>> /\ sync.stage = "idle" BY <2>1 DEF Turns
  <2>3. queue' = <<>> \/ save'.stage = "idle"
    <3>1. Rebase => queue' = <<>> BY <2>2 DEF Rebase, Saved, Without
    <3>2. RebaseFails => queue' = <<>> BY <2>2 DEF RebaseFails
    <3>3. ASSUME NEW c \in calls, SaveAnswered(c) PROVE queue' = <<>>
      BY <2>2, <3>3 DEF SaveAnswered, Saved, Without
    <3>4. ASSUME NEW c \in calls, SaveRefused(c) PROVE queue' = <<>>
      BY <2>2, <3>4 DEF SaveRefused
    <3>5. ASSUME NEW c \in calls, SaveGivesUp(c) PROVE queue' = <<>> \/ save'.stage = "idle"
      <4>1. /\ UNCHANGED draft
            /\ \/ UNCHANGED <<queue, save>>
               \/ QueueForSync(save.target, save.base) /\ save' = [stage |-> "idle"]
               \/ UNCHANGED queue /\ save' = [stage |-> "idle"]
        BY <3>5, Zenon DEF SaveGivesUp
      <4> QED BY <2>2, <4>1
    <3> QED BY <1>4, <3>1, <3>2, <3>3, <3>4, <3>5
  <2> QED BY <2>1, <2>2, <2>3 DEF Turns
<1>5. CASE SyncStart
  <2>1. queue # <<>> /\ sync' = [stage |-> "listing", op |-> queue[1]] /\ UNCHANGED <<queue, save>>
    BY <1>5 DEF SyncStart
  <2> QED BY <2>1 DEF Turns
<1>6. CASE SyncMerge \/ SyncListFails \/ \E c \in calls : SyncAnswered(c) \/ SyncGivesUp(c)
  <2>1. sync.stage # "idle" /\ UNCHANGED save
    BY <1>6 DEF SyncMerge, SyncListFails, SyncAnswered, SyncGivesUp, IInv, Linked
  <2>2. save.stage = "idle" BY <2>1 DEF Turns
  <2>3. CASE sync'.stage = "idle" BY <2>1, <2>2, <2>3 DEF Turns
  <2>4. CASE sync'.stage # "idle"
    <3>1. sync' = [sync EXCEPT !.stage = "sent"] /\ UNCHANGED queue
      <4>1. SyncMerge => sync' = [sync EXCEPT !.stage = "sent"] /\ UNCHANGED queue
        BY <2>4 DEF SyncMerge, SyncEnds
      <4>2. ~SyncListFails BY <2>4 DEF SyncListFails
      <4>3. \A c \in calls : ~SyncAnswered(c) /\ ~SyncGivesUp(c)
        BY <2>4 DEF SyncAnswered, SyncGivesUp, SyncEnds
      <4> QED BY <1>6, <4>1, <4>2, <4>3
    <3>2. sync'.op = sync.op BY <2>1, <3>1 DEF IInv, Typed, SyncType
    <3> QED BY <2>1, <2>2, <3>1, <3>2 DEF Turns
  <2> QED BY <2>3, <2>4
<1> QED BY <1>1, <1>2, <1>3, <1>4, <1>5, <1>6, NextIs

------------------------------------------------------------------------------
(* A version identifies a copy.  The baseline of an edit that waits in the   *)
(* queue is the exception: it has the edit and the version of the copy that  *)
(* the edit was made on.  No request is made from it.                        *)

Known(copy) == copy.ver = server.ver => copy = server

KnownCopies ==
  /\ \A c \in calls : /\ Known(c.base) /\ Known(c.seen)
                      /\ c.stage = "checked" => c.seen = c.base
                      /\ c.by = "sync" /\ c.stage = "saved" => baseline.ver # server.ver
  /\ save.stage # "idle" => Known(save.base)
  /\ queue # <<>> => Known(queue[1].base)
  /\ baseline.ver = server.ver =>
       /\ queue = <<>> => baseline = server
       /\ queue # <<>> => queue[1].base = server /\ queue[1].app = baseline.val

\* Nothing on the device has the version that the server takes.
LEMMA PutKnown ==
  ASSUME IInv, KnownCopies, NEW val, Put(val), UNCHANGED <<baseline, queue, sync, save>>,
         \A x \in calls' : \/ x \in calls
                           \/ x.stage = "saved" /\ x.seen = server' /\ \E c \in calls : x.base = c.base
  PROVE  KnownCopies'
<1>1. server'.ver = clock + 1 /\ clock \in Nat BY DEF Put, IInv, Typed
<1>2. \A copy \in Copies : copy.ver # server'.ver BY <1>1 DEF Copies, Edits
<1>3. baseline \in Copies /\ (save.stage # "idle" => save.base \in Copies)
      /\ (queue # <<>> => queue[1].base \in Copies)
      /\ \A c \in calls : c.base \in Copies /\ c.seen \in Copies
  BY DEF IInv, Typed, QueueType, Entries, SaveType, CallType
<1>4. \A x \in calls' : /\ Known(x.base)' /\ Known(x.seen)'
                        /\ x.stage = "checked" => x.seen = x.base
  BY <1>2, <1>3 DEF Known, KnownCopies
<1>5. (save.stage # "idle" => Known(save.base))' /\ (queue # <<>> => Known(queue[1].base))'
  BY <1>2, <1>3 DEF Known
<1> QED BY <1>2, <1>3, <1>4, <1>5 DEF KnownCopies

\* A step that leaves the server, the device's queue and its baseline alone.
LEMMA CallsKnown ==
  ASSUME KnownCopies, UNCHANGED <<server, baseline, queue>>,
         save'.stage # "idle" => Known(save'.base),
         \A x \in calls' : \/ x \in calls
                           \/ x.stage \in {"sent", "refused"} /\ Known(x.base) /\ Known(x.seen)
                           \/ x.stage = "checked" /\ Known(x.base) /\ x.seen = x.base
                           \/ \E c \in calls : /\ x.base = c.base /\ x.seen = c.seen
                                               /\ x.stage = c.stage /\ x.by = "nobody"
  PROVE  KnownCopies'
<1>1. \A x \in calls' : /\ Known(x.base)' /\ Known(x.seen)'
                        /\ x.stage = "checked" => x.seen = x.base
                        /\ (x.by = "sync" /\ x.stage = "saved" => baseline.ver # server.ver)'
  BY DEF KnownCopies, Known
<1> QED BY <1>1 DEF KnownCopies, Known

LEMMA ServerKnown ==
  ASSUME IInv, KnownCopies, NEW c \in calls, ServerStep(c) PROVE KnownCopies'
<1>1. c \in CallType BY DEF IInv, Typed
<1>2. UNCHANGED <<baseline, queue, sync, save>>
  BY DEF ServerStep, ServerChecks, ServerCommits, client
<1>3. ASSUME NEW d, Becomes(c, d) PROVE \A x \in calls' : x \in calls \/ x = d
  BY <1>3 DEF Becomes
<1>4. CASE ServerChecks(c)
  <2> DEFINE s == IF c.base.ver = server.ver /\ Patched(c) = c.target THEN "checked" ELSE "refused"
             d == [c EXCEPT !.seen = server, !.stage = s]
  <2>1. Becomes(c, d) /\ UNCHANGED server BY <1>4 DEF ServerChecks
  <2>2. d.base = c.base /\ d.seen = server /\ d.stage = s BY <1>1 DEF CallType
  <2>3. s = "refused" \/ (s = "checked" /\ c.base = server)
    BY DEF KnownCopies, Known
  <2> HIDE DEF d, s
  <2>4. Known(c.base) /\ Known(server) BY DEF KnownCopies, Known
  <2>5. \A x \in calls' : x \in calls \/ x = d BY <1>3, <2>1
  <2>6. save'.stage # "idle" => Known(save'.base) BY <1>2 DEF KnownCopies
  <2> QED BY <1>2, <2>1, <2>2, <2>3, <2>4, <2>5, <2>6, CallsKnown
<1>5. CASE /\ Becomes(c, [c EXCEPT !.stage = "refused"])
           /\ UNCHANGED <<server, history, clock>>
  <2> DEFINE d == [c EXCEPT !.stage = "refused"]
  <2>1. d.base = c.base /\ d.seen = c.seen /\ d.stage = "refused" BY <1>1 DEF CallType
  <2>2. \A x \in calls' : x \in calls \/ x = d BY <1>3, <1>5
  <2> HIDE DEF d
  <2>3. save'.stage # "idle" => Known(save'.base) BY <1>2 DEF KnownCopies
  <2>4. Known(c.base) /\ Known(c.seen) BY DEF KnownCopies
  <2> QED BY <1>2, <1>5, <2>1, <2>2, <2>3, <2>4, CallsKnown
<1>6. CASE Put(Patched(c)) /\ Becomes(c, [c EXCEPT !.stage = "saved", !.seen = server'])
  <2> DEFINE d == [c EXCEPT !.stage = "saved", !.seen = server']
  <2>1. d.base = c.base /\ d.seen = server' /\ d.stage = "saved" BY <1>1 DEF CallType
  <2>2. \A x \in calls' : x \in calls \/ x = d BY <1>3, <1>6
  <2> HIDE DEF d
  <2> QED BY <1>2, <1>6, <2>1, <2>2, PutKnown
<1> QED BY <1>4, <1>5, <1>6 DEF ServerStep, ServerCommits

LEMMA AsideKnown == IInv /\ KnownCopies /\ Aside => KnownCopies'
<1> SUFFICES ASSUME IInv, KnownCopies, Aside PROVE KnownCopies' OBVIOUS
<1>1. UNCHANGED <<baseline, queue, sync, save>> BY AsideLeaves
<1>2. ASSUME NEW f \in Fields, EditElsewhere(f) PROVE KnownCopies'
  <2>1. UNCHANGED calls /\ Put([server.val EXCEPT ![f] = clock + 1])
    BY <1>2 DEF EditElsewhere
  <2> QED BY <1>1, <2>1, PutKnown
<1>3. CASE UNCHANGED <<server, calls>> BY <1>1, <1>3 DEF KnownCopies, Known
<1>4. UNCHANGED vars \/ GoOffline \/ GoOnline \/ (\E f \in Fields : Type(f)) => UNCHANGED <<server, calls>>
  BY DEF vars, GoOffline, GoOnline, Type
<1> QED BY <1>2, <1>3, <1>4, ServerKnown DEF Aside

\* The steps of a save.
LEMMA SaveKnown ==
  ASSUME IInv, Turns, KnownCopies, ~SavesOverQueue, NEW c \in calls,
         SaveAnswered(c) \/ SaveRefused(c) \/ SaveGivesUp(c)
  PROVE  KnownCopies'
<1>1. c.by = "save" /\ save.stage = "sent" /\ c \in CallType
  BY DEF SaveAnswered, SaveRefused, SaveGivesUp, IInv, Linked, Typed
<1>2. queue = <<>> /\ sync.stage = "idle" /\ Known(save.base) BY <1>1 DEF Turns, KnownCopies
<1>3. save \in [stage : {"sent", "rebasing"}, target : Values, base : Copies,
                tries : 0..RebaseAttempts, over : SUBSET Edits]
  BY <1>1 DEF IInv, Typed, SaveType
<1>4. \A x \in calls : x.by # "sync" BY <1>2 DEF IInv, Linked
<1>5. CASE SaveAnswered(c)
  <2>1. calls' \subseteq calls /\ baseline' = c.seen /\ save' = [stage |-> "idle"] /\ queue' = <<>>
        /\ UNCHANGED server
    BY <1>2, <1>5 DEF SaveAnswered, Saved, Without
  <2>2. Known(c.seen) BY DEF KnownCopies
  <2> QED BY <1>4, <2>1, <2>2 DEF KnownCopies, Known
<1>6. CASE SaveRefused(c)
  <2>1. calls' \subseteq calls /\ UNCHANGED <<server, baseline, queue>> BY <1>6 DEF SaveRefused
  <2>2. save'.stage # "idle" => save'.base = save.base BY <1>3, <1>6 DEF SaveRefused
  <2>3. save'.stage # "idle" => Known(save'.base) BY <1>2, <2>2
  <2>4. \A x \in calls' : x \in calls BY <2>1
  <2> QED BY <2>1, <2>3, <2>4, CallsKnown
<1>7. CASE SaveGivesUp(c)
  <2> DEFINE d == [c EXCEPT !.by = "nobody", !.lost = used'.losses]
             e == Call("save", c.base, c.target)
  <2>1. UNCHANGED server /\ calls' \subseteq calls \cup {d, e} BY <1>7 DEF SaveGivesUp
  <2>2. /\ d.base = c.base /\ d.seen = c.seen /\ d.stage = c.stage /\ d.by = "nobody"
        /\ e.base = c.base /\ e.seen = c.base /\ e.stage = "sent"
    BY <1>1 DEF CallType, Call
  <2> HIDE DEF d, e
  <2>3. \A x \in calls' : x \in calls \/ x = d \/ x = e BY <2>1
  <2>4. Known(c.base) BY DEF KnownCopies
  <2>5. CASE UNCHANGED <<baseline, queue>>
    <3>1. save'.stage # "idle" => save' = save BY <1>7 DEF SaveGivesUp
    <3>2. save'.stage # "idle" => Known(save'.base) BY <1>2, <3>1
    <3> QED BY <2>1, <2>2, <2>3, <2>4, <2>5, <3>2, CallsKnown
  <2>6. CASE QueueForSync(save.target, save.base) /\ save' = [stage |-> "idle"]
    <3>1. queue' # <<>> /\ queue'[1].base = save.base /\ queue'[1].app = save.target
      BY <1>2, <2>6, Enqueued DEF QueueForSync, IInv
    <3>2. baseline' = [val |-> save.target, ver |-> save.base.ver] BY <2>6 DEF QueueForSync
    <3>3. \A x \in calls' : Known(x.base) /\ Known(x.seen) /\ (x.stage = "checked" => x.seen = x.base)
      BY <2>2, <2>3, <2>4 DEF KnownCopies
    <3>4. \A x \in calls' : x.by = "sync" => x.stage # "saved"
      BY <1>4, <2>2, <2>3 DEF KnownCopies
    <3> QED BY <1>2, <2>1, <2>6, <3>1, <3>2, <3>3, <3>4 DEF KnownCopies, Known
  <2> QED BY <1>7, <2>5, <2>6 DEF SaveGivesUp
<1> QED BY <1>5, <1>6, <1>7

LEMMA RebaseKnown ==
  ASSUME IInv, Turns, KnownCopies, Rebase \/ RebaseFails PROVE KnownCopies'
<1>1. save.stage = "rebasing" /\ queue = <<>> /\ sync.stage = "idle" /\ UNCHANGED server
  BY DEF Rebase, RebaseFails, Turns
<1>2. save \in [stage : {"sent", "rebasing"}, target : Values, base : Copies,
                tries : 0..RebaseAttempts, over : SUBSET Edits]
  BY <1>1 DEF IInv, Typed, SaveType
<1>3. \A x \in calls : x.by # "sync" BY <1>1 DEF IInv, Linked
<1>4. CASE Saved(server) /\ UNCHANGED calls
  <2>1. baseline' = server /\ queue' = <<>> /\ save' = [stage |-> "idle"]
    BY <1>1, <1>4 DEF Saved, Without
  <2> QED BY <1>1, <1>3, <1>4, <2>1 DEF KnownCopies, Known
<1>5. CASE RebaseFails
  <2>1. UNCHANGED <<server, calls, baseline, queue>> /\ save'.stage = "idle" BY <1>5 DEF RebaseFails
  <2> QED BY <2>1, CallsKnown
<1>6. ASSUME NEW merged, calls' = calls \cup {Call("save", server, merged)},
             save' = [save EXCEPT !.stage = "sent"], UNCHANGED <<draft, baseline, queue>>
      PROVE  KnownCopies'
  <2> DEFINE d == Call("save", server, merged)
  <2>1. d.base = server /\ d.seen = server /\ d.stage = "sent" BY DEF Call
  <2>2. save'.base = save.base BY <1>2, <1>6
  <2>3. Known(save'.base) BY <1>1, <2>2 DEF KnownCopies
  <2>4. \A x \in calls' : x \in calls \/ x = d BY <1>6
  <2>5. Known(server) BY DEF Known
  <2> HIDE DEF d
  <2> QED BY <1>1, <1>6, <2>1, <2>3, <2>4, <2>5, CallsKnown
<1> QED BY <1>4, <1>5, <1>6 DEF Rebase

\* A save begins.
LEMMA SaveBeginsKnown ==
  ASSUME IInv, Turns, KnownCopies, ~SavesOverQueue, SaveOnline \/ SaveOffline PROVE KnownCopies'
<1>1. CASE SaveOnline
  <2> DEFINE d == Call("save", baseline, draft)
  <2>1. /\ queue = <<>> /\ calls' = calls \cup {d} /\ save'.base = baseline
        /\ UNCHANGED <<server, baseline, queue>>
    BY <1>1 DEF SaveOnline
  <2>2. d.base = baseline /\ d.seen = baseline /\ d.stage = "sent" BY DEF Call
  <2>3. \A x \in calls' : x \in calls \/ x = d BY <2>1
  <2>4. Known(baseline) BY <2>1 DEF KnownCopies, Known
  <2> HIDE DEF d
  <2> QED BY <2>1, <2>2, <2>3, <2>4, CallsKnown
<1>2. CASE SaveOffline
  <2>1. /\ save.stage = "idle" /\ Enqueue(draft, baseline)
        /\ baseline' = [val |-> draft, ver |-> baseline.ver]
        /\ UNCHANGED <<server, calls, save>>
    BY <1>2 DEF SaveOffline, MustSave, QueueForSync
  <2>2. queue' # <<>> /\ queue'[1].app = draft
        /\ queue'[1].base = IF queue = <<>> THEN baseline ELSE queue[1].base
    BY <2>1, Enqueued DEF IInv
  <2>3. Known(queue'[1].base)
    <3>1. queue = <<>> => Known(baseline) BY DEF KnownCopies, Known
    <3>2. queue # <<>> => Known(queue[1].base) BY DEF KnownCopies
    <3> QED BY <2>2, <3>1, <3>2
  <2>4. baseline'.ver = server.ver => queue'[1].base = server
    BY <2>1, <2>2 DEF KnownCopies
  <2>5. baseline'.ver = baseline.ver /\ baseline'.val = draft BY <2>1
  <2> QED BY <2>1, <2>2, <2>3, <2>4, <2>5 DEF KnownCopies, Known
<1> QED BY <1>1, <1>2

\* What is left of the queue when an entry is removed.
LEMMA WithoutIs ==
  ASSUME NEW ids
  PROVE  Without(ids) = IF queue = <<>> \/ queue[1].at \in ids THEN <<>> ELSE queue
BY DEF Without

\* A merge that comes to what the server has, over the copy the server has, has
\* nothing of its own.
LEMMA MergeNothing ==
  ASSUME server \in Copies, NEW app \in Values, NEW at, Merge(app, server, at, server) = server.val
  PROVE  app = server.val
<1>1. \A f \in Fields : app[f] = server.val[f]
  <2> TAKE f \in Fields
  <2>1. Merge(app, server, at, server)[f] =
          IF app[f] \in {server.val[f], server.val[f]} \/ FALSE THEN server.val[f] ELSE app[f]
    BY DEF Merge
  <2> QED BY <2>1
<1> QED BY <1>1 DEF Values, Copies

\* The steps of the replay.
LEMMA ReplayKnown ==
  ASSUME IInv, Turns, KnownCopies, SyncStart \/ SyncMerge \/ SyncListFails PROVE KnownCopies'
<1>1. CASE SyncStart \/ SyncListFails
  <2>1. UNCHANGED <<server, calls, baseline, queue, save>> BY <1>1 DEF SyncStart, SyncListFails
  <2> QED BY <2>1 DEF KnownCopies, Known
<1>2. CASE SyncMerge
  <2> DEFINE merged == Merge(sync.op.app, sync.op.base, sync.op.at, server)
             d == Call("sync", server, merged)
  <2>1. sync.stage # "idle" /\ UNCHANGED <<server, baseline, save>> BY <1>2 DEF SyncMerge
  <2>2. queue # <<>> /\ queue[1].base = sync.op.base /\ (queue[1].at = sync.op.at => queue[1] = sync.op)
    BY <2>1 DEF Turns
  <2>3. sync.op.app \in Values /\ server \in Copies /\ baseline \in Copies
    BY <2>1 DEF IInv, Typed, SyncType, Entries
  <2>4. CASE merged = server.val /\ SyncEnds(Without({sync.op.at})) /\ UNCHANGED calls
    <3>1. queue' = Without({sync.op.at}) BY <2>4 DEF SyncEnds
    <3>2. CASE queue[1].at # sync.op.at
      <4>1. UNCHANGED queue BY <2>2, <3>1, <3>2, WithoutIs
      <4> QED BY <2>1, <2>4, <4>1 DEF KnownCopies, Known
    <3>3. CASE queue[1].at = sync.op.at
      <4>1. queue' = <<>> BY <3>1, <3>3, WithoutIs
      <4>2. baseline.ver = server.ver => sync.op.base = server /\ sync.op.app = baseline.val
        BY <2>2, <3>3 DEF KnownCopies
      <4>3. baseline.ver = server.ver => baseline.val = server.val
        BY <2>3, <2>4, <4>2, MergeNothing
      <4>4. baseline.ver = server.ver => baseline = server BY <2>3, <4>3 DEF Copies
      <4> QED BY <2>1, <2>4, <4>1, <4>4 DEF KnownCopies, Known
    <3> QED BY <3>2, <3>3
  <2>5. CASE calls' = calls \cup {d} /\ UNCHANGED queue
    <3>1. d.base = server /\ d.seen = server /\ d.stage = "sent" BY DEF Call
    <3>2. \A x \in calls' : x \in calls \/ x = d BY <2>5
    <3>3. Known(server) BY DEF Known
    <3>4. save'.stage # "idle" => Known(save'.base) BY <2>1 DEF KnownCopies
    <3> HIDE DEF d
    <3> QED BY <2>1, <2>5, <3>1, <3>2, <3>3, <3>4, CallsKnown
  <2> QED BY <1>2, <2>4, <2>5 DEF SyncMerge
<1> QED BY <1>1, <1>2

LEMMA SyncKnown ==
  ASSUME IInv, Turns, KnownCopies, NEW c \in calls, SyncAnswered(c) \/ SyncGivesUp(c)
  PROVE  KnownCopies'
<1>1. c.by = "sync" /\ c \in CallType /\ UNCHANGED <<server, baseline, save>>
  BY DEF SyncAnswered, SyncGivesUp, IInv, Typed
<1>2. save'.stage # "idle" => Known(save'.base) BY <1>1 DEF KnownCopies
<1>3. CASE SyncGivesUp(c)
  <2> DEFINE d == [c EXCEPT !.by = "nobody", !.lost = used'.losses]
  <2>1. UNCHANGED queue /\ \A x \in calls' : x \in calls \/ x = d
    BY <1>3 DEF SyncGivesUp, SyncEnds
  <2>2. d.base = c.base /\ d.seen = c.seen /\ d.stage = c.stage /\ d.by = "nobody"
    BY <1>1 DEF CallType
  <2> HIDE DEF d
  <2> QED BY <1>1, <1>2, <2>1, <2>2, CallsKnown
<1>4. CASE SyncAnswered(c) /\ c.stage = "refused"
  <2>1. UNCHANGED queue /\ \A x \in calls' : x \in calls BY <1>4 DEF SyncAnswered, SyncEnds
  <2> QED BY <1>1, <1>2, <2>1, CallsKnown
<1>5. CASE SyncAnswered(c) /\ c.stage = "saved"
  <2>1. queue' = Acknowledged(sync.op, c.seen) /\ \A x \in calls' : x \in calls
    BY <1>5 DEF SyncAnswered, SyncEnds
  <2>2. baseline.ver # server.ver /\ Known(c.seen) BY <1>1, <1>5 DEF KnownCopies
  <2>3. queue' # <<>> => queue'[1].base = c.seen \/ queue' = queue
    <3>1. CASE queue = <<>> \/ queue[1].at = sync.op.at \/ queue[1].base # sync.op.base
      BY <2>1, <3>1, WithoutIs DEF Acknowledged
    <3>2. CASE ~(queue = <<>> \/ queue[1].at = sync.op.at \/ queue[1].base # sync.op.base)
      <4>1. queue[1] \in Entries BY <3>2 DEF IInv, Typed, QueueType
      <4> QED BY <2>1, <3>2, <4>1 DEF Acknowledged, Entries
    <3> QED BY <3>1, <3>2
  <2>4. queue' # <<>> => Known(queue'[1].base) BY <2>2, <2>3 DEF KnownCopies
  <2> QED BY <1>1, <1>2, <2>1, <2>2, <2>4 DEF KnownCopies, Known
<1> QED BY <1>3, <1>4, <1>5 DEF SyncAnswered

LEMMA KnownStep ==
  ASSUME IInv, Turns, KnownCopies, ~SavesOverQueue, [Next]_vars PROVE KnownCopies'
BY NextIs, AsideKnown, SaveKnown, RebaseKnown, SaveBeginsKnown, ReplayKnown, SyncKnown

LEMMA SeenInit == Init => Turns /\ KnownCopies
BY DEF Init, Turns, KnownCopies, Known

\* When a request changes a field, the server has what the copy shows that the
\* request was made from.
LEMMA CommitsOverSeen ==
  ASSUME IInv, KnownCopies, [Next]_vars, used'.elsewhere = used.elsewhere,
         NEW f \in Fields, server'.val[f] # server.val[f]
  PROVE  \E c \in calls : /\ c.stage = "checked" /\ c.target[f] = server'.val[f]
                          /\ c.base.val[f] = server.val[f]
<1>1. ASSUME NEW c \in calls, ServerCommits(c)
      PROVE  /\ c.stage = "checked" /\ c.target[f] = server'.val[f]
             /\ c.base.val[f] = server.val[f]
  <2>1. c.stage = "checked" /\ c.seen = c.base BY <1>1 DEF ServerCommits, KnownCopies
  <2>2. /\ \A g \in Changed(c) : server.val[g] \in {c.seen.val[g], c.target[g]}
        /\ server'.val = Patched(c)
    BY <1>1 DEF ServerCommits, Put
  <2>3. f \in Changed(c) /\ server'.val[f] = c.target[f] BY <2>2 DEF Patched
  <2> QED BY <2>1, <2>2, <2>3
<1>2. ASSUME NEW g \in Fields, EditElsewhere(g) PROVE FALSE
  <2>1. used' = [used EXCEPT !["elsewhere"] = @ + 1] BY <1>2 DEF EditElsewhere, Uses
  <2>2. used \in UsedType BY DEF IInv, Typed
  <2>3. used'.elsewhere = used.elsewhere + 1 /\ used.elsewhere \in Nat
    BY <2>1, <2>2, OfflineAssumption DEF UsedType
  <2> QED BY <2>3
<1>3. ASSUME UNCHANGED server PROVE FALSE BY <1>3
<1>4. Aside => UNCHANGED server \/ (\E g \in Fields : EditElsewhere(g)) \/ \E c \in calls : ServerCommits(c)
  BY DEF Aside, vars, Type, ServerStep, ServerChecks, GoOffline, GoOnline
<1>5. ~Aside => UNCHANGED server
  BY NextIs DEF SaveOffline, SaveOnline, Rebase, RebaseFails, SaveAnswered, SaveRefused, SaveGivesUp,
     SyncStart, SyncMerge, SyncListFails, SyncAnswered, SyncGivesUp
<1> QED BY <1>1, <1>2, <1>3, <1>4, <1>5

\* A version identifies a copy: what a request was made from, and what the
\* queue and the baseline of a device with an empty queue show, is the server's
\* own copy when the versions agree (performSaveApplication, syncOfflineQueue).
THEOREM VersionsIdentifyCopies ==
  ~SavesOverQueue => (Spec => [](Turns /\ KnownCopies))
<1> SUFFICES ASSUME ~SavesOverQueue PROVE Spec => [](Turns /\ KnownCopies) OBVIOUS
<1> DEFINE Inv == IInv /\ Turns /\ KnownCopies
<1>1. Init => Inv BY InitHolds, SeenInit
<1>2. Inv /\ [Next]_vars => Inv' BY IInvStep, TurnsStep, KnownStep
<1>3. Inv => Turns /\ KnownCopies OBVIOUS
<1> QED BY <1>1, <1>2, <1>3, PTL DEF Spec

\* Nothing is overwritten unseen: a request replaces a field only while the
\* server has what the copy shows that the request was made from, however late
\* it runs and whoever wrote the field (PATCH /api/applications/:id/delta).
THEOREM NothingOverwrittenUnseen ==
  ~SavesOverQueue => (Spec => OverwritesOnlyWhatWasSeen)
<1> SUFFICES ASSUME ~SavesOverQueue PROVE Spec => OverwritesOnlyWhatWasSeen OBVIOUS
<1> DEFINE Inv == IInv /\ Turns /\ KnownCopies
           A == used'.elsewhere = used.elsewhere =>
                  \A f \in Fields : server'.val[f] # server.val[f] =>
                    \E c \in calls : /\ c.stage = "checked" /\ c.target[f] = server'.val[f]
                                     /\ c.base.val[f] = server.val[f]
<1>1. Init => Inv BY InitHolds, SeenInit
<1>2. Inv /\ [Next]_vars => Inv' BY IInvStep, TurnsStep, KnownStep
<1>3. Inv /\ [Next]_vars => [A]_vars BY CommitsOverSeen
<1> HIDE DEF Inv, A
<1>4. Spec => [][A]_vars BY <1>1, <1>2, <1>3, PTL DEF Spec
<1> QED BY <1>4 DEF OverwritesOnlyWhatWasSeen, A
------------------------------------------------------------------------------
(* What the entry in the queue and the replay hold of the time of an edit:   *)
(* the screen is never older than what was queued or sent from it.           *)

EditsOf(entry) == {f \in Fields : entry.app[f] # entry.base.val[f]}

\* A revision queued while an earlier one is replayed holds the whole screen.
Revised == sync.stage # "idle" /\ queue[1].at # sync.op.at

InTime ==
  /\ queue # <<>> => \A f \in Fields : f \in EditsOf(queue[1]) \/ Revised =>
                       queue[1].app[f] <= queue[1].at /\ queue[1].app[f] <= draft[f]
  /\ save.stage # "idle" => \A f \in Fields : save.target[f] <= draft[f]
  /\ sync.stage # "idle" => \A f \in EditsOf(sync.op) : sync.op.app[f] <= sync.op.at

LEMMA Shapes ==
  ASSUME IInv
  PROVE  /\ clock \in Nat /\ server \in Copies /\ baseline \in Copies /\ draft \in Values
         /\ \A values \in Values : \A f \in Fields : values[f] \in Nat /\ values[f] <= clock
         /\ \A copy \in Copies : copy.val \in Values /\ copy.ver \in Nat /\ copy.ver <= clock
         /\ queue # <<>> => /\ queue[1] \in Entries /\ queue[1].app \in Values
                            /\ queue[1].base \in Copies /\ queue[1].at \in Nat /\ DOMAIN queue = {1}
         /\ save.stage # "idle" =>
              /\ save \in [stage : {"sent", "rebasing"}, target : Values, base : Copies,
                           tries : 0..RebaseAttempts, over : SUBSET Edits]
              /\ save.target \in Values
         /\ sync.stage # "idle" =>
              /\ sync \in [stage : {"listing", "sent"}, op : Entries] /\ sync.op.app \in Values
              /\ sync.op.base \in Copies /\ sync.op.at \in Nat /\ sync.op.at <= clock
<1>1. /\ clock \in Nat /\ server \in Copies /\ baseline \in Copies /\ draft \in Values
      /\ queue \in QueueType /\ sync \in SyncType /\ save \in SaveType
  BY DEF IInv, Typed
<1>2. \A values \in Values : \A f \in Fields : values[f] \in Nat /\ values[f] <= clock
  BY <1>1 DEF Values, Edits
<1>3. \A copy \in Copies : copy.val \in Values /\ copy.ver \in Nat /\ copy.ver <= clock
  BY <1>1 DEF Copies, Edits
<1>4. \A e \in Entries : /\ e.app \in Values /\ e.base \in Copies
                         /\ e.at \in Nat /\ e.at <= clock
  BY <1>1 DEF Entries, Edits
<1> QED BY <1>1, <1>2, <1>3, <1>4 DEF QueueType, SyncType, SaveType

\* The revision that is rebased on the copy that was saved: a field is the
\* saved one or stays what it was.
LEMMA AcknowledgedIs ==
  ASSUME IInv, NEW op, NEW saved \in Copies
  PROVE  \/ Acknowledged(op, saved) = queue /\ (queue = <<>> \/ queue[1].base # op.base)
         \/ Acknowledged(op, saved) = <<>> /\ queue[1].at = op.at
         \/ /\ queue # <<>> /\ queue[1].at # op.at /\ queue[1].base = op.base
            /\ Acknowledged(op, saved) # <<>>
            /\ Acknowledged(op, saved)[1].at = queue[1].at
            /\ Acknowledged(op, saved)[1].base = saved
            /\ Acknowledged(op, saved)[1].app \in Values
            /\ \A f \in Fields :
                 Acknowledged(op, saved)[1].app[f] =
                   IF queue[1].app[f] \in {saved.val[f], op.app[f]} THEN saved.val[f]
                   ELSE queue[1].app[f]
<1>1. CASE queue = <<>> \/ queue[1].at = op.at \/ queue[1].base # op.base
  BY <1>1, WithoutIs DEF Acknowledged
<1>2. CASE ~(queue = <<>> \/ queue[1].at = op.at \/ queue[1].base # op.base)
  <2> DEFINE old == [val |-> op.app, ver |-> saved.ver]
             merged == Merge(queue[1].app, old, queue[1].at, saved)
  <2>1. queue[1] \in Entries /\ queue[1].app \in Values BY <1>2, Shapes
  <2>2. Acknowledged(op, saved) = <<[queue[1] EXCEPT !.app = merged, !.base = saved]>>
    BY <1>2 DEF Acknowledged
  <2>3. \A f \in Fields : merged[f] =
          IF queue[1].app[f] \in {saved.val[f], op.app[f]} THEN saved.val[f] ELSE queue[1].app[f]
    BY DEF Merge
  <2>4. merged \in Values BY <2>1, MergeType
  <2> HIDE DEF merged
  <2> DEFINE e == [queue[1] EXCEPT !.app = merged, !.base = saved]
  <2>5. e.app = merged /\ e.base = saved /\ e.at = queue[1].at BY <2>1 DEF Entries
  <2>6. Acknowledged(op, saved) # <<>> /\ Acknowledged(op, saved)[1] = e BY <2>2
  <2> HIDE DEF e
  <2> QED BY <1>2, <2>3, <2>4, <2>5, <2>6
<1> QED BY <1>1, <1>2

\* Apart from what a save brings back, the draft changes only as the person types.
LEMMA InTimeAside == IInv /\ InTime /\ Aside => InTime'
<1> SUFFICES ASSUME IInv, InTime, Aside PROVE InTime' OBVIOUS
<1>1. UNCHANGED <<queue, sync, save>> BY AsideLeaves
<1>2. \A f \in Fields : draft'[f] \in Nat /\ draft[f] <= draft'[f]
  <2>1. ASSUME NEW g \in Fields, Type(g)
        PROVE  \A f \in Fields : draft'[f] \in Nat /\ draft[f] <= draft'[f]
    BY <2>1, Shapes DEF Type, Values
  <2>2. CASE UNCHANGED draft BY <2>2, Shapes
  <2>3. UNCHANGED draft \/ \E g \in Fields : Type(g)
    BY DEF Aside, vars, client, EditElsewhere, ServerStep, ServerChecks, ServerCommits,
           GoOffline, GoOnline
  <2> QED BY <2>1, <2>2, <2>3
<1>3. \A x \in Nat, f \in Fields : x <= draft[f] => x <= draft'[f] BY <1>2, Shapes
<1>4. queue # <<>> => \A f \in Fields : f \in EditsOf(queue[1]) \/ Revised =>
                       queue[1].app[f] <= queue[1].at /\ queue[1].app[f] <= draft'[f]
  BY <1>3, Shapes DEF InTime
<1>5. save.stage # "idle" => \A f \in Fields : save.target[f] <= draft'[f]
  BY <1>3, Shapes DEF InTime
<1> QED BY <1>1, <1>4, <1>5 DEF InTime, Revised, EditsOf

\* A save begins, ends, or is given up.
LEMMA InTimeSave ==
  ASSUME IInv, Turns, InTime, ~SavesOverQueue,
         SaveOnline \/ SaveOffline \/ Rebase \/ RebaseFails
           \/ \E c \in calls : SaveAnswered(c) \/ SaveRefused(c) \/ SaveGivesUp(c)
  PROVE  InTime'
<1>1. \A f \in Fields : draft[f] \in Nat /\ draft[f] <= draft[f] /\ draft[f] <= clock BY Shapes
<1>2. CASE SaveOnline
  <2>1. queue = <<>> /\ sync.stage = "idle" /\ save'.target = draft /\ UNCHANGED <<queue, sync, draft>>
    BY <1>2 DEF SaveOnline, Turns
  <2> QED BY <1>1, <2>1 DEF InTime
<1>3. CASE SaveOffline
  <2>1. save.stage = "idle" /\ Enqueue(draft, baseline) /\ UNCHANGED <<draft, sync, save>>
    BY <1>3 DEF SaveOffline, MustSave, QueueForSync
  <2>2. queue'[1].at = clock + 1 /\ queue'[1].app = draft BY <2>1, Enqueued DEF IInv
  <2>3. \A f \in Fields : draft[f] <= clock + 1 BY <1>1, Shapes
  <2> QED BY <1>1, <2>1, <2>2, <2>3 DEF InTime, EditsOf
<1>4. CASE Rebase \/ RebaseFails \/ \E c \in calls : SaveAnswered(c) \/ SaveRefused(c) \/ SaveGivesUp(c)
  <2>1. save.stage # "idle" /\ UNCHANGED sync
    BY <1>4 DEF Rebase, RebaseFails, SaveAnswered, SaveRefused, SaveGivesUp, IInv, Linked
  <2>2. queue = <<>> /\ sync.stage = "idle" BY <2>1 DEF Turns
  <2>3. \/ queue' = <<>> /\ save'.stage = "idle"
        \/ queue' = <<>> /\ UNCHANGED draft /\ save'.target = save.target
        \/ QueueForSync(save.target, save.base) /\ save'.stage = "idle" /\ UNCHANGED draft
    <3>1. Rebase => \/ queue' = <<>> /\ save'.stage = "idle"
                    \/ queue' = <<>> /\ UNCHANGED draft /\ save'.target = save.target
      BY <2>1, <2>2, Shapes DEF Rebase, Saved, Without
    <3>2. RebaseFails => queue' = <<>> /\ save'.stage = "idle" BY <2>2 DEF RebaseFails
    <3>3. ASSUME NEW c \in calls, SaveAnswered(c) PROVE queue' = <<>> /\ save'.stage = "idle"
      BY <2>2, <3>3 DEF SaveAnswered, Saved, Without
    <3>4. ASSUME NEW c \in calls, SaveRefused(c)
          PROVE  \/ queue' = <<>> /\ save'.stage = "idle"
                 \/ queue' = <<>> /\ UNCHANGED draft /\ save'.target = save.target
      BY <2>1, <2>2, <3>4, Shapes DEF SaveRefused
    <3>5. ASSUME NEW c \in calls, SaveGivesUp(c)
          PROVE  \/ queue' = <<>> /\ save'.stage = "idle"
                 \/ queue' = <<>> /\ UNCHANGED draft /\ save'.target = save.target
                 \/ QueueForSync(save.target, save.base) /\ save'.stage = "idle" /\ UNCHANGED draft
      <4>1. /\ UNCHANGED draft
            /\ \/ UNCHANGED <<queue, save>>
               \/ QueueForSync(save.target, save.base) /\ save' = [stage |-> "idle"]
               \/ UNCHANGED queue /\ save' = [stage |-> "idle"]
        BY <3>5, Zenon DEF SaveGivesUp
      <4> QED BY <2>2, <4>1
    <3> QED BY <1>4, <3>1, <3>2, <3>3, <3>4, <3>5
  <2>4. CASE queue' = <<>> /\ save'.stage = "idle" BY <2>1, <2>2, <2>4 DEF InTime
  <2>5. CASE queue' = <<>> /\ UNCHANGED draft /\ save'.target = save.target
    BY <2>1, <2>2, <2>5 DEF InTime
  <2>6. CASE QueueForSync(save.target, save.base) /\ save'.stage = "idle" /\ UNCHANGED draft
    <3>1. queue'[1].at = clock + 1 /\ queue'[1].app = save.target
      BY <2>6, Enqueued DEF QueueForSync, IInv
    <3>2. \A f \in Fields : save.target[f] <= clock + 1 /\ save.target[f] <= draft[f]
      BY <2>1, Shapes DEF InTime
    <3> QED BY <2>1, <2>2, <2>6, <3>1, <3>2 DEF InTime, EditsOf
  <2> QED BY <2>3, <2>4, <2>5, <2>6
<1> QED BY <1>2, <1>3, <1>4

\* A run of the replay begins, goes on, or ends.
LEMMA InTimeReplay ==
  ASSUME IInv, Turns, InTime,
         SyncStart \/ SyncMerge \/ SyncListFails \/ \E c \in calls : SyncAnswered(c) \/ SyncGivesUp(c)
  PROVE  InTime'
<1>1. CASE SyncStart
  <2>1. queue # <<>> /\ sync.stage = "idle" /\ sync'.op = queue[1] /\ UNCHANGED <<queue, save, draft>>
    BY <1>1 DEF SyncStart
  <2> QED BY <2>1 DEF InTime, EditsOf, Revised
<1>2. CASE SyncMerge \/ SyncListFails \/ \E c \in calls : SyncAnswered(c) \/ SyncGivesUp(c)
  <2>1. sync.stage # "idle" /\ UNCHANGED <<save, draft>>
    BY <1>2 DEF SyncMerge, SyncListFails, SyncAnswered, SyncGivesUp, IInv, Linked
  <2>2. queue # <<>> /\ save.stage = "idle" BY <2>1 DEF Turns
  <2>3. \/ queue' = queue /\ sync'.stage # "idle" /\ sync'.op = sync.op
        \/ queue' \in {queue, <<>>} /\ sync'.stage = "idle"
        \/ \E c \in calls : queue' = Acknowledged(sync.op, c.seen) /\ sync'.stage = "idle"
    <3>1. SyncMerge => \/ queue' = queue /\ sync'.stage # "idle" /\ sync'.op = sync.op
                       \/ queue' \in {queue, <<>>} /\ sync'.stage = "idle"
      BY <2>1, Shapes DEF SyncMerge, SyncEnds, Without
    <3>2. SyncListFails => queue' = queue /\ sync'.stage = "idle" BY DEF SyncListFails
    <3>3. ASSUME NEW c \in calls, SyncAnswered(c)
          PROVE  \/ queue' = queue /\ sync'.stage = "idle"
                 \/ queue' = Acknowledged(sync.op, c.seen) /\ sync'.stage = "idle"
      BY <3>3 DEF SyncAnswered, SyncEnds
    <3>4. ASSUME NEW c \in calls, SyncGivesUp(c) PROVE queue' = queue /\ sync'.stage = "idle"
      BY <3>4 DEF SyncGivesUp, SyncEnds
    <3> QED BY <1>2, <3>1, <3>2, <3>3, <3>4
  <2>4. CASE queue' = queue /\ sync'.stage # "idle" /\ sync'.op = sync.op
    BY <2>1, <2>2, <2>4 DEF InTime, EditsOf, Revised
  <2>5. CASE queue' \in {queue, <<>>} /\ sync'.stage = "idle"
    BY <2>1, <2>2, <2>5 DEF InTime, EditsOf, Revised
  <2>6. ASSUME NEW c \in calls, queue' = Acknowledged(sync.op, c.seen), sync'.stage = "idle"
        PROVE  InTime'
    <3>1. c.seen \in Copies BY DEF IInv, Typed, CallType
    <3>2. CASE queue' \in {queue, <<>>} BY <2>5, <2>6, <3>2
    <3>3. CASE /\ queue[1].at # sync.op.at /\ queue'[1].at = queue[1].at /\ queue'[1].base = c.seen
               /\ \A f \in Fields :
                    queue'[1].app[f] = IF queue[1].app[f] \in {c.seen.val[f], sync.op.app[f]}
                                       THEN c.seen.val[f] ELSE queue[1].app[f]
      <4>1. Revised BY <2>1, <3>3 DEF Revised
      <4>2. \A f \in EditsOf(queue'[1]) : queue'[1].app[f] = queue[1].app[f] /\ f \in Fields
        BY <3>3 DEF EditsOf
      <4>3. \A f \in Fields : queue[1].app[f] <= queue[1].at /\ queue[1].app[f] <= draft[f]
        BY <2>2, <4>1 DEF InTime
      <4>4. \A f \in EditsOf(queue'[1]) : queue'[1].app[f] <= queue'[1].at /\ queue'[1].app[f] <= draft'[f]
        BY <2>1, <3>3, <4>2, <4>3
      <4> QED BY <2>1, <2>2, <2>6, <4>4 DEF InTime, EditsOf, Revised
    <3> QED BY <2>6, <3>1, <3>2, <3>3, AcknowledgedIs
  <2> QED BY <2>3, <2>4, <2>5, <2>6
<1> QED BY <1>1, <1>2

LEMMA InTimeStep ==
  ASSUME IInv, Turns, InTime, ~SavesOverQueue, [Next]_vars PROVE InTime'
BY NextIs, InTimeAside, InTimeSave, InTimeReplay
------------------------------------------------------------------------------
(* What the server has held, and what a replay asks for.                     *)

\* The copy that a replay was merged with, and what it has saved.
Held ==
  /\ \A f \in Fields : server.val[f] \in history[f]
  /\ \A c \in calls : c.by = "sync" =>
       \A f \in Fields : /\ c.base.val[f] \in history[f]
                         /\ c.stage = "saved" => /\ c.target[f] \in history[f]
                                                 /\ c.seen.val[f] \in history[f]

Others == used.elsewhere + used.losses > 0

\* A replay asks for the edits of its revision, but for those it found changed
\* by others in a copy later than the revision.
Replayed ==
  \A c \in calls : c.by = "sync" =>
    \A f \in EditsOf(sync.op) :
      \/ c.target[f] = sync.op.app[f]
      \/ Others /\ c.base.val[f] # sync.op.base.val[f] /\ c.base.ver > sync.op.at

\* A request of the replay comes from the one before it, or from the merge.
LEMMA SyncCalls ==
  ASSUME IInv, [Next]_vars, NEW x \in calls', x.by = "sync"
  PROVE  \/ /\ sync' = sync
            /\ \E c \in calls : /\ c.by = "sync" /\ x.base = c.base /\ x.target = c.target
                                /\ x = c \/ (ServerStep(c) /\ x.stage \in {"checked", "refused"})
                                         \/ (ServerCommits(c) /\ x.stage = "saved" /\ x.seen = server'
                                               /\ Put(Patched(c)) /\ c.stage = "checked")
         \/ /\ SyncMerge /\ sync.stage = "listing" /\ sync'.op = sync.op
            /\ x = Call("sync", server, Merge(sync.op.app, sync.op.base, sync.op.at, server))
<1>1. CASE Aside
  <2>1. UNCHANGED sync BY <1>1, AsideLeaves
  <2>2. ASSUME NEW c \in calls, ServerStep(c), x \notin calls
        PROVE  /\ c.by = "sync" /\ x.base = c.base /\ x.target = c.target
               /\ \/ ServerStep(c) /\ x.stage \in {"checked", "refused"}
                  \/ /\ ServerCommits(c) /\ x.stage = "saved" /\ x.seen = server'
                     /\ Put(Patched(c)) /\ c.stage = "checked"
    <3>1. c \in CallType BY DEF IInv, Typed
    <3>2. CASE ServerChecks(c)
      <4>1. \E s \in {"checked", "refused"} : x = [c EXCEPT !.seen = server, !.stage = s]
        BY <2>2, <3>2 DEF ServerChecks, Becomes
      <4> QED BY <2>2, <3>1, <4>1 DEF CallType
    <3>3. CASE ServerCommits(c) /\ x.stage = "refused"
      <4>1. x = [c EXCEPT !.stage = "refused"] \/ x = [c EXCEPT !.stage = "saved", !.seen = server']
        BY <2>2, <3>3 DEF ServerCommits, Becomes
      <4> QED BY <2>2, <3>1, <3>3, <4>1 DEF CallType
    <3>4. CASE ServerCommits(c) /\ x.stage # "refused"
      <4>1. c.stage = "checked" BY <3>4 DEF ServerCommits
      <4>2. \/ x = [c EXCEPT !.stage = "refused"]
            \/ x = [c EXCEPT !.stage = "saved", !.seen = server'] /\ Put(Patched(c))
        BY <2>2, <3>4 DEF ServerCommits, Becomes
      <4> QED BY <2>2, <3>1, <3>4, <4>1, <4>2 DEF CallType
    <3> QED BY <2>2, <3>2, <3>3, <3>4 DEF ServerStep
  <2>3. x \in calls \/ \E c \in calls : ServerStep(c)
    BY <1>1 DEF Aside, vars, Type, EditElsewhere, GoOffline, GoOnline, client
  <2> QED BY <2>1, <2>2, <2>3
<1>2. CASE SaveOffline \/ SaveOnline \/ Rebase \/ RebaseFails
             \/ \E c \in calls : SaveAnswered(c) \/ SaveRefused(c) \/ SaveGivesUp(c)
  <2>1. UNCHANGED sync
    BY <1>2 DEF SaveOffline, SaveOnline, Rebase, RebaseFails, SaveAnswered, SaveRefused, SaveGivesUp
  <2>2. x \in calls
    <3>1. SaveOffline \/ RebaseFails => calls' = calls BY DEF SaveOffline, RebaseFails
    <3>2. SaveOnline \/ Rebase => \A y \in calls' : y \in calls \/ y.by = "save"
      BY DEF SaveOnline, Rebase, Call
    <3>3. ASSUME NEW c \in calls, SaveAnswered(c) \/ SaveRefused(c) PROVE calls' \subseteq calls
      BY <3>3 DEF SaveAnswered, SaveRefused
    <3>4. ASSUME NEW c \in calls, SaveGivesUp(c)
          PROVE  \A y \in calls' : y \in calls \/ y.by = "save" \/ y.by = "nobody"
      <4> DEFINE d == [c EXCEPT !.by = "nobody", !.lost = used'.losses]
                 e == Call("save", c.base, c.target)
      <4>1. c \in CallType BY DEF IInv, Typed
      <4>2. d.by = "nobody" /\ e.by = "save" BY <4>1 DEF CallType, Call
      <4>3. calls' \subseteq calls \cup {d, e} BY <3>4 DEF SaveGivesUp
      <4> HIDE DEF d, e
      <4> QED BY <4>2, <4>3
    <3> QED BY <1>2, <3>1, <3>2, <3>3, <3>4
  <2> QED BY <2>1, <2>2
<1>3. CASE SyncStart \/ SyncListFails
  <2>1. UNCHANGED calls /\ sync.stage # "sent" BY <1>3 DEF SyncStart, SyncListFails
  <2> QED BY <2>1 DEF IInv, Linked
<1>4. CASE SyncMerge
  <2>1. sync.stage = "listing" BY <1>4 DEF SyncMerge
  <2>2. x \notin calls BY <2>1 DEF IInv, Linked
  <2>3. /\ x = Call("sync", server, Merge(sync.op.app, sync.op.base, sync.op.at, server))
        /\ sync' = [sync EXCEPT !.stage = "sent"]
    BY <1>4, <2>2 DEF SyncMerge
  <2> QED BY <1>4, <2>1, <2>3, Shapes
<1>5. ASSUME NEW c \in calls, SyncAnswered(c) \/ SyncGivesUp(c) PROVE FALSE
  <2>1. c.by = "sync" /\ c \in CallType BY <1>5 DEF SyncAnswered, SyncGivesUp, IInv, Typed
  <2>2. x \in calls \ {c} \/ x = [c EXCEPT !.by = "nobody", !.lost = used'.losses]
    BY <1>5 DEF SyncAnswered, SyncGivesUp
  <2> QED BY <2>1, <2>2 DEF IInv, Linked, CallType
<1> QED BY <1>1, <1>2, <1>3, <1>4, <1>5, NextIs

\* The history only grows, and has what the server has.
LEMMA HistoryGrows ==
  ASSUME IInv, Held, [Next]_vars
  PROVE  /\ \A f \in Fields : history[f] \subseteq history'[f]
         /\ \A f \in Fields : server'.val[f] \in history'[f]
<1>1. ASSUME NEW val, Put(val)
      PROVE  /\ \A f \in Fields : history[f] \subseteq history'[f]
             /\ \A f \in Fields : server'.val[f] \in history'[f]
  BY <1>1 DEF Put
<1>2. UNCHANGED <<server, history>> \/ \E val : Put(val)
  <2>1. Aside => UNCHANGED <<server, history>> \/ \E val : Put(val)
    <3>1. ASSUME NEW c \in calls, ServerStep(c) PROVE UNCHANGED <<server, history>> \/ \E val : Put(val)
      BY <3>1 DEF ServerStep, ServerChecks, ServerCommits
    <3> QED BY <3>1 DEF Aside, vars, Type, EditElsewhere, GoOffline, GoOnline
  <2>2. ~Aside => UNCHANGED <<server, history>>
    BY NextIs DEF SaveOffline, SaveOnline, Rebase, RebaseFails, SaveAnswered, SaveRefused, SaveGivesUp,
       SyncStart, SyncMerge, SyncListFails, SyncAnswered, SyncGivesUp
  <2> QED BY <2>1, <2>2
<1> QED BY <1>1, <1>2 DEF Held

LEMMA HeldStep == ASSUME IInv, Held, [Next]_vars PROVE Held'
<1> SUFFICES ASSUME NEW x \in calls', x.by = "sync", NEW f \in Fields
             PROVE  /\ x.base.val[f] \in history'[f]
                    /\ x.stage = "saved" => /\ x.target[f] \in history'[f]
                                            /\ x.seen.val[f] \in history'[f]
  BY HistoryGrows DEF Held
<1>1. ASSUME NEW c \in calls, c.by = "sync", x.base = c.base, x.target = c.target,
             \/ x = c \/ (ServerStep(c) /\ x.stage \in {"checked", "refused"})
             \/ (ServerCommits(c) /\ x.stage = "saved" /\ x.seen = server'
                   /\ Put(Patched(c)) /\ c.stage = "checked")
      PROVE  /\ x.base.val[f] \in history'[f]
             /\ x.stage = "saved" => x.target[f] \in history'[f] /\ x.seen.val[f] \in history'[f]
  <2>1. x.base.val[f] \in history'[f] BY <1>1, HistoryGrows DEF Held
  <2>2. CASE x = c BY <1>1, <2>2, HistoryGrows DEF Held
  <2>3. CASE x.seen = server' /\ Put(Patched(c))
    <3>1. x.seen.val[f] \in history'[f] BY <2>3, HistoryGrows
    <3>2. f \in Changed(c) => x.target[f] \in history'[f] BY <1>1, <2>3 DEF Put, Patched
    <3>3. f \notin Changed(c) => x.target[f] \in history'[f] BY <1>1, <2>1 DEF Changed
    <3> QED BY <2>1, <3>1, <3>2, <3>3
  <2> QED BY <1>1, <2>1, <2>2, <2>3
<1>2. ASSUME NEW merged, x = Call("sync", server, merged), UNCHANGED <<server, history>>
      PROVE  x.base.val[f] \in history'[f] /\ x.stage = "sent"
  BY <1>2 DEF Call, Held
<1>3. SyncMerge => UNCHANGED <<server, history>> BY DEF SyncMerge
<1> QED BY <1>1, <1>2, <1>3, SyncCalls

\* Nobody takes back what was used of a bound.
LEMMA OthersStay == ASSUME IInv, [Next]_vars, Others PROVE Others'
<1>1. used \in UsedType /\ used' \in UsedType BY IInvStep DEF IInv, Typed
<1>2. /\ used.elsewhere \in Nat /\ used.losses \in Nat
      /\ used'.elsewhere \in Nat /\ used'.losses \in Nat
  BY <1>1, OfflineAssumption DEF UsedType
<1>3. ASSUME NEW b \in {"typed", "elsewhere", "losses"}, NEW limit, Uses(b, limit)
      PROVE  used'.elsewhere >= used.elsewhere /\ used'.losses >= used.losses
  BY <1>1, <1>2, <1>3 DEF Uses, UsedType
<1>4. \/ UNCHANGED used
      \/ Uses("typed", MaxTyped) \/ Uses("elsewhere", MaxElsewhere) \/ Uses("losses", MaxLosses)
  <2>1. Aside => UNCHANGED used \/ Uses("typed", MaxTyped) \/ Uses("elsewhere", MaxElsewhere)
    BY DEF Aside, vars, Type, EditElsewhere, ServerStep, ServerChecks, ServerCommits, GoOffline, GoOnline
  <2>2. ~Aside => UNCHANGED used \/ Uses("losses", MaxLosses)
    BY NextIs DEF SaveOffline, SaveOnline, Rebase, RebaseFails, SaveAnswered, SaveRefused, SaveGivesUp,
       SyncStart, SyncMerge, SyncListFails, SyncAnswered, SyncGivesUp
  <2> QED BY <2>1, <2>2
<1>5. used'.elsewhere >= used.elsewhere /\ used'.losses >= used.losses
  <2>1. CASE UNCHANGED used BY <1>2, <2>1
  <2> QED BY <1>3, <1>4, <2>1
<1> QED BY <1>2, <1>5 DEF Others
------------------------------------------------------------------------------
(* With nobody else about, neither another device nor a request given up,    *)
(* the server has what the device took it to have.                           *)

NothingSaved == \A c \in calls : c.stage # "saved"

Alone ==
  ~Others =>
    /\ \A c \in calls : c.by # "nobody" /\ (c.stage = "saved" => c.seen = server)
    /\ \A c \in calls : c.by = "sync" =>
         /\ c.target = sync.op.app
         /\ c.stage # "saved" => c.base = server
         /\ c.stage = "saved" => server.val = sync.op.app
    /\ queue = <<>> => (NothingSaved => baseline.val = server.val)
    /\ queue # <<>> => /\ queue[1].app = baseline.val
                       /\ NothingSaved => queue[1].base.val = server.val

\* Then there is one request at a time.
LEMMA OneCall ==
  ASSUME IInv, Turns, Alone, ~Others, NEW c \in calls PROVE calls = {c}
<1>1. \A d \in calls : d.by \in {"save", "sync"}
  BY DEF Alone, IInv, Typed, CallType
<1>2. \A d \in calls : (d.by = "save" => save.stage # "idle") /\ (d.by = "sync" => sync.stage # "idle")
  BY DEF IInv, Linked
<1>3. ~(save.stage # "idle" /\ sync.stage # "idle") BY DEF Turns
<1>4. \A d \in calls : d.by = c.by BY <1>1, <1>2, <1>3
<1> QED BY <1>1, <1>4 DEF IInv, Linked

\* A merge over the copy that the edits were made on keeps them all.
LEMMA MergeKeepsOwn ==
  ASSUME NEW app \in Values, NEW base \in Copies, NEW at, NEW theirs \in Copies, theirs.val = base.val
  PROVE  Merge(app, base, at, theirs) = app
<1>1. \A f \in Fields : Merge(app, base, at, theirs)[f] = app[f] BY DEF Merge
<1>2. Merge(app, base, at, theirs) \in Values BY MergeType
<1> QED BY <1>1, <1>2 DEF Values

\* A merge gives up an edit only for a later change of its field.
LEMMA MergeGivesUp ==
  ASSUME NEW app, NEW base, NEW at, NEW theirs, NEW f \in Fields, app[f] # base.val[f],
         Merge(app, base, at, theirs)[f] # app[f]
  PROVE  /\ Merge(app, base, at, theirs)[f] = theirs.val[f]
         /\ theirs.val[f] # base.val[f] /\ at < theirs.ver
BY DEF Merge

LEMMA ReplayedStep ==
  ASSUME IInv, Turns, Held, Alone, Replayed, [Next]_vars PROVE Replayed'
<1> SUFFICES ASSUME NEW x \in calls', x.by = "sync", NEW f \in EditsOf(sync'.op)
             PROVE  \/ x.target[f] = sync'.op.app[f]
                    \/ /\ Others' /\ x.base.val[f] # sync'.op.base.val[f]
                       /\ x.base.ver > sync'.op.at
  BY DEF Replayed, EditsOf
<1>1. ASSUME sync' = sync, NEW c \in calls, c.by = "sync", x.base = c.base, x.target = c.target
      PROVE  \/ x.target[f] = sync'.op.app[f]
             \/ /\ Others' /\ x.base.val[f] # sync'.op.base.val[f]
                /\ x.base.ver > sync'.op.at
  BY <1>1, OthersStay DEF Replayed
<1>2. ASSUME SyncMerge, sync.stage = "listing", sync'.op = sync.op,
             x = Call("sync", server, Merge(sync.op.app, sync.op.base, sync.op.at, server))
      PROVE  \/ x.target[f] = sync'.op.app[f]
             \/ /\ Others' /\ x.base.val[f] # sync'.op.base.val[f]
                /\ x.base.ver > sync'.op.at
  <2> DEFINE merged == Merge(sync.op.app, sync.op.base, sync.op.at, server)
  <2>1. x.target = merged /\ x.base = server BY <1>2 DEF Call
  <2>2. f \in Fields /\ sync.op.app[f] # sync.op.base.val[f] BY <1>2 DEF EditsOf
  <2>3. merged[f] = sync.op.app[f] \/ (server.val[f] # sync.op.base.val[f] /\ sync.op.at < server.ver)
    BY <2>2, MergeGivesUp
  <2>4. merged[f] # sync.op.app[f] => Others
    <3>1. SUFFICES ASSUME ~Others PROVE merged = sync.op.app OBVIOUS
    <3>2. sync.op.app \in Values /\ sync.op.base \in Copies /\ server \in Copies BY <1>2, Shapes
    <3>3. queue # <<>> /\ queue[1].base = sync.op.base /\ save.stage = "idle" BY <1>2 DEF Turns
    <3>4. calls = {} BY <1>2, <3>1, <3>3 DEF Alone, IInv, Linked, Typed, CallType
    <3>5. server.val = sync.op.base.val BY <3>1, <3>3, <3>4 DEF Alone, NothingSaved
    <3> QED BY <3>2, <3>5, MergeKeepsOwn
  <2> HIDE DEF merged
  <2>5. sync.op.at \in Nat /\ server.ver \in Nat BY <1>2, Shapes
  <2> QED BY <1>2, <2>1, <2>3, <2>4, <2>5, OthersStay
<1> QED BY <1>1, <1>2, SyncCalls

LEMMA UsesOthers ==
  ASSUME IInv, NEW b \in {"elsewhere", "losses"}, NEW limit, Uses(b, limit) PROVE Others'
<1>1. used \in UsedType /\ used' = [used EXCEPT ![b] = @ + 1] BY DEF Uses, IInv, Typed
<1>2. used.elsewhere \in Nat /\ used.losses \in Nat BY <1>1, OfflineAssumption DEF UsedType
<1>3. CASE b = "elsewhere"
  <2>1. used'.elsewhere = used.elsewhere + 1 /\ used'.losses = used.losses
    BY <1>1, <1>3 DEF UsedType
  <2> QED BY <1>2, <2>1 DEF Others
<1>4. CASE b = "losses"
  <2>1. used'.elsewhere = used.elsewhere /\ used'.losses = used.losses + 1
    BY <1>1, <1>4 DEF UsedType
  <2> QED BY <1>2, <2>1 DEF Others
<1> QED BY <1>3, <1>4

\* The server handles the one request there is.
LEMMA AloneServer ==
  ASSUME IInv, Turns, KnownCopies, Alone, ~Others, NEW c \in calls, ServerStep(c)
  PROVE  Alone'
<1>1. calls = {c} /\ c \in CallType /\ c.by # "nobody" BY OneCall DEF Alone, IInv, Typed
<1>2. UNCHANGED <<baseline, queue, sync>>
  BY DEF ServerStep, ServerChecks, ServerCommits, client
<1>3. ASSUME NEW d, Becomes(c, d), d.by = c.by PROVE calls' = {d}
  BY <1>1, <1>3 DEF Becomes
<1>4. c.stage # "saved" => NothingSaved BY <1>1 DEF NothingSaved
<1>5. c.stage # "saved" BY DEF ServerStep, ServerChecks, ServerCommits
<1>6. /\ c.by = "sync" => c.target = sync.op.app /\ c.base = server
      /\ queue = <<>> => baseline.val = server.val
      /\ queue # <<>> => queue[1].app = baseline.val /\ queue[1].base.val = server.val
  BY <1>4, <1>5 DEF Alone
<1>7. ASSUME UNCHANGED server, NEW d, calls' = {d}, d.by = c.by, d.base = c.base,
             d.target = c.target, d.stage # "saved"
      PROVE  Alone'
  BY <1>1, <1>2, <1>6, <1>7 DEF Alone, NothingSaved
<1>8. CASE ServerChecks(c)
  <2>1. PICK d : /\ Becomes(c, d)
                 /\ \E s \in {"checked", "refused"} : d = [c EXCEPT !.seen = server, !.stage = s]
    BY <1>8 DEF ServerChecks
  <2>2. d.by = c.by /\ d.base = c.base /\ d.target = c.target /\ d.stage # "saved"
    BY <1>1, <2>1 DEF CallType
  <2>3. UNCHANGED server BY <1>8 DEF ServerChecks
  <2> QED BY <1>3, <1>7, <2>1, <2>2, <2>3
<1>9. CASE Becomes(c, [c EXCEPT !.stage = "refused"]) /\ UNCHANGED <<server, history, clock>>
  <2> DEFINE d == [c EXCEPT !.stage = "refused"]
  <2>1. d.by = c.by /\ d.base = c.base /\ d.target = c.target /\ d.stage # "saved"
    BY <1>1 DEF CallType
  <2> HIDE DEF d
  <2>2. calls' = {d} BY <1>3, <1>9, <2>1 DEF d
  <2> QED BY <1>7, <1>9, <2>1, <2>2
<1>10. CASE Put(Patched(c)) /\ Becomes(c, [c EXCEPT !.stage = "saved", !.seen = server'])
  <2> DEFINE d == [c EXCEPT !.stage = "saved", !.seen = server']
  <2>1. /\ d.by = c.by /\ d.base = c.base /\ d.target = c.target /\ d.stage = "saved"
        /\ d.seen = server'
    BY <1>1 DEF CallType
  <2> HIDE DEF d
  <2>2. calls' = {d} BY <1>3, <1>10, <2>1 DEF d
  <2>3. c.by = "sync" => server'.val = sync.op.app
    <3>1. server'.val = Patched(c) BY <1>10 DEF Put
    <3>2. Patched(c) \in Values /\ c.target \in Values BY <1>1, PatchedType, Shapes DEF CallType
    <3>3. c.by = "sync" => \A f \in Fields : Patched(c)[f] = c.target[f]
      BY <1>6 DEF Patched, Changed
    <3>4. c.by = "sync" => Patched(c) = c.target BY <3>2, <3>3 DEF Values
    <3> QED BY <1>6, <3>1, <3>4
  <2>4. ~NothingSaved' BY <2>1, <2>2 DEF NothingSaved
  <2> QED BY <1>1, <1>2, <1>6, <2>1, <2>2, <2>3, <2>4 DEF Alone
<1> QED BY <1>8, <1>9, <1>10 DEF ServerStep, ServerCommits

\* A save, with nobody else about.
LEMMA AloneSave ==
  ASSUME IInv, Turns, Alone, ~Others, ~SavesOverQueue,
         SaveOnline \/ SaveOffline \/ Rebase \/ \E c \in calls : SaveAnswered(c) \/ SaveRefused(c)
  PROVE  Alone'
<1>1. save.stage = "idle" /\ sync.stage = "idle" => calls = {}
  BY DEF Alone, IInv, Linked, Typed, CallType
<1>2. save.stage = "rebasing" => calls = {}
  BY DEF Turns, Alone, IInv, Linked, Typed, CallType
<1>3. NothingSaved => /\ queue = <<>> => baseline.val = server.val
                      /\ queue # <<>> => queue[1].base.val = server.val
  BY DEF Alone
<1>4. calls = {} => NothingSaved BY DEF NothingSaved
<1>5. CASE SaveOffline
  <2>1. /\ save.stage = "idle" /\ Enqueue(draft, baseline)
        /\ baseline' = [val |-> draft, ver |-> baseline.ver]
        /\ UNCHANGED <<server, calls, save, sync>>
    BY <1>5 DEF SaveOffline, MustSave, QueueForSync
  <2>2. queue' # <<>> /\ queue'[1].app = draft
        /\ queue'[1].base = IF queue = <<>> THEN baseline ELSE queue[1].base
    BY <2>1, Enqueued DEF IInv
  <2>3. queue = <<>> => NothingSaved BY <1>1, <1>4, <2>1 DEF Turns
  <2>4. NothingSaved => queue'[1].base.val = server.val BY <1>3, <2>2, <2>3
  <2> QED BY <2>1, <2>2, <2>4 DEF Alone, NothingSaved
<1>6. ASSUME queue = <<>>, queue' = <<>>, UNCHANGED <<server, baseline>>, calls = {},
             NEW d, calls' = {d}, d.by = "save", d.stage = "sent"
      PROVE  Alone'
  BY <1>3, <1>4, <1>6 DEF Alone
<1>7. CASE SaveOnline
  <2>1. queue = <<>> /\ save.stage = "idle" /\ calls' = calls \cup {Call("save", baseline, draft)}
        /\ UNCHANGED <<server, baseline, queue>>
    BY <1>7 DEF SaveOnline, MustSave
  <2>2. calls = {} BY <1>1, <2>1 DEF Turns
  <2>3. Call("save", baseline, draft).by = "save" /\ Call("save", baseline, draft).stage = "sent"
    BY DEF Call
  <2> QED BY <1>6, <2>1, <2>2, <2>3
<1>8. CASE Rebase
  <2>1. save.stage = "rebasing" /\ UNCHANGED server BY <1>8 DEF Rebase
  <2>2. queue = <<>> /\ calls = {} BY <1>2, <2>1 DEF Turns
  <2>3. CASE Saved(server) /\ UNCHANGED calls
    <3>1. baseline' = server /\ queue' = <<>> BY <2>2, <2>3 DEF Saved, Without
    <3> QED BY <2>1, <2>2, <2>3, <3>1 DEF Alone
  <2>4. ASSUME NEW merged, calls' = calls \cup {Call("save", server, merged)},
               UNCHANGED <<draft, baseline, queue>>
        PROVE  Alone'
    <3>1. Call("save", server, merged).by = "save" /\ Call("save", server, merged).stage = "sent"
      BY DEF Call
    <3> QED BY <1>6, <2>1, <2>2, <2>4, <3>1
  <2> QED BY <1>8, <2>3, <2>4 DEF Rebase
<1>9. ASSUME NEW c \in calls, SaveAnswered(c) \/ SaveRefused(c) PROVE Alone'
  <2>1. calls = {c} /\ calls' = {} /\ UNCHANGED server
    BY <1>9, OneCall DEF SaveAnswered, SaveRefused
  <2>2. queue = <<>> BY <1>9 DEF SaveAnswered, SaveRefused, IInv, Linked, Turns
  <2>3. CASE SaveAnswered(c)
    <3>1. baseline' = c.seen /\ c.stage = "saved" /\ queue' = <<>>
      BY <2>2, <2>3 DEF SaveAnswered, Saved, Without
    <3>2. c.seen = server BY <3>1 DEF Alone
    <3> QED BY <2>1, <3>1, <3>2 DEF Alone
  <2>4. CASE SaveRefused(c)
    <3>1. c.stage = "refused" /\ UNCHANGED <<baseline, queue>> BY <2>4 DEF SaveRefused
    <3>2. NothingSaved BY <2>1, <3>1 DEF NothingSaved
    <3> QED BY <1>3, <2>1, <2>2, <3>1, <3>2 DEF Alone
  <2> QED BY <1>9, <2>3, <2>4
<1> QED BY <1>5, <1>7, <1>8, <1>9

\* The replay, with nobody else about: it asks for what the queue holds.
LEMMA AloneReplay ==
  ASSUME IInv, Turns, Alone, ~Others,
         SyncStart \/ SyncMerge \/ \E c \in calls : SyncAnswered(c)
  PROVE  Alone'
<1>1. CASE SyncStart
  <2>1. sync.stage = "idle" /\ UNCHANGED <<server, calls, baseline, queue>> BY <1>1 DEF SyncStart
  <2>2. \A c \in calls : c.by # "sync" BY <2>1 DEF IInv, Linked
  <2> QED BY <2>1, <2>2 DEF Alone, NothingSaved
<1>2. CASE SyncMerge
  <2> DEFINE merged == Merge(sync.op.app, sync.op.base, sync.op.at, server)
  <2>1. sync.stage = "listing" /\ UNCHANGED <<server, baseline>> BY <1>2 DEF SyncMerge
  <2>2. /\ queue # <<>> /\ queue[1].base = sync.op.base /\ save.stage = "idle"
        /\ queue[1].at = sync.op.at => queue[1] = sync.op
    BY <2>1 DEF Turns
  <2>3. calls = {} /\ NothingSaved
    BY <2>1, <2>2 DEF Alone, IInv, Linked, Typed, CallType, NothingSaved
  <2>4. server.val = sync.op.base.val /\ queue[1].app = baseline.val BY <2>2, <2>3 DEF Alone
  <2>5. merged = sync.op.app BY <2>1, <2>4, Shapes, MergeKeepsOwn
  <2> HIDE DEF merged
  <2>6. CASE merged = server.val /\ SyncEnds(Without({sync.op.at})) /\ UNCHANGED calls
    <3>1. queue' = IF queue[1].at = sync.op.at THEN <<>> ELSE queue
      BY <2>2, <2>6, WithoutIs DEF SyncEnds
    <3>2. CASE queue[1].at = sync.op.at
      <4>1. queue' = <<>> /\ baseline.val = server.val BY <2>2, <2>4, <2>5, <2>6, <3>1, <3>2
      <4> QED BY <2>1, <2>3, <2>6, <4>1 DEF Alone
    <3>3. CASE queue[1].at # sync.op.at
      BY <2>1, <2>2, <2>3, <2>4, <2>6, <3>1, <3>3 DEF Alone
    <3> QED BY <3>2, <3>3
  <2>7. CASE calls' = calls \cup {Call("sync", server, merged)}
             /\ sync' = [sync EXCEPT !.stage = "sent"] /\ UNCHANGED queue
    <3> DEFINE d == Call("sync", server, merged)
    <3>1. d.by = "sync" /\ d.target = merged /\ d.base = server /\ d.stage = "sent" BY DEF Call
    <3> HIDE DEF d
    <3>2. calls' = {d} BY <2>3, <2>7 DEF d
    <3>3. sync'.op = sync.op BY <2>1, <2>7, Shapes
    <3> QED BY <2>1, <2>2, <2>4, <2>5, <2>7, <3>1, <3>2, <3>3 DEF Alone
  <2> QED BY <1>2, <2>6, <2>7 DEF SyncMerge, merged
<1>3. ASSUME NEW c \in calls, SyncAnswered(c) PROVE Alone'
  <2>1. c.by = "sync" /\ calls = {c} /\ calls' = {} /\ UNCHANGED <<server, baseline>>
    BY <1>3, OneCall DEF SyncAnswered
  <2>2. /\ sync.stage # "idle" /\ queue # <<>> /\ queue[1].base = sync.op.base
        /\ queue[1].at = sync.op.at => queue[1] = sync.op
    BY <2>1 DEF IInv, Linked, Turns
  <2>3. queue[1].app = baseline.val BY <2>2 DEF Alone
  <2>4. CASE c.stage = "refused"
    <3>1. UNCHANGED queue BY <1>3, <2>4 DEF SyncAnswered, SyncEnds
    <3>2. NothingSaved BY <2>1, <2>4 DEF NothingSaved
    <3> QED BY <2>1, <2>2, <3>1, <3>2 DEF Alone
  <2>5. CASE c.stage = "saved"
    <3>1. queue' = Acknowledged(sync.op, c.seen) BY <1>3, <2>5 DEF SyncAnswered, SyncEnds
    <3>2. c.seen = server /\ server.val = sync.op.app /\ server \in Copies
      BY <2>1, <2>5, Shapes DEF Alone
    <3>3. CASE queue' = <<>> /\ queue[1].at = sync.op.at
      <4>1. baseline.val = server.val BY <2>2, <2>3, <3>2, <3>3
      <4> QED BY <2>1, <3>3, <4>1 DEF Alone
    <3>4. CASE /\ queue' # <<>> /\ queue'[1].base = c.seen /\ queue'[1].app \in Values
               /\ \A f \in Fields :
                    queue'[1].app[f] = IF queue[1].app[f] \in {c.seen.val[f], sync.op.app[f]}
                                       THEN c.seen.val[f] ELSE queue[1].app[f]
      <4>1. \A f \in Fields : queue'[1].app[f] = queue[1].app[f] BY <3>2, <3>4
      <4>2. queue[1].app \in Values BY <2>2, Shapes
      <4>3. queue'[1].app = queue[1].app BY <3>4, <4>1, <4>2 DEF Values
      <4> QED BY <2>1, <2>3, <3>2, <3>4, <4>3 DEF Alone
    <3> QED BY <2>2, <3>1, <3>2, <3>3, <3>4, AcknowledgedIs
  <2> QED BY <1>3, <2>4, <2>5 DEF SyncAnswered
<1> QED BY <1>1, <1>2, <1>3

LEMMA AloneStep ==
  ASSUME IInv, Turns, KnownCopies, Alone, ~SavesOverQueue, [Next]_vars PROVE Alone'
<1>1. CASE Others BY <1>1, OthersStay DEF Alone
<1>2. CASE Others' BY <1>2 DEF Alone
<1>3. ASSUME ~Others, ~Others' PROVE Alone'
  <2>1. ASSUME Aside PROVE Alone'
    <3>1. UNCHANGED <<baseline, queue, sync>> BY <2>1, AsideLeaves
    <3>2. \A f \in Fields : ~EditElsewhere(f) BY <1>3, UsesOthers DEF EditElsewhere
    <3>3. CASE UNCHANGED <<server, calls>> BY <1>3, <3>1, <3>3 DEF Alone, NothingSaved
    <3>4. UNCHANGED <<server, calls>> \/ \E c \in calls : ServerStep(c)
      BY <2>1, <3>2 DEF Aside, vars, Type, GoOffline, GoOnline
    <3> QED BY <1>3, <3>3, <3>4, AloneServer
  <2>2. ~RebaseFails /\ ~SyncListFails /\ \A c \in calls : ~SaveGivesUp(c) /\ ~SyncGivesUp(c)
    BY <1>3, UsesOthers DEF RebaseFails, SyncListFails, SaveGivesUp, SyncGivesUp
  <2> QED BY <1>3, <2>1, <2>2, AloneSave, AloneReplay, NextIs
<1> QED BY <1>1, <1>2, <1>3

------------------------------------------------------------------------------
(* What becomes of a queued edit.                                            *)

SettleInv == IInv /\ Turns /\ KnownCopies /\ InTime /\ Held /\ Alone /\ Replayed

LEMMA SettleInit == Init => SettleInv
<1>1. SUFFICES ASSUME Init PROVE SettleInv OBVIOUS
<1>2. calls = {} /\ save.stage = "idle" /\ sync.stage = "idle" /\ queue = <<>> BY <1>1 DEF Init
<1>3. InTime /\ Replayed BY <1>2 DEF InTime, Replayed
<1>4. Held BY <1>1, <1>2 DEF Init, Held
<1>5. Alone BY <1>1, <1>2 DEF Init, Alone
<1> QED BY <1>1, <1>3, <1>4, <1>5, InitHolds, SeenInit DEF SettleInv

LEMMA SettleInvStep == ~SavesOverQueue /\ SettleInv /\ [Next]_vars => SettleInv'
BY IInvStep, TurnsStep, KnownStep, InTimeStep, HeldStep, AloneStep, ReplayedStep DEF SettleInv

\* An edit that a replay did not ask for is overruled.
LEMMA GivenUpIsOverruled ==
  ASSUME SettleInv, NEW c \in calls, c.by = "sync", NEW f \in EditsOf(sync.op),
         c.target[f] # sync.op.app[f],
         queue[1].base = sync.op.base, queue[1].app[f] = sync.op.app[f]
  PROVE  Overruled(queue[1], f)
<1>1. Others /\ c.base.val[f] # sync.op.base.val[f] /\ c.base.ver > sync.op.at
  BY DEF SettleInv, Replayed
<1>2. sync.stage # "idle" BY DEF SettleInv, IInv, Linked
<1>3. sync.op.app[f] <= sync.op.at BY <1>2 DEF SettleInv, InTime
<1>4. sync.op.app[f] \in Nat /\ sync.op.at \in Nat BY <1>2, Shapes DEF SettleInv, EditsOf
<1>5. c.base \in Copies BY DEF SettleInv, IInv, Typed, CallType
<1>6. c.base.ver \in Nat BY <1>5, Shapes DEF SettleInv
<1>7. c.base.ver > queue[1].app[f] BY <1>1, <1>3, <1>4, <1>6
<1> QED BY <1>1, <1>7 DEF Overruled, Others

\* The replay takes an edit from the queue.
LEMMA ReplaySettles ==
  ASSUME SettleInv, [Next]_vars, SyncMerge \/ \E c \in calls : SyncAnswered(c),
         queue # <<>>, NEW f \in EditsOf(queue[1])
  PROVE  \/ queue[1].app[f] \in history'[f]
         \/ queue' # <<>> /\ queue'[1].app[f] = queue[1].app[f]
         \/ Overruled(queue[1], f)
<1>1. /\ sync.stage # "idle" /\ queue[1].base = sync.op.base
      /\ queue[1].at = sync.op.at => queue[1] = sync.op
  BY DEF SyncMerge, SyncAnswered, SettleInv, IInv, Linked, Turns
<1>2. f \in Fields /\ queue[1].app[f] # queue[1].base.val[f] BY DEF EditsOf
<1>3. \A g \in Fields : history[g] \subseteq history'[g] BY HistoryGrows DEF SettleInv
<1>4. CASE SyncMerge
  <2> DEFINE merged == Merge(sync.op.app, sync.op.base, sync.op.at, server)
  <2>1. \/ queue' = queue
        \/ queue[1].at = sync.op.at /\ merged = server.val
    BY <1>4 DEF SyncMerge, SyncEnds, Without
  <2>2. CASE queue[1].at = sync.op.at /\ merged = server.val
    <3>1. queue[1] = sync.op BY <1>1, <2>2
    <3>2. CASE merged[f] = queue[1].app[f]
      BY <1>2, <1>3, <2>2, <3>2 DEF SettleInv, Held
    <3>3. CASE merged[f] # queue[1].app[f]
      <4>1. server.val[f] # queue[1].base.val[f] /\ queue[1].at < server.ver
        BY <1>2, <3>1, <3>3, MergeGivesUp
      <4>2. queue[1].app[f] <= queue[1].at BY <1>2 DEF SettleInv, InTime
      <4>3. queue[1].app[f] \in Nat /\ queue[1].at \in Nat /\ server.ver \in Nat
        BY <1>2, Shapes DEF SettleInv
      <4>4. server.ver > queue[1].app[f] BY <4>1, <4>2, <4>3
      <4>5. Others
        <5>1. SUFFICES ASSUME ~Others PROVE server.val = queue[1].base.val BY <4>1
        <5>2. save.stage = "idle" /\ sync.stage = "listing" BY <1>4 DEF SettleInv, Turns, SyncMerge
        <5>3. calls = {} BY <5>1, <5>2 DEF SettleInv, Alone, IInv, Linked, Typed, CallType
        <5> QED BY <5>1, <5>3 DEF SettleInv, Alone, NothingSaved
      <4> QED BY <4>1, <4>4, <4>5 DEF Overruled, Others
    <3> QED BY <3>2, <3>3
  <2> QED BY <2>1, <2>2
<1>5. ASSUME NEW c \in calls, SyncAnswered(c)
      PROVE  \/ queue[1].app[f] \in history'[f]
             \/ queue' # <<>> /\ queue'[1].app[f] = queue[1].app[f]
             \/ Overruled(queue[1], f)
  <2>1. c.by = "sync" BY <1>5 DEF SyncAnswered
  <2>2. CASE queue' = queue BY <2>2
  <2>3. CASE c.stage = "saved" /\ queue' = Acknowledged(sync.op, c.seen)
    <3>1. c.target[f] \in history'[f] /\ c.seen.val[f] \in history'[f]
      BY <1>2, <1>3, <2>1, <2>3 DEF SettleInv, Held
    <3>2. ASSUME queue[1].app[f] = sync.op.app[f]
          PROVE  queue[1].app[f] \in history'[f] \/ Overruled(queue[1], f)
      <4>1. f \in EditsOf(sync.op) BY <1>1, <1>2, <3>2 DEF EditsOf
      <4> QED BY <1>1, <2>1, <3>1, <3>2, <4>1, GivenUpIsOverruled
    <3>3. c.seen \in Copies BY DEF SettleInv, IInv, Typed, CallType
    <3>4. CASE queue[1].at = sync.op.at BY <1>1, <3>2, <3>4
    <3>5. CASE /\ queue' # <<>>
               /\ queue'[1].app[f] = IF queue[1].app[f] \in {c.seen.val[f], sync.op.app[f]}
                                     THEN c.seen.val[f] ELSE queue[1].app[f]
      BY <3>1, <3>2, <3>5
    <3> QED BY <1>2, <2>2, <2>3, <3>3, <3>4, <3>5, AcknowledgedIs DEF SettleInv
  <2> QED BY <1>5, <2>2, <2>3 DEF SyncAnswered, SyncEnds
<1> QED BY <1>4, <1>5

LEMMA EditsSettle ==
  ASSUME SettleInv, [Next]_vars, ~SavesOverQueue, NEW i \in DOMAIN queue, NEW f \in Fields,
         queue[i].app[f] # queue[i].base.val[f]
  PROVE  \/ queue[i].app[f] \in history'[f]
         \/ \E j \in DOMAIN queue' : queue'[j].app[f] >= queue[i].app[f]
         \/ Overruled(queue[i], f)
<1>1. queue # <<>> /\ i = 1 /\ f \in EditsOf(queue[1])
  <2>1. queue # <<>> OBVIOUS
  <2>2. DOMAIN queue = {1} BY <2>1, Shapes DEF SettleInv
  <2> QED BY <2>1, <2>2 DEF EditsOf
<1>2. queue[1].app[f] \in Nat BY <1>1, Shapes DEF SettleInv
<1>3. queue' # <<>> => DOMAIN queue' = {1}
  BY IInvStep DEF SettleInv, IInv, Typed, QueueType
<1>4. CASE queue' # <<>> /\ queue'[1].app[f] = queue[1].app[f] BY <1>1, <1>2, <1>3, <1>4
<1>5. CASE queue' = queue BY <1>1, <1>4, <1>5
<1>6. CASE SaveOffline
  <2>1. Enqueue(draft, baseline) BY <1>6 DEF SaveOffline, QueueForSync
  <2>2. queue' # <<>> /\ queue'[1].app = draft BY <2>1, Enqueued DEF SettleInv, IInv
  <2>3. queue[1].app[f] <= draft[f] /\ draft[f] \in Nat
    BY <1>1, Shapes DEF SettleInv, InTime
  <2> QED BY <1>1, <1>2, <1>3, <2>2, <2>3
<1>7. \/ queue' = queue \/ SaveOffline \/ SyncMerge \/ \E c \in calls : SyncAnswered(c)
  <2>1. save.stage = "idle" BY <1>1 DEF SettleInv, Turns
  <2>2. /\ ~Rebase
        /\ \A c \in calls : ~SaveAnswered(c) /\ ~SaveRefused(c) /\ ~SaveGivesUp(c)
    BY <2>1 DEF Rebase, SaveAnswered, SaveRefused, SaveGivesUp, SettleInv, IInv, Linked
  <2>3. \A c \in calls : SyncGivesUp(c) => queue' = queue BY DEF SyncGivesUp, SyncEnds
  <2>4. SaveOnline \/ RebaseFails \/ SyncStart \/ SyncListFails \/ Aside => queue' = queue
    BY AsideLeaves DEF SaveOnline, RebaseFails, SyncStart, SyncListFails
  <2> QED BY <2>2, <2>3, <2>4, NextIs
<1> QED BY <1>1, <1>4, <1>5, <1>6, <1>7, ReplaySettles

\* An edit leaves the queue, or is replaced in it, only when the server has
\* held it, when a later edit of the field takes its place, or when a change
\* made elsewhere overrules it (syncOfflineQueue, acknowledgeOfflineApplicationUpdate).
THEOREM NoQueuedEditIsLost ==
  ~SavesOverQueue => (Spec => QueuedEditsSettle)
<1> SUFFICES ASSUME ~SavesOverQueue PROVE Spec => QueuedEditsSettle OBVIOUS
<1> DEFINE A == \A i \in DOMAIN queue : \A f \in Fields :
                  LET edit == queue[i].app[f]
                  IN  edit # queue[i].base.val[f] =>
                        \/ edit \in history'[f]
                        \/ \E j \in DOMAIN queue' : queue'[j].app[f] >= edit
                        \/ Overruled(queue[i], f)
<1>1. SettleInv /\ [Next]_vars => SettleInv' BY SettleInvStep
<1>2. SettleInv /\ [Next]_vars => [A]_vars BY EditsSettle
<1> HIDE DEF A
<1>3. Spec => [][A]_vars BY SettleInit, <1>1, <1>2, PTL DEF Spec
<1> QED BY <1>3 DEF QueuedEditsSettle, A
------------------------------------------------------------------------------
(* With nobody else about, the server never goes back to an earlier edit.    *)

AtMost(u, v) == \A f \in Fields : u[f] <= v[f]

LEMMA AtMostOrder ==
  ASSUME IInv, NEW u \in Values, NEW v \in Values, NEW w \in Values
  PROVE  AtMost(u, u) /\ (AtMost(u, v) /\ AtMost(v, w) => AtMost(u, w))
BY Shapes DEF AtMost

\* What is queued, sent or replayed is at least as late as what it was made
\* from, and the screen as late as what counts as saved.
Rising ==
  /\ AtMost(baseline.val, draft)
  /\ queue # <<>> => AtMost(queue[1].base.val, queue[1].app)
  /\ save.stage # "idle" => AtMost(save.base.val, save.target)
  /\ sync.stage # "idle" => /\ AtMost(sync.op.base.val, sync.op.app)
                            /\ AtMost(sync.op.app, queue[1].app)

\* A save asks for what the screen showed when it began, rebased or not.
SaveAsks ==
  /\ save.stage # "idle" => save.base.val = baseline.val
  /\ \A c \in calls : c.by = "save" => /\ c.target = save.target /\ c.base.val = save.base.val
                                       /\ c.stage = "saved" => server.val = c.target

Forward == ~Others => Rising /\ SaveAsks

\* The server has what the device took it to have until a request is saved.
LEMMA ServerAsTaken ==
  ASSUME IInv, Turns, Alone, SaveAsks, ~Others, NothingSaved
  PROVE  /\ save.stage # "idle" => server.val = save.base.val
         /\ sync.stage # "idle" => server.val = sync.op.base.val
BY DEF Turns, Alone, SaveAsks

LEMMA ForwardServer ==
  ASSUME IInv, Turns, KnownCopies, Alone, ~Others, Rising, SaveAsks, NEW c \in calls, ServerStep(c)
  PROVE  Rising' /\ SaveAsks'
<1>1. calls = {c} /\ c \in CallType /\ c.by # "nobody" BY OneCall DEF Alone, IInv, Typed
<1>2. UNCHANGED <<baseline, queue, sync, save, draft>>
  BY DEF ServerStep, ServerChecks, ServerCommits, client
<1>3. Rising' BY <1>2 DEF Rising, AtMost
<1>4. CASE c.by # "save"
  <2>1. \A x \in calls' : x.by = c.by
    <3>1. ASSUME NEW d, Becomes(c, d), d.by = c.by PROVE \A x \in calls' : x.by = c.by
      BY <1>1, <3>1 DEF Becomes
    <3>2. \A s, t : [c EXCEPT !.stage = s].by = c.by /\ [c EXCEPT !.seen = t, !.stage = s].by = c.by
                    /\ [c EXCEPT !.stage = s, !.seen = t].by = c.by
      BY <1>1 DEF CallType
    <3>3. \/ \E s : Becomes(c, [c EXCEPT !.seen = server, !.stage = s])
          \/ Becomes(c, [c EXCEPT !.stage = "refused"])
          \/ Becomes(c, [c EXCEPT !.stage = "saved", !.seen = server'])
      BY Zenon DEF ServerStep, ServerChecks, ServerCommits
    <3> QED BY <3>1, <3>2, <3>3
  <2> QED BY <1>2, <1>3, <1>4, <2>1 DEF SaveAsks
<1>5. CASE c.by = "save"
  <2>1. NothingSaved /\ c.stage # "saved"
    BY <1>1 DEF NothingSaved, ServerStep, ServerChecks, ServerCommits
  <2>2. server.val = save.base.val BY <1>5, <2>1, ServerAsTaken DEF IInv, Linked
  <2>3. ASSUME NEW d, Becomes(c, d), d.by = c.by, d.base = c.base, d.target = c.target,
               d.stage = "saved" => server'.val = c.target
        PROVE  SaveAsks'
    <3>1. \A x \in calls' : x = d BY <1>1, <2>3 DEF Becomes
    <3> QED BY <1>2, <1>5, <2>3, <3>1 DEF SaveAsks
  <2>4. CASE ServerChecks(c)
    <3>1. PICK d : /\ Becomes(c, d)
                   /\ \E s \in {"checked", "refused"} : d = [c EXCEPT !.seen = server, !.stage = s]
      BY <2>4 DEF ServerChecks
    <3>2. d.by = c.by /\ d.base = c.base /\ d.target = c.target /\ d.stage # "saved"
      BY <1>1, <3>1 DEF CallType
    <3> QED BY <1>3, <2>3, <3>1, <3>2
  <2>5. CASE Becomes(c, [c EXCEPT !.stage = "refused"]) /\ UNCHANGED server
    <3> DEFINE d == [c EXCEPT !.stage = "refused"]
    <3>1. d.by = c.by /\ d.base = c.base /\ d.target = c.target /\ d.stage # "saved"
      BY <1>1 DEF CallType
    <3>2. Becomes(c, d) BY <2>5
    <3> HIDE DEF d
    <3> QED BY <1>3, <2>3, <3>1, <3>2
  <2>6. CASE Put(Patched(c)) /\ Becomes(c, [c EXCEPT !.stage = "saved", !.seen = server'])
    <3> DEFINE d == [c EXCEPT !.stage = "saved", !.seen = server']
    <3>1. d.by = c.by /\ d.base = c.base /\ d.target = c.target
      BY <1>1 DEF CallType
    <3>2. Becomes(c, d) BY <2>6
    <3> HIDE DEF d
    <3>3. Patched(c) \in Values /\ c.target \in Values BY <1>1, PatchedType, Shapes DEF CallType
    <3>4. c.base.val = server.val BY <1>5, <2>2 DEF SaveAsks
    <3>5. \A f \in Fields : Patched(c)[f] = c.target[f] BY <3>4 DEF Patched, Changed
    <3>6. Patched(c) = c.target BY <3>3, <3>5 DEF Values
    <3>7. server'.val = c.target BY <2>6, <3>6 DEF Put
    <3> QED BY <1>3, <2>3, <3>1, <3>2, <3>7
  <2> QED BY <1>3, <2>4, <2>5, <2>6 DEF ServerStep, ServerCommits
<1> QED BY <1>4, <1>5

\* A save begins or is queued, is rebased, and ends.
LEMMA ForwardSave ==
  ASSUME IInv, Turns, InTime, Alone, ~Others, ~SavesOverQueue, Rising, SaveAsks,
         SaveOnline \/ SaveOffline \/ Rebase \/ \E c \in calls : SaveAnswered(c) \/ SaveRefused(c)
  PROVE  Rising' /\ SaveAsks'
<1>1. draft \in Values /\ baseline \in Copies /\ baseline.val \in Values /\ AtMost(draft, draft)
  BY Shapes, AtMostOrder
<1>2. CASE SaveOffline
  <2>1. /\ save.stage = "idle" /\ Enqueue(draft, baseline)
        /\ baseline' = [val |-> draft, ver |-> baseline.ver]
        /\ UNCHANGED <<server, calls, save, sync, draft>>
    BY <1>2 DEF SaveOffline, MustSave, QueueForSync
  <2>2. queue' # <<>> /\ queue'[1].app = draft
        /\ queue'[1].base = IF queue = <<>> THEN baseline ELSE queue[1].base
    BY <2>1, Enqueued DEF IInv
  <2>3. \A c \in calls : c.by # "save" BY <2>1 DEF IInv, Linked
  <2>4. queue # <<>> => queue[1].app = baseline.val /\ AtMost(queue[1].app, draft)
    BY DEF Alone, Rising
  <2>5. AtMost(queue'[1].base.val, draft)
    <3>1. CASE queue = <<>> BY <2>2, <3>1 DEF Rising
    <3>2. CASE queue # <<>>
      <4>1. queue[1].base.val \in Values /\ queue[1].app \in Values BY <3>2, Shapes
      <4> QED BY <1>1, <2>2, <2>4, <3>2, <4>1, AtMostOrder DEF Rising
    <3> QED BY <3>1, <3>2
  <2>6. sync.stage # "idle" => AtMost(sync.op.app, draft)
    <3> SUFFICES ASSUME sync.stage # "idle" PROVE AtMost(sync.op.app, draft) OBVIOUS
    <3>1. queue # <<>> BY DEF Turns
    <3>2. sync.op.app \in Values /\ queue[1].app \in Values BY <3>1, Shapes
    <3> QED BY <1>1, <2>4, <3>1, <3>2, AtMostOrder DEF Rising
  <2>7. Rising' BY <1>1, <2>1, <2>2, <2>5, <2>6 DEF Rising, AtMost
  <2> QED BY <2>1, <2>3, <2>7 DEF SaveAsks
<1>3. CASE SaveOnline
  <2> DEFINE d == Call("save", baseline, draft)
  <2>1. /\ save.stage = "idle" /\ queue = <<>> /\ calls' = calls \cup {d}
        /\ save'.target = draft /\ save'.base = baseline
        /\ UNCHANGED <<server, draft, baseline, queue, sync>>
    BY <1>3 DEF SaveOnline, MustSave
  <2>2. d.stage = "sent" /\ d.target = draft /\ d.base = baseline BY DEF Call
  <2> HIDE DEF d
  <2>3. \A c \in calls : c.by # "save" BY <2>1 DEF IInv, Linked
  <2>4. sync.stage = "idle" BY <2>1 DEF Turns
  <2>5. Rising' BY <2>1, <2>4 DEF Rising, AtMost
  <2> QED BY <2>1, <2>2, <2>3, <2>5 DEF SaveAsks
\* A save that ends on the copy it asked for.
<1>4. ASSUME save.stage # "idle", server.val = save.target, NEW copy, copy = server, Saved(copy),
             UNCHANGED <<server, sync>>, \A c \in calls' : c.by # "save"
      PROVE  Rising' /\ SaveAsks'
  <2>1. queue = <<>> /\ queue' = <<>> /\ sync.stage = "idle" /\ save'.stage = "idle"
        /\ baseline' = server /\ draft' = IF draft = save.target THEN server.val ELSE draft
    BY <1>4 DEF Turns, Saved, Without
  <2>2. AtMost(save.target, draft) BY <1>4 DEF InTime, AtMost
  <2>3. draft' = draft BY <1>4, <2>1
  <2>4. AtMost(baseline'.val, draft') BY <1>4, <2>1, <2>2, <2>3
  <2> QED BY <1>4, <2>1, <2>4 DEF Rising, SaveAsks, AtMost
<1>5. CASE Rebase
  <2> DEFINE merged == Merge(save.target, save.base, clock, server)
  <2>1. save.stage = "rebasing" /\ UNCHANGED <<server, sync>> BY <1>5 DEF Rebase
  <2>2. queue = <<>> /\ calls = {} /\ NothingSaved
    BY <2>1 DEF Turns, Alone, IInv, Linked, Typed, CallType, NothingSaved
  <2>3. save.target \in Values /\ save.base \in Copies /\ server \in Copies BY <2>1, Shapes
  <2>4. server.val = save.base.val BY <2>1, <2>2, ServerAsTaken
  <2>5. merged = save.target BY <2>3, <2>4, MergeKeepsOwn
  <2> HIDE DEF merged
  <2>6. CASE merged = server.val /\ Saved(server) /\ UNCHANGED calls
    BY <1>4, <2>1, <2>2, <2>5, <2>6
  <2>7. CASE /\ calls' = calls \cup {Call("save", server, merged)}
             /\ save' = [save EXCEPT !.stage = "sent"] /\ UNCHANGED <<draft, baseline, queue>>
    <3> DEFINE d == Call("save", server, merged)
    <3>1. d.stage = "sent" /\ d.target = merged /\ d.base = server BY DEF Call
    <3> HIDE DEF d
    <3>2. calls' = {d} BY <2>2, <2>7 DEF d
    <3>3. save'.target = save.target /\ save'.base = save.base BY <2>1, <2>7, Shapes
    <3>4. Rising' BY <2>1, <2>7, <3>3 DEF Rising, AtMost
    <3> QED BY <2>1, <2>4, <2>5, <2>7, <3>1, <3>2, <3>3, <3>4 DEF SaveAsks
  <2> QED BY <1>5, <2>6, <2>7 DEF Rebase, merged
<1>6. ASSUME NEW c \in calls, SaveAnswered(c) PROVE Rising' /\ SaveAsks'
  <2>1. /\ c.by = "save" /\ c.stage = "saved" /\ calls = {c} /\ calls' = {} /\ Saved(c.seen)
        /\ UNCHANGED <<server, sync>>
    BY <1>6, OneCall DEF SaveAnswered
  <2>2. save.stage # "idle" /\ server.val = save.target /\ c.seen = server
    BY <2>1 DEF IInv, Linked, SaveAsks, Alone
  <2> QED BY <1>4, <2>1, <2>2
<1>7. ASSUME NEW c \in calls, SaveRefused(c) PROVE Rising' /\ SaveAsks'
  <2>1. /\ c.by = "save" /\ calls = {c} /\ calls' = {}
        /\ UNCHANGED <<server, sync, queue, draft, baseline>>
        /\ save' = [save EXCEPT !.stage = "rebasing", !.tries = @ + 1] \/ save'.stage = "idle"
    BY <1>7, OneCall DEF SaveRefused
  <2>2. save.stage # "idle" BY <2>1 DEF IInv, Linked
  <2>3. save'.stage # "idle" => save'.target = save.target /\ save'.base = save.base
    BY <2>1, <2>2, Shapes
  <2>4. Rising' BY <2>1, <2>2, <2>3 DEF Rising, AtMost
  <2> QED BY <2>1, <2>2, <2>3, <2>4 DEF SaveAsks
<1> QED BY <1>2, <1>3, <1>5, <1>6, <1>7

\* A replay begins, asks, and ends.
LEMMA ForwardReplay ==
  ASSUME IInv, Turns, Alone, ~Others, Rising, SaveAsks,
         SyncStart \/ SyncMerge \/ \E c \in calls : SyncAnswered(c)
  PROVE  Rising' /\ SaveAsks'
<1>1. UNCHANGED <<server, draft, baseline, save>> BY DEF SyncStart, SyncMerge, SyncAnswered
<1>2. \A c \in calls' : c \in calls \/ c.by = "sync"
  BY DEF SyncStart, SyncMerge, SyncAnswered, Call
<1>3. SaveAsks' BY <1>1, <1>2 DEF SaveAsks
<1>4. CASE SyncStart
  <2>1. queue # <<>> /\ sync'.op = queue[1] /\ UNCHANGED queue BY <1>4 DEF SyncStart
  <2>2. queue[1].app \in Values BY <2>1, Shapes
  <2>3. AtMost(queue[1].app, queue[1].app) BY <2>2, AtMostOrder
  <2> QED BY <1>1, <1>3, <2>1, <2>3 DEF Rising, AtMost
<1>5. CASE SyncMerge
  <2>1. CASE SyncEnds(Without({sync.op.at}))
    <3>1. sync'.stage = "idle" /\ (queue' = queue \/ queue' = <<>>) BY <2>1, WithoutIs DEF SyncEnds
    <3> QED BY <1>1, <1>3, <3>1 DEF Rising, AtMost
  <2>2. CASE sync' = [sync EXCEPT !.stage = "sent"] /\ UNCHANGED queue
    <3>1. sync.stage # "idle" /\ sync'.op = sync.op BY <1>5, <2>2, Shapes DEF SyncMerge
    <3> QED BY <1>1, <1>3, <2>2, <3>1 DEF Rising, AtMost
  <2> QED BY <1>5, <2>1, <2>2 DEF SyncMerge
<1>6. ASSUME NEW c \in calls, SyncAnswered(c) PROVE Rising' /\ SaveAsks'
  <2>1. sync'.stage = "idle" /\ c.by = "sync" BY <1>6 DEF SyncAnswered, SyncEnds
  <2>2. CASE UNCHANGED queue BY <1>1, <1>3, <2>1, <2>2 DEF Rising, AtMost
  <2>3. CASE c.stage = "saved" /\ queue' = Acknowledged(sync.op, c.seen)
    <3>1. c.seen = server /\ server.val = sync.op.app /\ server \in Copies
          /\ sync.stage # "idle" /\ queue # <<>>
      BY <2>1, <2>3, Shapes DEF Alone, IInv, Linked, Turns
    <3>2. CASE queue' = <<>> BY <1>1, <1>3, <2>1, <3>2 DEF Rising, AtMost
    <3>3. CASE /\ queue' # <<>> /\ queue'[1].base = c.seen
               /\ \A f \in Fields :
                    queue'[1].app[f] = IF queue[1].app[f] \in {c.seen.val[f], sync.op.app[f]}
                                       THEN c.seen.val[f] ELSE queue[1].app[f]
      <4>1. \A f \in Fields : queue'[1].app[f] = queue[1].app[f] BY <3>1, <3>3
      <4>2. AtMost(sync.op.app, queue[1].app) BY <3>1 DEF Rising
      <4>3. AtMost(queue'[1].base.val, queue'[1].app) BY <3>1, <3>3, <4>1, <4>2 DEF AtMost
      <4> QED BY <1>1, <1>3, <2>1, <4>3 DEF Rising, AtMost
    <3> QED BY <2>2, <2>3, <3>1, <3>2, <3>3, AcknowledgedIs
  <2> QED BY <1>6, <2>2, <2>3 DEF SyncAnswered, SyncEnds
<1> QED BY <1>4, <1>5, <1>6

LEMMA ForwardStep ==
  ASSUME SettleInv, Forward, ~SavesOverQueue, [Next]_vars PROVE Forward'
<1>0. IInv /\ Turns /\ KnownCopies /\ InTime /\ Alone BY DEF SettleInv
<1>1. CASE Others' BY <1>1 DEF Forward
<1>2. ASSUME ~Others' PROVE Forward'
  <2>1. ~Others /\ Rising /\ SaveAsks BY <1>0, <1>2, OthersStay DEF Forward
  <2>2. CASE Aside
    <3>1. UNCHANGED <<baseline, queue, sync, save>> BY <2>2, AsideLeaves
    <3>2. \A f \in Fields : ~EditElsewhere(f) BY <1>0, <1>2, UsesOthers DEF EditElsewhere
    <3>3. CASE \E c \in calls : ServerStep(c)
      BY <1>0, <2>1, <3>3, ForwardServer DEF Forward
    <3>4. CASE UNCHANGED <<server, calls, draft>>
      BY <2>1, <3>1, <3>4 DEF Forward, Rising, SaveAsks, AtMost
    <3>5. ASSUME NEW g \in Fields, Type(g) PROVE Forward'
      <4>1. UNCHANGED <<server, calls>> BY <3>5 DEF Type
      <4>2. clock \in Nat /\ draft' = [draft EXCEPT ![g] = clock + 1] /\ draft \in Values
        BY <1>0, <3>5, Shapes DEF Type
      <4>3. \A f \in Fields : /\ baseline.val[f] \in Nat /\ draft[f] \in Nat /\ draft[f] <= clock
                              /\ draft'[f] = IF f = g THEN clock + 1 ELSE draft[f]
        BY <1>0, <4>2, Shapes DEF Values
      <4>4. AtMost(baseline.val, draft') BY <2>1, <4>2, <4>3 DEF Rising, AtMost
      <4>5. Rising' BY <2>1, <3>1, <4>4 DEF Rising, AtMost
      <4>6. SaveAsks' BY <2>1, <3>1, <4>1 DEF SaveAsks
      <4> QED BY <4>5, <4>6 DEF Forward
    <3> QED BY <2>2, <3>2, <3>3, <3>4, <3>5 DEF Aside, vars, client, GoOffline, GoOnline
  <2>3. ~RebaseFails /\ ~SyncListFails /\ \A c \in calls : ~SaveGivesUp(c) /\ ~SyncGivesUp(c)
    BY <1>0, <1>2, UsesOthers DEF RebaseFails, SyncListFails, SaveGivesUp, SyncGivesUp
  <2> QED BY <1>0, <2>1, <2>2, <2>3, ForwardSave, ForwardReplay, NextIs DEF Forward
<1> QED BY <1>1, <1>2

LEMMA ForwardInit == Init => Forward
<1> SUFFICES ASSUME Init PROVE Rising /\ SaveAsks BY DEF Forward
<1>1. AtMost(baseline.val, draft) BY DEF Init, AtMost
<1> QED BY <1>1 DEF Init, Rising, SaveAsks

\* As long as no other device edits and no request is given up, no field of
\* the server goes back to an earlier edit, whatever is queued, replayed and
\* rebased while the person types and the connection comes and goes (offline.ts,
\* performSaveApplication).  With requests given up it may.
ServerGoesForward ==
  [][used'.elsewhere + used'.losses = 0 =>
       \A f \in Fields : server.val[f] <= server'.val[f]]_vars

THEOREM EditsArriveInOrder == ~SavesOverQueue => (Spec => ServerGoesForward)
<1> SUFFICES ASSUME ~SavesOverQueue PROVE Spec => ServerGoesForward OBVIOUS
<1> DEFINE Inv == SettleInv /\ Forward
           A == used'.elsewhere + used'.losses = 0 =>
                  \A f \in Fields : server.val[f] <= server'.val[f]
<1>1. Init => Inv BY SettleInit, ForwardInit
<1>2. Inv /\ [Next]_vars => Inv' BY SettleInvStep, ForwardStep
<1>3. ASSUME Inv, [Next]_vars PROVE A
  <2> SUFFICES ASSUME used'.elsewhere + used'.losses = 0, NEW f \in Fields
               PROVE  server.val[f] <= server'.val[f]
    OBVIOUS
  <2>1. IInv /\ Turns /\ KnownCopies /\ Alone BY <1>3 DEF SettleInv
  <2>2. ~Others' /\ ~Others /\ Rising /\ SaveAsks
    <3>1. ~Others' BY DEF Others
    <3> QED BY <1>3, <2>1, <3>1, OthersStay DEF Forward
  <2>3. used'.elsewhere = used.elsewhere
    <3>1. used \in UsedType /\ used' \in UsedType BY <1>3, <2>1, IInvStep DEF IInv, Typed
    <3>2. /\ used.elsewhere \in Nat /\ used.losses \in Nat
          /\ used'.elsewhere \in Nat /\ used'.losses \in Nat
      BY <3>1, OfflineAssumption DEF UsedType
    <3>3. used.elsewhere + used.losses <= 0 BY <2>2, <3>2 DEF Others
    <3> QED BY <3>2, <3>3
  <2>4. server \in Copies /\ server.val[f] \in Nat BY <2>1, Shapes
  <2>5. CASE server'.val[f] = server.val[f] BY <2>4, <2>5
  <2>6. CASE server'.val[f] # server.val[f]
    <3>1. PICK c \in calls : c.stage = "checked" /\ c.target[f] = server'.val[f]
      BY <1>3, <2>1, <2>3, <2>6, CommitsOverSeen
    <3>2. calls = {c} /\ c \in CallType /\ c.by # "nobody"
      BY <2>1, <2>2, OneCall DEF Alone, IInv, Typed
    <3>3. NothingSaved BY <3>1, <3>2 DEF NothingSaved
    <3>4. CASE c.by = "save"
      <4>1. save.stage # "idle" /\ c.target = save.target BY <2>1, <2>2, <3>4 DEF IInv, Linked, SaveAsks
      <4>2. server.val = save.base.val BY <2>1, <2>2, <3>3, <4>1, ServerAsTaken
      <4> QED BY <2>2, <3>1, <4>1, <4>2 DEF Rising, AtMost
    <3>5. CASE c.by = "sync"
      <4>1. sync.stage # "idle" /\ c.target = sync.op.app BY <2>1, <2>2, <3>5 DEF IInv, Linked, Alone
      <4>2. server.val = sync.op.base.val BY <2>1, <2>2, <3>3, <4>1, ServerAsTaken
      <4> QED BY <2>2, <3>1, <4>1, <4>2 DEF Rising, AtMost
    <3> QED BY <3>2, <3>4, <3>5 DEF CallType
  <2> QED BY <2>5, <2>6
<1>4. Inv /\ [Next]_vars => [A]_vars BY <1>3
<1> HIDE DEF Inv, A
<1>5. Spec => [][A]_vars BY <1>1, <1>2, <1>4, PTL DEF Spec
<1> QED BY <1>5 DEF ServerGoesForward, A
==============================================================================
