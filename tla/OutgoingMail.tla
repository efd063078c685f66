---------------------------- MODULE OutgoingMail ----------------------------
(***************************************************************************)
(* The durable delivery of mail a user sends: processOutgoingCommunication  *)
(* (server/index.js) over the journal table outgoing_mail_deliveries        *)
(* (server/storage.js), against workspace writes that carry an older copy   *)
(* of the same communications, and against crashes.                         *)
(*                                                                         *)
(* SMTP cannot be asked what became of a message, so the journal keeps the  *)
(* moment before the hand-over, and a message past it is never claimed      *)
(* again.  With an encrypted or external database a commit is durable only  *)
(* once acknowledged; `disk' is the image a restart comes back to.          *)
(*                                                                         *)
(* Left out: message bodies, audit events, attempt counts, an account that  *)
(* is disabled (its mail is not claimed) and an application that is deleted *)
(* (its rows go with it).                                                   *)
(***************************************************************************)
EXTENDS Naturals, FiniteSets

CONSTANTS Mails,         \* communications that have been enqueued
          Workers,       \* calls of processOutgoingCommunication
          Editors,       \* requests that write the application
          MaxActive,     \* OUTGOING_MAIL_MAX_ACTIVE
          SlowClaims,    \* may a claim turn two minutes old with its worker
                         \* still short of the dispatch mark?
          Sealed,        \* does durability need an acknowledgement?
          MaxFailures,   \* bound of the model: failing calls
          MaxCrashes     \* bound of the model: crashes

ASSUME MailAssumption ==
  /\ IsFiniteSet(Workers) /\ Mails # {}
  /\ MaxActive \in Nat \ {0} /\ MaxFailures \in Nat /\ MaxCrashes \in Nat
  /\ SlowClaims \in BOOLEAN /\ Sealed \in BOOLEAN

VARIABLES row,        \* the journal: status; dispatch_started_at set?; due: it
                      \* may be claimed as far as its times go
          resident,   \* deliveryStatus in the application's own payload
          disk,       \* the image a crash comes back to, when Sealed
          at, mail,   \* where each worker stands, and its communication
          snapshot,   \* the copy of `resident' each editor works on
          received,   \* how often the provider may have got the message
          failures, crashes

vars == <<row, resident, disk, at, mail, snapshot, received, failures, crashes>>

Status == {"queued", "sending", "accepted", "sent", "cancelled"}
Rows == [status : Status, dispatched : BOOLEAN, due : BOOLEAN]
Shown == {"none", "queued", "sending", "sent"}
NoCopy == [m \in Mails |-> "unread"]

\* OUTGOING_DELIVERY_STATUS_RANK
Rank == [none |-> 0, queued |-> 1, sending |-> 2, accepted |-> 3, sent |-> 4,
         cancelled |-> 5]

Init ==
  /\ row = [m \in Mails |-> [status |-> "queued", dispatched |-> FALSE, due |-> FALSE]]
  /\ resident = [m \in Mails |-> "queued"]
  /\ disk = [row |-> row, resident |-> resident]
  /\ at = [w \in Workers |-> "idle"]
  /\ mail = [w \in Workers |-> CHOOSE m \in Mails : TRUE]
  /\ snapshot = [e \in Editors |-> NoCopy]
  /\ received = [m \in Mails |-> 0]
  /\ failures = 0
  /\ crashes = 0

------------------------------------------------------------------------------
(* Helpers. *)

Fail == failures < MaxFailures /\ failures' = failures + 1
Works(w, where) == at[w] = where
Goes(w, where) == at' = [at EXCEPT ![w] = where]
Active == {w \in Workers : at[w] # "idle"}
SetRow(m, s, dispatched, due) ==
  row' = [row EXCEPT ![m] = [status |-> s, dispatched |-> dispatched, due |-> due]]
Image == [row |-> row, resident |-> resident]

\* outgoingDeliveryIsClaimable
Claimable(m) ==
  /\ row[m].due
  /\ row[m].status = "queued" \/ (row[m].status = "sending" /\ ~row[m].dispatched)

------------------------------------------------------------------------------
(* Time. *)

\* Mutant: only queued rows come due; a claim whose worker died stays.
TimePassesQueued(m) ==
  /\ ~row[m].due /\ row[m].status = "queued"
  /\ row' = [row EXCEPT ![m].due = TRUE]
  /\ UNCHANGED <<resident, disk, at, mail, snapshot, received, failures, crashes>>

\* A queued row reaches its next attempt; a claim becomes stale.
TimePasses(m) ==
  /\ ~row[m].due
  /\ \/ row[m].status = "queued"
     \/ /\ row[m].status = "sending" /\ ~row[m].dispatched
        /\ SlowClaims \/ \A w \in Workers : at[w] = "claimed" => mail[w] # m
  /\ row' = [row EXCEPT ![m].due = TRUE]
  /\ UNCHANGED <<resident, disk, at, mail, snapshot, received, failures, crashes>>

------------------------------------------------------------------------------
(* The worker. *)

\* claimOutgoingMailDelivery, once the worker is admitted.
Claim(w, m) ==
  /\ at[w] = "idle" /\ Cardinality(Active) < MaxActive
  /\ Claimable(m)
  /\ SetRow(m, "sending", FALSE, FALSE) /\ Goes(w, "claimed")
  /\ mail' = [mail EXCEPT ![w] = m]
  /\ UNCHANGED <<resident, disk, snapshot, received, failures, crashes>>

\* It found the message accepted: only the projection is left to do.
ClaimAccepted(w, m) ==
  /\ at[w] = "idle" /\ Cardinality(Active) < MaxActive
  /\ row[m].status = "accepted"
  /\ Goes(w, "finalizing") /\ mail' = [mail EXCEPT ![w] = m]
  /\ UNCHANGED <<row, resident, disk, snapshot, received, failures, crashes>>

\* retryOutgoingMailDelivery
Retry(m, confirmedNotDispatched) ==
  IF row[m].status = "sending" /\ (row[m].dispatched => confirmedNotDispatched)
    THEN SetRow(m, "queued", FALSE, FALSE) /\ resident' = [resident EXCEPT ![m] = "queued"]
    ELSE UNCHANGED <<row, resident>>

\* No context, or no usable SMTP settings: the claim is given back.
PreflightFails(w) ==
  /\ Works(w, "claimed") /\ Fail
  /\ Retry(mail[w], FALSE) /\ Goes(w, "idle")
  /\ UNCHANGED <<disk, mail, snapshot, received, crashes>>

\* A call before the dispatch mark throws: the claim stays.
PreflightThrows(w) ==
  /\ Works(w, "claimed") /\ Fail
  /\ Goes(w, "idle")
  /\ UNCHANGED <<row, resident, disk, mail, snapshot, received, crashes>>

\* markOutgoingMailDispatching.  It answers with the row also when the mark is
\* another worker's, and the caller looks at the mark only.
MarkDispatching(w) ==
  /\ Works(w, "claimed")
  /\ LET m == mail[w] IN
     IF row[m].status \in {"accepted", "sent"} \/ row[m].dispatched
       THEN Goes(w, IF row[m].dispatched THEN "marked" ELSE "idle") /\ UNCHANGED row
       ELSE IF row[m].status = "sending"
         THEN SetRow(m, "sending", TRUE, FALSE) /\ Goes(w, "marked")
         ELSE Goes(w, "idle") /\ UNCHANGED row
  /\ UNCHANGED <<resident, disk, mail, snapshot, received, failures, crashes>>

\* Mutant: the hand-over does not wait for the mark to be durable.
MarkNotAcknowledged(w) ==
  /\ Works(w, "marked") /\ Goes(w, "ready")
  /\ UNCHANGED <<row, resident, disk, mail, snapshot, received, failures, crashes>>

\* acknowledgeDurableStorageMutation after the mark.
MarkAcknowledged(w) ==
  /\ Works(w, "marked") /\ Goes(w, "ready")
  /\ disk' = Image
  /\ UNCHANGED <<row, resident, mail, snapshot, received, failures, crashes>>

\* No memory, an attachment that is gone, no SMTP account after all: nothing
\* reached a socket.
NotDispatched(w) ==
  /\ Works(w, "ready") /\ Fail
  /\ Retry(mail[w], TRUE) /\ Goes(w, "idle")
  /\ UNCHANGED <<disk, mail, snapshot, received, crashes>>

\* deliverUserComposedEmail opens the connection.
HandOver(w) ==
  /\ Works(w, "ready") /\ Goes(w, "smtp")
  /\ received' = [received EXCEPT ![mail[w]] = @ + 1]
  /\ UNCHANGED <<row, resident, disk, mail, snapshot, failures, crashes>>

\* Mutant: a transport error is taken for proof that nothing was sent.
RetryAfterError(w) ==
  /\ Works(w, "smtp") /\ Fail
  /\ Retry(mail[w], TRUE) /\ Goes(w, "idle")
  /\ UNCHANGED <<disk, mail, snapshot, received, crashes>>

\* A transport error: the outcome is unknown and the mark stays.
OutcomeUnknown(w) ==
  /\ Works(w, "smtp") /\ Fail
  /\ Goes(w, "idle")
  /\ UNCHANGED <<row, resident, disk, mail, snapshot, received, crashes>>

SmtpAccepts(w) ==
  /\ Works(w, "smtp") /\ Goes(w, "returned")
  /\ UNCHANGED <<row, resident, disk, mail, snapshot, received, failures, crashes>>

\* recordOutgoingMailAccepted
RecordAccepted(w) ==
  /\ Works(w, "returned")
  /\ LET m == mail[w] IN
     \/ /\ row[m].status \in {"accepted", "sent"}
        /\ Goes(w, "recorded") /\ UNCHANGED row
     \/ /\ row[m].status = "sending"
        /\ SetRow(m, "accepted", row[m].dispatched, FALSE) /\ Goes(w, "recorded")
     \/ /\ row[m].status \in {"queued", "cancelled"}
        /\ Goes(w, "idle") /\ UNCHANGED row
  /\ UNCHANGED <<resident, disk, mail, snapshot, received, failures, crashes>>

AcceptAcknowledged(w) ==
  /\ Works(w, "recorded") /\ Goes(w, "finalizing")
  /\ disk' = Image
  /\ UNCHANGED <<row, resident, mail, snapshot, received, failures, crashes>>

\* Either acknowledgement may fail; the commit it was for stays.
AcknowledgementFails(w) ==
  /\ at[w] \in {"marked", "recorded"} /\ Fail
  /\ Goes(w, "idle")
  /\ UNCHANGED <<row, resident, disk, mail, snapshot, received, crashes>>

\* Mutant: the journal is closed although the projection failed.
FinalizeRowOnly(w) ==
  /\ Works(w, "finalizing") /\ Goes(w, "idle")
  /\ SetRow(mail[w], "sent", row[mail[w]].dispatched, FALSE)
  /\ UNCHANGED <<resident, disk, mail, snapshot, received, failures, crashes>>

\* finalizeOutgoingMailDelivery
Finalize(w) ==
  /\ Works(w, "finalizing") /\ Goes(w, "idle")
  /\ LET m == mail[w] IN
     IF row[m].status = "accepted"
       THEN /\ SetRow(m, "sent", row[m].dispatched, FALSE)
            /\ resident' = [resident EXCEPT ![m] = "sent"]
       ELSE UNCHANGED <<row, resident>>
  /\ UNCHANGED <<disk, mail, snapshot, received, failures, crashes>>

FinalizeFails(w) ==
  /\ Works(w, "finalizing") /\ Fail
  /\ Goes(w, "idle")
  /\ UNCHANGED <<row, resident, disk, mail, snapshot, received, crashes>>

------------------------------------------------------------------------------
(* Workspace writes.  Retries and projections do not count as changes of the *)
(* tenant, so an editor's copy may be older than the payload.               *)

ReadApplication(e) ==
  /\ snapshot' = [snapshot EXCEPT ![e] = resident]
  /\ UNCHANGED <<row, resident, disk, at, mail, received, failures, crashes>>

\* Mutant: the journal's own status goes into the application.
ReconciledAsJournal(m, shown) ==
  IF row[m].status \in {"sending", "accepted", "sent"} THEN row[m].status ELSE shown

\* Mutant: active mail missing from the copy is not put back.
ReconciledIfPresent(m, shown) ==
  IF shown = "none" \/ row[m].status \notin {"sending", "accepted", "sent"} THEN shown
  ELSE IF row[m].status = "sent" THEN "sent" ELSE "sending"

\* reconcileApplicationWithOutgoingDeliveryJournalRows over the rows in
\* progress: the journal wins unless the copy is ahead of it.
Reconciled(m, shown) ==
  LET s == row[m].status IN
  IF \/ s \notin {"sending", "accepted", "sent"}
     \/ Rank[s] < Rank[shown]
     \/ shown = "none" /\ s = "sent"
    THEN shown
    ELSE IF s = "sent" THEN "sent" ELSE "sending"

\* Mutant: the journal takes the status of the copy.
SyncedToCopy(m, shown, due) ==
  IF shown = "none" THEN [row[m] EXCEPT !.status = "cancelled"]
                    ELSE [row[m] EXCEPT !.status = shown, !.due = due]

\* syncOutgoingMailDeliveriesForApplication: the journal never falls back, and
\* what is neither shown nor dispatched is cancelled.
Synced(m, shown, due) ==
  LET r == row[m] IN
  IF shown = "none"
    THEN IF r.status = "queued" \/ (r.status = "sending" /\ ~r.dispatched)
           THEN [r EXCEPT !.status = "cancelled", !.due = FALSE] ELSE r
    ELSE IF Rank[shown] > Rank[r.status]
           THEN [r EXCEPT !.status = shown, !.due = due]
           ELSE IF r.status = "queued" THEN [r EXCEPT !.due = @ \/ due] ELSE r

\* The write of an editor that removed some of the communications.  The new
\* tenant revision makes every other copy obsolete: their writers read again.
WriteApplication(e, removed) ==
  /\ snapshot[e] # NoCopy
  /\ LET shown == [m \in Mails |->
           Reconciled(m, IF m \in removed THEN "none" ELSE snapshot[e][m])]
     IN /\ \E due \in [Mails -> BOOLEAN] :
             row' = [m \in Mails |-> Synced(m, shown[m], due[m])]
        /\ resident' = shown
  /\ snapshot' = [x \in Editors |-> NoCopy]
  /\ UNCHANGED <<disk, at, mail, received, failures, crashes>>

------------------------------------------------------------------------------
(* The database.  An image is sealed at any time; a crash loses the rest. *)

Seal ==
  /\ Sealed /\ disk # Image
  /\ disk' = Image
  /\ UNCHANGED <<row, resident, at, mail, snapshot, received, failures, crashes>>

Crash ==
  /\ crashes < MaxCrashes /\ crashes' = crashes + 1
  /\ IF Sealed THEN row' = disk.row /\ resident' = disk.resident
               ELSE UNCHANGED <<row, resident>>
  /\ at' = [w \in Workers |-> "idle"]
  /\ snapshot' = [e \in Editors |-> NoCopy]
  /\ UNCHANGED <<disk, mail, received, failures>>

------------------------------------------------------------------------------
Proceed(w) ==
  \/ MarkDispatching(w) \/ MarkAcknowledged(w) \/ HandOver(w) \/ SmtpAccepts(w)
  \/ RecordAccepted(w) \/ AcceptAcknowledged(w) \/ Finalize(w)

GoWrong(w) ==
  \/ PreflightFails(w) \/ PreflightThrows(w) \/ NotDispatched(w) \/ OutcomeUnknown(w)
  \/ AcknowledgementFails(w) \/ FinalizeFails(w)

Next ==
  \/ \E m \in Mails : TimePasses(m) \/ \E w \in Workers : Claim(w, m) \/ ClaimAccepted(w, m)
  \/ \E w \in Workers : Proceed(w) \/ GoWrong(w)
  \/ \E e \in Editors : ReadApplication(e)
  \/ \E e \in Editors, removed \in SUBSET Mails : WriteApplication(e, removed)
  \/ Seal \/ Crash

Spec == Init /\ [][Next]_vars

\* Time passes, a call of a worker ends one way or the other, and the pass over
\* the due rows, every 30 seconds, comes to each of them.
FairSpec ==
  /\ Spec
  /\ \A m \in Mails :
       /\ WF_vars(TimePasses(m))
       /\ SF_vars(\E w \in Workers : Claim(w, m) \/ ClaimAccepted(w, m))
  /\ \A w \in Workers : WF_vars(Proceed(w))

------------------------------------------------------------------------------
(* Properties. *)

Phases == {"idle", "claimed", "marked", "ready", "smtp", "returned", "recorded", "finalizing"}
Images == [row : [Mails -> Rows], resident : [Mails -> Shown]]

TypeOK ==
  /\ row \in [Mails -> Rows]
  /\ resident \in [Mails -> Shown]
  /\ disk \in Images
  /\ at \in [Workers -> Phases] /\ mail \in [Workers -> Mails]
  /\ snapshot \in [Editors -> [Mails -> Shown] \cup {NoCopy}]
  /\ received \in [Mails -> Nat]
  /\ failures \in 0..MaxFailures /\ crashes \in 0..MaxCrashes

\* The row keeps the message from being claimed.
Locked(r) == r.status \in {"accepted", "sent"} \/ (r.status = "sending" /\ r.dispatched)

\* What a restart finds.
Durable == IF Sealed THEN disk ELSE Image

\* "never calls SMTP again without an explicit human/provider decision"
\* (storage.js:21808): the provider gets a message at most once, whatever
\* fails, crashes or is written meanwhile.
SentOnce == \A m \in Mails : received[m] <= 1

\* A message the provider may have is locked, and what a restart would find is
\* locked as well (storage.js:21805-21808).
MaybeSentIsLocked ==
  \A m \in Mails : received[m] > 0 => Locked(row[m]) /\ Locked(Durable.row[m])

\* "Active and accepted work, however, must survive stale whole-application
\* writes" (storage.js:9939): what may still be sent, or has been without the
\* application knowing, is among its communications.
ActiveIsShown ==
  \A m \in Mails :
    row[m].status \in {"queued", "sending", "accepted"} => resident[m] # "none"

\* The journal is closed in the very step that shows the message as sent
\* (finalizeOutgoingMailDelivery), stale copies notwithstanding.  (A crash
\* takes both back together.)
ClosedWhenShown ==
  [][crashes' = crashes => \A m \in Mails :
       (row'[m].status = "sent" /\ row[m].status # "sent")
         <=> (resident'[m] = "sent" /\ resident[m] # "sent")]_vars

\* "The accepted state is the irreversible boundary" (storage.js:5833): once
\* durable it is never left but for sent.
AcceptedIsIrreversible ==
  [][\A m \in Mails :
       Durable.row[m].status \in {"accepted", "sent"}
         => Durable'.row[m].status \in {Durable.row[m].status, "sent"}]_vars

\* A message nobody works on any more is sent or cancelled, or a person must
\* look into it; none is left waiting for ever.
Settled(m) ==
  \/ row[m].status \in {"sent", "cancelled"}
  \/ /\ row[m].status = "sending" /\ row[m].dispatched
     /\ \A w \in Active : mail[w] # m
EverythingSettles == \A m \in Mails : <>[]Settled(m)
==============================================================================
