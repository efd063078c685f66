------------------------ MODULE OutgoingMail_proofs -------------------------
(***************************************************************************)
(* A message reaches the provider at most once, for any number of messages, *)
(* workers, editors, failures and crashes, with or without a database that  *)
(* has to acknowledge its commits: provided deliveries run one at a time or *)
(* a worker never needs two minutes to set the dispatch mark.               *)
(***************************************************************************)
EXTENDS OutgoingMail, FiniteSetTheorems, TLAPS

\* What the guarantee asks of the configuration.
Prompt == SlowClaims = FALSE \/ MaxActive = 1

------------------------------------------------------------------------------
\* At most one worker is between its claim and the journal entry of a message.
Holding == {"claimed", "marked", "ready", "smtp", "returned"}
Exclusive ==
  \A w, v \in Workers :
    at[w] \in Holding /\ at[v] \in Holding /\ mail[w] = mail[v] => w = v

\* What the row of its message says while a worker holds it.
HeldRows ==
  \A w \in Workers :
    /\ at[w] = "claimed" =>
         /\ row[mail[w]].status = "sending" /\ row[mail[w]].dispatched = FALSE
         /\ row[mail[w]].due = TRUE => SlowClaims = TRUE
         /\ received[mail[w]] = 0
    /\ at[w] \in {"marked", "ready"} =>
         /\ row[mail[w]].status = "sending" /\ row[mail[w]].dispatched = TRUE
         /\ received[mail[w]] = 0
    /\ at[w] = "ready" => Locked(Durable.row[mail[w]])
    /\ at[w] \in {"smtp", "returned"} => received[mail[w]] = 1

ReceivedLocked ==
  \A m \in Mails :
    /\ received[m] \in {0, 1}
    /\ received[m] = 1 => Locked(row[m]) /\ Locked(Durable.row[m])

\* Nothing shows a message as sent before the journal does.
ShownSentIsSent ==
  /\ \A m \in Mails : resident[m] = "sent" => row[m].status = "sent"
  /\ \A m \in Mails : disk.resident[m] = "sent" => disk.row[m].status = "sent"
  /\ \A e \in Editors, m \in Mails : snapshot[e][m] = "sent" => row[m].status = "sent"

Inv == TypeOK /\ Exclusive /\ HeldRows /\ ReceivedLocked /\ ShownSentIsSent

------------------------------------------------------------------------------
\* A workspace write leaves the row of a message in progress as it is, and a
\* row it changes stays short of sent.
LEMMA WritesSpareActiveRows ==
  ASSUME TypeOK, NEW m \in Mails, NEW copy \in Shown, NEW due \in BOOLEAN,
         copy = "sent" => row[m].status = "sent"
  PROVE  /\ row[m].status \in {"sending", "accepted", "sent"} =>
              Synced(m, Reconciled(m, copy), due) = row[m]
         /\ Synced(m, Reconciled(m, copy), due) \in Rows
         /\ Reconciled(m, copy) \in Shown
         /\ Reconciled(m, copy) = "sent" => row[m].status = "sent"
         /\ (row[m].status \notin {"sending", "accepted", "sent"}) =>
              Synced(m, Reconciled(m, copy), due).status \notin {"accepted", "sent"}
<1> DEFINE r == row[m]
<1>1. r \in Rows BY DEF TypeOK
<1>2. /\ Rank["none"] = 0 /\ Rank["queued"] = 1 /\ Rank["sending"] = 2
      /\ Rank["accepted"] = 3 /\ Rank["sent"] = 4 /\ Rank["cancelled"] = 5
  BY DEF Rank
<1>3. Reconciled(m, copy) \in Shown BY DEF Reconciled, Shown
<1>4. CASE r.status \in {"sending", "accepted", "sent"}
  <2>1. copy = "none" /\ r.status = "sent" => Reconciled(m, copy) = "none"
    BY DEF Reconciled
  <2>2. ~(copy = "none" /\ r.status = "sent") =>
          Reconciled(m, copy) = IF r.status = "sent" THEN "sent" ELSE "sending"
    BY <1>2, <1>4 DEF Reconciled, Shown
  <2> QED BY <1>1, <1>2, <1>3, <1>4, <2>1, <2>2 DEF Synced, Rows
<1>5. CASE r.status \notin {"sending", "accepted", "sent"}
  <2>1. Reconciled(m, copy) = copy BY <1>5 DEF Reconciled
  <2>2. copy \in {"none", "queued", "sending"} BY <1>5 DEF Shown
  <2> QED BY <1>1, <1>2, <1>5, <2>1, <2>2 DEF Synced, Rows, Shown, Status
<1> QED BY <1>4, <1>5

------------------------------------------------------------------------------
LEMMA InvInit == Init => Inv
<1> SUFFICES ASSUME Init PROVE Inv OBVIOUS
<1>1. TypeOK
  <2>1. row \in [Mails -> Rows] BY DEF Init, Rows, Status
  <2>2. resident \in [Mails -> Shown] BY DEF Init, Shown
  <2>3. disk \in Images BY <2>1, <2>2 DEF Init, Images
  <2>4. at \in [Workers -> Phases] /\ mail \in [Workers -> Mails]
    BY MailAssumption DEF Init, Phases
  <2> QED BY <2>1, <2>2, <2>3, <2>4, MailAssumption DEF Init, TypeOK
<1> QED BY <1>1 DEF Init, Inv, Exclusive, Holding, HeldRows, ReceivedLocked, ShownSentIsSent, NoCopy

------------------------------------------------------------------------------
(* Types. *)

LEMMA SetRowType ==
  ASSUME row \in [Mails -> Rows], NEW m \in Mails, NEW s \in Status,
         NEW d \in BOOLEAN, NEW due \in BOOLEAN, SetRow(m, s, d, due)
  PROVE  row' \in [Mails -> Rows]
BY DEF SetRow, Rows

LEMMA RetryType ==
  ASSUME row \in [Mails -> Rows], resident \in [Mails -> Shown],
         NEW m \in Mails, NEW c \in BOOLEAN, Retry(m, c)
  PROVE  row' \in [Mails -> Rows] /\ resident' \in [Mails -> Shown]
BY SetRowType DEF Retry, Status, Shown

LEMMA FailType ==
  ASSUME failures \in 0..MaxFailures, Fail PROVE failures' \in 0..MaxFailures
BY MailAssumption DEF Fail

LEMMA GoesType ==
  ASSUME at \in [Workers -> Phases], NEW w \in Workers, NEW p \in Phases, Goes(w, p)
  PROVE  at' \in [Workers -> Phases]
BY DEF Goes

LEMMA TypeStep == TypeOK /\ [Next]_vars => TypeOK'
<1> SUFFICES ASSUME TypeOK, [Next]_vars PROVE TypeOK' OBVIOUS
<1> USE DEF TypeOK
<1> /\ "idle" \in Phases /\ "claimed" \in Phases /\ "marked" \in Phases /\ "ready" \in Phases
    /\ "smtp" \in Phases /\ "returned" \in Phases /\ "recorded" \in Phases
    /\ "finalizing" \in Phases
  BY DEF Phases
<1> \A s \in {"queued", "sending", "accepted", "sent", "cancelled"} : s \in Status BY DEF Status
<1> \A m \in Mails : row[m].dispatched \in BOOLEAN /\ row[m].due \in BOOLEAN BY DEF Rows
<1> Image \in Images BY DEF Image, Images
<1>1. ASSUME NEW m \in Mails, TimePasses(m) PROVE TypeOK'
  <2>1. row' \in [Mails -> Rows] BY <1>1 DEF TimePasses, Rows
  <2> QED BY <1>1, <2>1 DEF TimePasses
<1>2. ASSUME NEW m \in Mails, NEW w \in Workers, Claim(w, m) PROVE TypeOK'
  <2>1. row' \in [Mails -> Rows] BY <1>2, SetRowType DEF Claim
  <2> QED BY <1>2, <2>1, GoesType DEF Claim
<1>3. ASSUME NEW m \in Mails, NEW w \in Workers, ClaimAccepted(w, m) PROVE TypeOK'
  BY <1>3, GoesType DEF ClaimAccepted
<1>4. ASSUME NEW w \in Workers, MarkDispatching(w) PROVE TypeOK'
  <2>1. row' \in [Mails -> Rows] BY <1>4, SetRowType DEF MarkDispatching
  <2>2. at' \in [Workers -> Phases] BY <1>4, GoesType DEF MarkDispatching
  <2> QED BY <1>4, <2>1, <2>2 DEF MarkDispatching
<1>5. ASSUME NEW w \in Workers, MarkAcknowledged(w) PROVE TypeOK'
  BY <1>5, GoesType DEF MarkAcknowledged
<1>6. ASSUME NEW w \in Workers, HandOver(w) PROVE TypeOK'
  BY <1>6, GoesType DEF HandOver
<1>7. ASSUME NEW w \in Workers, SmtpAccepts(w) PROVE TypeOK'
  BY <1>7, GoesType DEF SmtpAccepts
<1>8. ASSUME NEW w \in Workers, RecordAccepted(w) PROVE TypeOK'
  <2>1. row' \in [Mails -> Rows] BY <1>8, SetRowType DEF RecordAccepted
  <2>2. at' \in [Workers -> Phases] BY <1>8, GoesType DEF RecordAccepted
  <2> QED BY <1>8, <2>1, <2>2 DEF RecordAccepted
<1>9. ASSUME NEW w \in Workers, AcceptAcknowledged(w) PROVE TypeOK'
  BY <1>9, GoesType DEF AcceptAcknowledged
<1>10. ASSUME NEW w \in Workers, Finalize(w) PROVE TypeOK'
  <2> DEFINE m == mail[w]
  <2>0. m \in Mails BY <1>10
  <2>1. row' \in [Mails -> Rows]
    <3>1. CASE row[m].status = "accepted"
      <4>1. SetRow(m, "sent", row[m].dispatched, FALSE) BY <1>10, <3>1 DEF Finalize
      <4> QED BY <2>0, <4>1, SetRowType
    <3>2. CASE row[m].status # "accepted" BY <1>10, <3>2 DEF Finalize
    <3> QED BY <3>1, <3>2
  <2>2. resident' \in [Mails -> Shown] BY <1>10 DEF Finalize, Shown
  <2> QED BY <1>10, <2>1, <2>2, GoesType DEF Finalize
<1>11. ASSUME NEW w \in Workers, PreflightFails(w) PROVE TypeOK'
  <2>1. row' \in [Mails -> Rows] /\ resident' \in [Mails -> Shown]
    BY <1>11, RetryType DEF PreflightFails
  <2> QED BY <1>11, <2>1, GoesType, FailType DEF PreflightFails
<1>12. ASSUME NEW w \in Workers, PreflightThrows(w) PROVE TypeOK'
  BY <1>12, GoesType, FailType DEF PreflightThrows
<1>13. ASSUME NEW w \in Workers, NotDispatched(w) PROVE TypeOK'
  <2>1. row' \in [Mails -> Rows] /\ resident' \in [Mails -> Shown]
    BY <1>13, RetryType DEF NotDispatched
  <2> QED BY <1>13, <2>1, GoesType, FailType DEF NotDispatched
<1>14. ASSUME NEW w \in Workers, OutcomeUnknown(w) PROVE TypeOK'
  BY <1>14, GoesType, FailType DEF OutcomeUnknown
<1>15. ASSUME NEW w \in Workers, AcknowledgementFails(w) PROVE TypeOK'
  BY <1>15, GoesType, FailType DEF AcknowledgementFails
<1>16. ASSUME NEW w \in Workers, FinalizeFails(w) PROVE TypeOK'
  BY <1>16, GoesType, FailType DEF FinalizeFails
<1>17. ASSUME NEW e \in Editors, ReadApplication(e) PROVE TypeOK'
  BY <1>17 DEF ReadApplication
<1>18. ASSUME NEW e \in Editors, NEW removed \in SUBSET Mails, WriteApplication(e, removed)
       PROVE TypeOK'
  <2>1. snapshot[e] \in [Mails -> Shown] BY <1>18 DEF WriteApplication
  <2>2. "none" \in Shown BY DEF Shown
  <2>3. \A m \in Mails, c \in Shown, due \in BOOLEAN :
          Reconciled(m, c) \in Shown /\ (\A s \in Shown : Synced(m, s, due) \in Rows)
    <3> TAKE m \in Mails, c \in Shown, due \in BOOLEAN
    <3>1. Reconciled(m, c) \in Shown BY DEF Reconciled, Shown
    <3>2. ASSUME NEW s \in Shown PROVE Synced(m, s, due) \in Rows
      <4>1. row[m] \in Rows OBVIOUS
      <4>2. s # "none" => s \in Status BY DEF Shown, Status
      <4> QED BY <4>1, <4>2 DEF Synced, Rows, Status
    <3> QED BY <3>1, <3>2
  <2>4. resident' \in [Mails -> Shown] BY <1>18, <2>1, <2>2, <2>3 DEF WriteApplication
  <2>5. \E due \in [Mails -> BOOLEAN] :
          row' = [m \in Mails |-> Synced(m, resident'[m], due[m])]
    BY <1>18 DEF WriteApplication
  <2>6. row' \in [Mails -> Rows]
    <3>1. PICK due \in [Mails -> BOOLEAN] :
            row' = [m \in Mails |-> Synced(m, resident'[m], due[m])] BY <2>5
    <3>2. \A m \in Mails : resident'[m] \in Shown /\ due[m] \in BOOLEAN BY <2>4
    <3>3. \A m \in Mails : Synced(m, resident'[m], due[m]) \in Rows BY <2>3, <3>2
    <3> HIDE DEF TypeOK
    <3> QED BY <3>1, <3>3
  <2>7. snapshot' \in [Editors -> [Mails -> Shown] \cup {NoCopy}] BY <1>18 DEF WriteApplication
  <2> QED BY <1>18, <2>4, <2>6, <2>7 DEF WriteApplication
<1>19. CASE Seal BY <1>19 DEF Seal
<1>20. CASE Crash
  <2>1. row' \in [Mails -> Rows] /\ resident' \in [Mails -> Shown] BY <1>20 DEF Crash, Images
  <2>2. crashes' \in 0..MaxCrashes BY <1>20, MailAssumption DEF Crash
  <2> QED BY <1>20, <2>1, <2>2 DEF Crash
<1>21. CASE UNCHANGED vars BY <1>21 DEF vars
<1> QED BY <1>1, <1>2, <1>3, <1>4, <1>5, <1>6, <1>7, <1>8, <1>9, <1>10, <1>11, <1>12, <1>13,
           <1>14, <1>15, <1>16, <1>17, <1>18, <1>19, <1>20, <1>21
        DEF Next, Proceed, GoWrong

------------------------------------------------------------------------------
(* The steps. *)

Parts == Exclusive /\ HeldRows /\ ReceivedLocked /\ ShownSentIsSent

\* A worker that lets go of its message, or turns to one that is accepted.
LEMMA LettingGo ==
  ASSUME Inv, NEW w \in Workers, NEW p \in {"idle", "recorded", "finalizing"},
         at' = [at EXCEPT ![w] = p],
         \A v \in Workers : v # w => mail'[v] = mail[v],
         UNCHANGED <<row, resident, disk, snapshot, received>>
  PROVE  Parts'
<1> USE DEF Inv, TypeOK
<1>1. \A v \in Workers : at'[v] \in Holding => v # w /\ at[v] = at'[v] /\ mail[v] = mail'[v]
  BY DEF Holding
<1>2. Durable' = Durable BY DEF Durable, Image
<1>3. Exclusive' BY <1>1 DEF Exclusive
<1>4. HeldRows' BY <1>1, <1>2 DEF HeldRows, Holding
<1>5. ReceivedLocked' BY <1>2 DEF ReceivedLocked
<1>6. ShownSentIsSent' BY DEF ShownSentIsSent
<1> QED BY <1>3, <1>4, <1>5, <1>6 DEF Parts

\* The message is given back while nobody else holds it and nothing was sent.
LEMMA GivingBack ==
  ASSUME Inv, NEW w \in Workers, NEW c \in BOOLEAN, at[w] \in {"claimed", "ready"},
         Retry(mail[w], c), at' = [at EXCEPT ![w] = "idle"],
         UNCHANGED <<disk, mail, snapshot, received>>
  PROVE  Parts'
<1> USE DEF Inv, TypeOK
<1> DEFINE m == mail[w]
<1>1. m \in Mails /\ received[m] = 0 BY DEF HeldRows
<1>2. \A v \in Workers : at'[v] \in Holding => v # w /\ at[v] = at'[v] /\ mail[v] # m
  BY DEF Holding, Exclusive
<1>3. \A n \in Mails : n # m => row'[n] = row[n] /\ resident'[n] = resident[n]
  BY <1>1 DEF Retry, SetRow
<1>4. \A n \in Mails : n # m => Durable'.row[n] = Durable.row[n]
  BY <1>3 DEF Durable, Image
<1>5. Exclusive' BY <1>2 DEF Exclusive
<1>6. HeldRows' BY <1>2, <1>3, <1>4 DEF HeldRows, Holding
<1>7. ReceivedLocked' BY <1>1, <1>3, <1>4 DEF ReceivedLocked
<1>8. row[m].status = "sending" BY DEF HeldRows
<1>9. ShownSentIsSent'
  <2>1. resident'[m] # "sent" BY <1>1, <1>8 DEF Retry, ShownSentIsSent
  <2>2. \A e \in Editors : snapshot[e][m] # "sent" BY <1>1, <1>8 DEF ShownSentIsSent
  <2> QED BY <1>3, <2>1, <2>2 DEF ShownSentIsSent
<1> QED BY <1>5, <1>6, <1>7, <1>9 DEF Parts

LEMMA ClaimStep ==
  ASSUME Inv, Prompt, NEW m \in Mails, NEW w \in Workers, Claim(w, m)
  PROVE  Parts'
<1> USE DEF Inv, TypeOK
<1>1. /\ at[w] = "idle" /\ Claimable(m) /\ Cardinality(Active) < MaxActive
      /\ at' = [at EXCEPT ![w] = "claimed"] /\ mail' = [mail EXCEPT ![w] = m]
      /\ row' = [row EXCEPT ![m] = [status |-> "sending", dispatched |-> FALSE, due |-> FALSE]]
      /\ UNCHANGED <<resident, disk, snapshot, received>>
  BY DEF Claim, Goes, SetRow
<1>2. ~Locked(row[m]) BY <1>1 DEF Claimable, Locked
<1>3. received[m] = 0 BY <1>2 DEF ReceivedLocked
<1>4. ASSUME NEW v \in Workers, at[v] \in Holding PROVE mail[v] # m
  <2> SUFFICES ASSUME mail[v] = m PROVE FALSE OBVIOUS
  <2>1. at[v] = "claimed" BY <1>1, <1>2, <1>3, <1>4 DEF HeldRows, Holding, Locked
  <2>2. SlowClaims = TRUE BY <1>1, <2>1 DEF HeldRows, Claimable
  <2>3. MaxActive = 1 BY <2>2 DEF Prompt
  <2>4. IsFiniteSet(Active) BY MailAssumption, FS_Subset DEF Active
  <2>5. Cardinality(Active) = 0 BY <1>1, <2>3, <2>4, FS_CardinalityType
  <2>6. Active = {} BY <2>4, <2>5, FS_EmptySet
  <2> QED BY <2>1, <2>6 DEF Active
<1>5. \A v \in Workers : at'[v] \in Holding /\ v # w =>
        at[v] = at'[v] /\ mail[v] = mail'[v] /\ mail[v] # m
  BY <1>1, <1>4 DEF Holding
<1>6. mail'[w] = m /\ at'[w] = "claimed" /\ row'[m].status = "sending"
      /\ row'[m].dispatched = FALSE /\ row'[m].due = FALSE
  BY <1>1
<1>7. \A n \in Mails : n # m => row'[n] = row[n] BY <1>1
<1>8. \A n \in Mails : n # m => Durable'.row[n] = Durable.row[n]
  BY <1>1, <1>7 DEF Durable, Image
<1>9. Exclusive' BY <1>5, <1>6 DEF Exclusive
<1>10. HeldRows'
  <2> SUFFICES ASSUME NEW v \in Workers, at'[v] \in Holding
               PROVE  HeldRows!(v)'
    BY DEF HeldRows, Holding
  <2> QED BY <1>1, <1>3, <1>5, <1>6, <1>7, <1>8 DEF HeldRows, Holding
<1>11. ReceivedLocked' BY <1>1, <1>3, <1>7, <1>8 DEF ReceivedLocked
<1>12. row[m].status # "sent" BY <1>2 DEF Locked
<1>13. ShownSentIsSent' BY <1>1, <1>7, <1>12 DEF ShownSentIsSent
<1> QED BY <1>9, <1>10, <1>11, <1>13 DEF Parts

LEMMA TimePassesStep ==
  ASSUME Inv, NEW m \in Mails, TimePasses(m) PROVE Parts'
<1> USE DEF Inv, TypeOK
<1>1. /\ row' = [row EXCEPT ![m].due = TRUE]
      /\ UNCHANGED <<resident, disk, at, mail, snapshot, received>>
  BY DEF TimePasses
<1>2. \A n \in Mails : row'[n].status = row[n].status /\ row'[n].dispatched = row[n].dispatched
  BY <1>1 DEF Rows
<1>3. \A n \in Mails : Locked(row'[n]) <=> Locked(row[n]) BY <1>2 DEF Locked
<1>4. \A n \in Mails : Locked(Durable.row[n]) => Locked(Durable'.row[n])
  BY <1>1, <1>3 DEF Durable, Image
<1>5. \A v \in Workers : at[v] = "claimed" /\ row'[mail[v]].due = TRUE => SlowClaims = TRUE
  <2> SUFFICES ASSUME NEW v \in Workers, at[v] = "claimed", row'[mail[v]].due = TRUE
               PROVE  SlowClaims = TRUE
    OBVIOUS
  <2>1. CASE mail[v] = m
    <3>1. row[m].status = "sending" BY <2>1 DEF HeldRows
    <3> QED BY <2>1, <3>1, MailAssumption DEF TimePasses
  <2>2. CASE mail[v] # m
    <3>1. row'[mail[v]] = row[mail[v]] BY <1>1, <2>2
    <3> QED BY <3>1 DEF HeldRows
  <2> QED BY <2>1, <2>2
<1>6. Exclusive' BY <1>1 DEF Exclusive
<1>7. HeldRows' BY <1>1, <1>2, <1>4, <1>5 DEF HeldRows
<1>8. ReceivedLocked' BY <1>1, <1>3, <1>4 DEF ReceivedLocked
<1>9. ShownSentIsSent' BY <1>1, <1>2 DEF ShownSentIsSent
<1> QED BY <1>6, <1>7, <1>8, <1>9 DEF Parts

\* Only the holder of the claim sets the mark.
LEMMA MarkStep ==
  ASSUME Inv, NEW w \in Workers, MarkDispatching(w) PROVE Parts'
<1> USE DEF Inv, TypeOK
<1> DEFINE m == mail[w]
<1>1. /\ at[w] = "claimed" /\ m \in Mails /\ row[m].status = "sending"
      /\ row[m].dispatched = FALSE /\ received[m] = 0
  BY DEF MarkDispatching, Works, HeldRows
<1>2. /\ row' = [row EXCEPT ![m] = [status |-> "sending", dispatched |-> TRUE, due |-> FALSE]]
      /\ at' = [at EXCEPT ![w] = "marked"]
      /\ UNCHANGED <<resident, disk, mail, snapshot, received>>
  BY <1>1 DEF MarkDispatching, SetRow, Goes
<1>3. \A v \in Workers : at'[v] \in Holding /\ v # w => at[v] = at'[v] /\ mail[v] # m
  BY <1>1, <1>2 DEF Holding, Exclusive
<1>4. \A n \in Mails : n # m => row'[n] = row[n] BY <1>2
<1>5. \A n \in Mails : n # m => Durable'.row[n] = Durable.row[n]
  BY <1>2, <1>4 DEF Durable, Image
<1>6. Exclusive' BY <1>2, <1>3 DEF Exclusive
<1>7. row'[m].status = "sending" /\ row'[m].dispatched = TRUE /\ at'[w] = "marked" BY <1>1, <1>2
<1>8. HeldRows' BY <1>1, <1>2, <1>3, <1>4, <1>5, <1>7 DEF HeldRows, Holding
<1>9. ReceivedLocked' BY <1>1, <1>2, <1>4, <1>5 DEF ReceivedLocked
<1>10. ShownSentIsSent' BY <1>1, <1>2, <1>4 DEF ShownSentIsSent
<1> QED BY <1>6, <1>8, <1>9, <1>10 DEF Parts

\* The image is sealed: by an acknowledgement, or in the background.
LEMMA SealedAgrees ==
  ASSUME Inv, disk' = Image, UNCHANGED <<row, resident, mail, snapshot, received>>
  PROVE  /\ \A m \in Mails : Durable'.row[m] = row[m]
         /\ ReceivedLocked' /\ ShownSentIsSent'
         /\ \A v \in Workers : at[v] = "ready" => Locked(Durable'.row[mail[v]])
<1> USE DEF Inv, TypeOK
<1>1. \A m \in Mails : Durable'.row[m] = row[m] /\ disk'.row[m] = row[m]
                        /\ disk'.resident[m] = resident[m]
  BY DEF Durable, Image
<1>2. ReceivedLocked' BY <1>1 DEF ReceivedLocked
<1>3. ShownSentIsSent' BY <1>1 DEF ShownSentIsSent
<1>4. \A v \in Workers : at[v] = "ready" => Locked(Durable'.row[mail[v]])
  BY <1>1 DEF HeldRows, Locked
<1> QED BY <1>1, <1>2, <1>3, <1>4

LEMMA AcknowledgeStep ==
  ASSUME Inv, Seal \/ \E w \in Workers : MarkAcknowledged(w) \/ AcceptAcknowledged(w)
  PROVE  Parts'
<1> USE DEF Inv, TypeOK
<1>1. disk' = Image /\ UNCHANGED <<row, resident, mail, snapshot, received>>
  BY DEF MarkAcknowledged, AcceptAcknowledged, Seal
<1>2. \A v \in Workers : \/ at'[v] = at[v]
                         \/ at[v] = "marked" /\ at'[v] = "ready"
                         \/ at'[v] = "finalizing"
  BY DEF MarkAcknowledged, AcceptAcknowledged, Seal, Works, Goes
<1>3. Exclusive' BY <1>1, <1>2 DEF Exclusive, Holding
<1>4. \A v \in Workers : at'[v] = "ready" => Locked(Durable'.row[mail[v]])
  <2> SUFFICES ASSUME NEW v \in Workers, at'[v] = "ready"
               PROVE  Locked(Durable'.row[mail[v]])
    OBVIOUS
  <2>1. at[v] \in {"marked", "ready"} BY <1>2
  <2>2. Locked(row[mail[v]]) BY <2>1 DEF HeldRows, Locked
  <2>3. Durable'.row[mail[v]] = row[mail[v]] BY <1>1, SealedAgrees
  <2> QED BY <2>2, <2>3
<1>5. HeldRows' BY <1>1, <1>2, <1>4 DEF HeldRows
<1>6. ReceivedLocked' /\ ShownSentIsSent' BY <1>1, SealedAgrees
<1> QED BY <1>3, <1>5, <1>6 DEF Parts

LEMMA HandOverStep ==
  ASSUME Inv, NEW w \in Workers, HandOver(w) PROVE Parts'
<1> USE DEF Inv, TypeOK
<1> DEFINE m == mail[w]
<1>1. /\ at[w] = "ready" /\ m \in Mails /\ received[m] = 0
      /\ Locked(row[m]) /\ Locked(Durable.row[m])
  BY DEF HandOver, Works, HeldRows, Locked
<1>2. /\ at' = [at EXCEPT ![w] = "smtp"] /\ received' = [received EXCEPT ![m] = @ + 1]
      /\ UNCHANGED <<row, resident, disk, mail, snapshot>>
  BY DEF HandOver, Goes
<1>3. received'[m] = 1 /\ \A n \in Mails : n # m => received'[n] = received[n]
  BY <1>1, <1>2
<1>4. \A v \in Workers : at'[v] \in Holding /\ v # w => at[v] = at'[v] /\ mail[v] # m
  BY <1>1, <1>2 DEF Holding, Exclusive
<1>5. Durable' = Durable BY <1>2 DEF Durable, Image
<1>6. Exclusive' BY <1>2, <1>4 DEF Exclusive
<1>7. HeldRows' BY <1>1, <1>2, <1>3, <1>4, <1>5 DEF HeldRows, Holding
<1>8. ReceivedLocked' BY <1>1, <1>2, <1>3, <1>5 DEF ReceivedLocked
<1>9. ShownSentIsSent' BY <1>2 DEF ShownSentIsSent
<1> QED BY <1>6, <1>7, <1>8, <1>9 DEF Parts

LEMMA SmtpAcceptsStep ==
  ASSUME Inv, NEW w \in Workers, SmtpAccepts(w) PROVE Parts'
<1> USE DEF Inv, TypeOK
<1>1. /\ at[w] = "smtp" /\ at' = [at EXCEPT ![w] = "returned"]
      /\ UNCHANGED <<row, resident, disk, mail, snapshot, received>>
  BY DEF SmtpAccepts, Works, Goes
<1>2. Durable' = Durable BY <1>1 DEF Durable, Image
<1>3. Exclusive' BY <1>1 DEF Exclusive, Holding
<1>4. HeldRows' BY <1>1, <1>2 DEF HeldRows
<1>5. ReceivedLocked' BY <1>1, <1>2 DEF ReceivedLocked
<1>6. ShownSentIsSent' BY <1>1 DEF ShownSentIsSent
<1> QED BY <1>3, <1>4, <1>5, <1>6 DEF Parts

\* A row that ends accepted or sent was locked before, and stays so.
LEMMA ClosingStep ==
  ASSUME Inv, NEW w \in Workers, RecordAccepted(w) \/ Finalize(w) PROVE Parts'
<1> USE DEF Inv, TypeOK
<1> DEFINE m == mail[w]
<1>1. m \in Mails /\ UNCHANGED <<disk, mail, snapshot, received>>
  BY DEF RecordAccepted, Finalize
<1>2. \A v \in Workers : v # w => at'[v] = at[v]
  BY DEF RecordAccepted, Finalize, Goes
<1>3. at'[w] \in {"idle", "recorded"} BY DEF RecordAccepted, Finalize, Goes
<1>4. \A n \in Mails : n # m => row'[n] = row[n] /\ resident'[n] = resident[n]
  BY <1>1 DEF RecordAccepted, Finalize, SetRow
<1>5. \/ row'[m] = row[m] /\ resident'[m] = resident[m]
      \/ /\ RecordAccepted(w) /\ row[m].status = "sending"
         /\ row'[m].status = "accepted" /\ resident'[m] = resident[m]
      \/ Finalize(w) /\ row[m].status = "accepted" /\ row'[m].status = "sent"
  BY <1>1 DEF RecordAccepted, Finalize, SetRow
<1>6. \A n \in Mails : Locked(row[n]) => Locked(row'[n]) BY <1>4, <1>5 DEF Locked
<1>7. \A n \in Mails : Locked(Durable.row[n]) => Locked(Durable'.row[n])
  BY <1>1, <1>6 DEF Durable, Image
<1>8. \A v \in Workers : at'[v] \in Holding => v # w /\ at'[v] = at[v]
  BY <1>2, <1>3 DEF Holding
<1>9. \A v \in Workers : at'[v] \in {"claimed", "marked", "ready"} => row'[mail[v]] = row[mail[v]]
  <2> SUFFICES ASSUME NEW v \in Workers, at'[v] \in {"claimed", "marked", "ready"},
                      row'[mail[v]] # row[mail[v]]
               PROVE  FALSE
    OBVIOUS
  <2>1. v # w /\ at[v] = at'[v] BY <1>8 DEF Holding
  <2>2. mail[v] = m BY <1>4
  <2>3. row[m].status = "sending" BY <2>1, <2>2 DEF HeldRows
  <2>4. RecordAccepted(w) BY <1>5, <2>2, <2>3
  <2>5. at[w] = "returned" BY <2>4 DEF RecordAccepted, Works
  <2> QED BY <2>1, <2>2, <2>5 DEF Exclusive, Holding
<1>10. Exclusive' BY <1>1, <1>8 DEF Exclusive
<1>11. HeldRows'
  <2>1. \A v \in Workers : at'[v] = "ready" => Locked(Durable'.row[mail[v]])
    BY <1>7, <1>8 DEF HeldRows, Holding
  <2> QED BY <1>1, <1>8, <1>9, <2>1 DEF HeldRows, Holding
<1>12. ReceivedLocked' BY <1>1, <1>6, <1>7 DEF ReceivedLocked
<1>13. ShownSentIsSent' BY <1>1, <1>4, <1>5 DEF ShownSentIsSent
<1> QED BY <1>10, <1>11, <1>12, <1>13 DEF Parts

LEMMA ReadStep ==
  ASSUME Inv, NEW e \in Editors, ReadApplication(e) PROVE Parts'
<1> USE DEF Inv, TypeOK
<1>1. /\ snapshot' = [snapshot EXCEPT ![e] = resident]
      /\ UNCHANGED <<row, resident, disk, at, mail, received>>
  BY DEF ReadApplication
<1>2. Durable' = Durable BY <1>1 DEF Durable, Image
<1>3. Exclusive' BY <1>1 DEF Exclusive
<1>4. HeldRows' BY <1>1, <1>2 DEF HeldRows
<1>5. ReceivedLocked' BY <1>1, <1>2 DEF ReceivedLocked
<1>6. ShownSentIsSent' BY <1>1 DEF ShownSentIsSent
<1> QED BY <1>3, <1>4, <1>5, <1>6 DEF Parts

LEMMA WriteStep ==
  ASSUME Inv, NEW e \in Editors, NEW removed \in SUBSET Mails, WriteApplication(e, removed)
  PROVE  Parts'
<1> USE DEF Inv, TypeOK
<1> DEFINE copy(m) == IF m \in removed THEN "none" ELSE snapshot[e][m]
<1>1. snapshot[e] \in [Mails -> Shown] BY DEF WriteApplication
<1>2. \A m \in Mails : copy(m) \in Shown /\ (copy(m) = "sent" => row[m].status = "sent")
  BY <1>1 DEF Shown, ShownSentIsSent
<1>3. PICK due \in [Mails -> BOOLEAN] :
        row' = [m \in Mails |-> Synced(m, Reconciled(m, copy(m)), due[m])]
  BY DEF WriteApplication
<1>4. /\ resident' = [m \in Mails |-> Reconciled(m, copy(m))]
      /\ snapshot' = [x \in Editors |-> NoCopy]
      /\ UNCHANGED <<disk, at, mail, received>>
  BY DEF WriteApplication
<1> HIDE DEF copy
<1>5. ASSUME NEW m \in Mails
      PROVE  /\ row[m].status \in {"sending", "accepted", "sent"} => row'[m] = row[m]
             /\ resident'[m] = "sent" => row[m].status = "sent"
  <2>1. due[m] \in BOOLEAN OBVIOUS
  <2>2. /\ row[m].status \in {"sending", "accepted", "sent"} =>
               Synced(m, Reconciled(m, copy(m)), due[m]) = row[m]
        /\ Reconciled(m, copy(m)) = "sent" => row[m].status = "sent"
    BY <1>2, <2>1, WritesSpareActiveRows
  <2> QED BY <1>3, <1>4, <2>2
<1>6. \A m \in Mails : Locked(row[m]) => row'[m] = row[m] BY <1>5 DEF Locked
<1>7. \A m \in Mails : Locked(row[m]) /\ Locked(Durable.row[m]) => Locked(Durable'.row[m])
  BY <1>4, <1>6 DEF Durable, Image
<1>8. Exclusive' BY <1>4 DEF Exclusive
<1>9. HeldRows'
  <2>1. \A v \in Workers : at[v] \in {"claimed", "marked", "ready"} => row'[mail[v]] = row[mail[v]]
    BY <1>5 DEF HeldRows
  <2>2. \A v \in Workers : at[v] = "ready" => Locked(Durable'.row[mail[v]])
    BY <1>7 DEF HeldRows, Locked
  <2> QED BY <1>4, <2>1, <2>2 DEF HeldRows
<1>10. ReceivedLocked' BY <1>4, <1>6, <1>7 DEF ReceivedLocked
<1>11. ShownSentIsSent'
  <2>1. \A m \in Mails : resident'[m] = "sent" => row'[m].status = "sent" BY <1>5
  <2>2. \A x \in Editors, m \in Mails : snapshot'[x][m] # "sent" BY <1>4 DEF NoCopy
  <2> QED BY <1>4, <2>1, <2>2 DEF ShownSentIsSent
<1> QED BY <1>8, <1>9, <1>10, <1>11 DEF Parts

LEMMA CrashStep ==
  ASSUME Inv, Crash PROVE Parts'
<1> USE DEF Inv, TypeOK
<1>1. /\ at' = [w \in Workers |-> "idle"] /\ snapshot' = [e \in Editors |-> NoCopy]
      /\ IF Sealed THEN row' = disk.row /\ resident' = disk.resident
                   ELSE UNCHANGED <<row, resident>>
      /\ UNCHANGED <<disk, mail, received>>
  BY DEF Crash
<1>2. \A m \in Mails : row'[m] = Durable.row[m] /\ Durable'.row[m] = Durable.row[m]
  BY <1>1 DEF Durable, Image
<1>3. Exclusive' BY <1>1 DEF Exclusive, Holding
<1>4. HeldRows' BY <1>1 DEF HeldRows
<1>5. ReceivedLocked' BY <1>1, <1>2 DEF ReceivedLocked
<1>6. ShownSentIsSent' BY <1>1 DEF ShownSentIsSent, NoCopy
<1> QED BY <1>3, <1>4, <1>5, <1>6 DEF Parts

LEMMA InvStep == Prompt /\ Inv /\ [Next]_vars => Inv'
<1> SUFFICES ASSUME Prompt, Inv, [Next]_vars PROVE Inv' OBVIOUS
<1>1. TypeOK' BY TypeStep DEF Inv
<1>2. ASSUME NEW w \in Workers, GoWrong(w) PROVE Parts'
  <2>1. CASE PreflightFails(w) \/ NotDispatched(w)
    BY <2>1, GivingBack DEF PreflightFails, NotDispatched, Works, Goes
  <2>2. CASE PreflightThrows(w) \/ OutcomeUnknown(w) \/ AcknowledgementFails(w) \/ FinalizeFails(w)
    BY <2>2, LettingGo
    DEF PreflightThrows, OutcomeUnknown, AcknowledgementFails, FinalizeFails, Goes
  <2> QED BY <1>2, <2>1, <2>2 DEF GoWrong
<1>3. ASSUME NEW w \in Workers, Proceed(w) PROVE Parts'
  BY <1>3, MarkStep, AcknowledgeStep, HandOverStep, SmtpAcceptsStep, ClosingStep DEF Proceed
<1>4. ASSUME NEW m \in Mails, NEW w \in Workers, ClaimAccepted(w, m) PROVE Parts'
  BY <1>4, LettingGo DEF ClaimAccepted, Goes, Inv, TypeOK
<1>5. ASSUME UNCHANGED vars PROVE Parts'
  <2> USE DEF Inv
  <2>1. UNCHANGED <<row, resident, disk, at, mail, snapshot, received>> /\ Durable' = Durable
    BY <1>5 DEF vars, Durable, Image
  <2>2. Exclusive' BY <2>1 DEF Exclusive
  <2>3. HeldRows' BY <2>1 DEF HeldRows
  <2>4. ReceivedLocked' BY <2>1 DEF ReceivedLocked
  <2>5. ShownSentIsSent' BY <2>1 DEF ShownSentIsSent
  <2> QED BY <2>2, <2>3, <2>4, <2>5 DEF Parts
<1>6. ASSUME NEW m \in Mails, TimePasses(m) \/ \E w \in Workers : Claim(w, m) \/ ClaimAccepted(w, m)
      PROVE  Parts'
  BY <1>4, <1>6, ClaimStep, TimePassesStep
<1>7. ASSUME NEW e \in Editors, NEW removed \in SUBSET Mails,
             ReadApplication(e) \/ WriteApplication(e, removed)
      PROVE  Parts'
  BY <1>7, ReadStep, WriteStep
<1>8. ASSUME Seal \/ Crash PROVE Parts'
  BY <1>8, AcknowledgeStep, CrashStep
<1> QED
  <2>1. Parts'
    BY <1>2, <1>3, <1>5, <1>6, <1>7, <1>8 DEF Next
  <2> QED BY <1>1, <2>1 DEF Inv, Parts

------------------------------------------------------------------------------
\* The journal, the payloads, the workers and the copies keep their types, for
\* any configuration (OutgoingMail.tla).
THEOREM MailTypeCorrect == Spec => []TypeOK
<1>1. Init => TypeOK BY InvInit DEF Inv
<1>2. TypeOK /\ [Next]_vars => TypeOK' BY TypeStep
<1> QED BY <1>1, <1>2, PTL DEF Spec

\* The inductive invariant: a claim has one holder, and a message that may have
\* been received is locked on every image.
THEOREM MailInvariance == Prompt => (Spec => []Inv)
<1> SUFFICES ASSUME Prompt PROVE Spec => []Inv OBVIOUS
<1>1. Init => Inv BY InvInit
<1>2. Inv /\ [Next]_vars => Inv' BY InvStep
<1> QED BY <1>1, <1>2, PTL DEF Spec

\* No message is handed to the provider twice (processOutgoingCommunication),
\* when deliveries are serial or the dispatch mark is set in time.
THEOREM MailIsSentOnce == Prompt => (Spec => []SentOnce)
<1> SUFFICES ASSUME Prompt PROVE Spec => []SentOnce OBVIOUS
<1>1. Inv => SentOnce BY DEF Inv, ReceivedLocked, SentOnce
<1> QED BY <1>1, MailInvariance, PTL

\* What the provider may have is locked in the journal and in what a restart
\* would find (markOutgoingMailDispatching).
THEOREM MaybeSentStaysLocked == Prompt => (Spec => []MaybeSentIsLocked)
<1> SUFFICES ASSUME Prompt PROVE Spec => []MaybeSentIsLocked OBVIOUS
<1>1. Inv => MaybeSentIsLocked BY DEF Inv, ReceivedLocked, MaybeSentIsLocked
<1> QED BY <1>1, MailInvariance, PTL

------------------------------------------------------------------------------
(* The journal and the application agree, for any configuration. *)

\* Status and presence of one message, over a step of a worker or of time.
Moved(m) ==
  \/ row'[m].status = row[m].status /\ resident'[m] = resident[m]
  \/ /\ row[m].status \in {"queued", "sending"} /\ row'[m].status = "sending"
     /\ resident'[m] = resident[m]
  \/ row[m].status = "sending" /\ row'[m].status = "queued" /\ resident'[m] = "queued"
  \/ /\ row[m].status = "sending" /\ row'[m].status = "accepted"
     /\ resident'[m] = resident[m]
  \/ row[m].status = "accepted" /\ row'[m].status = "sent" /\ resident'[m] = "sent"

Moving == (\A m \in Mails : Moved(m)) /\ UNCHANGED <<disk, snapshot>>
Sealing == disk' = Image /\ UNCHANGED <<row, resident, snapshot>>

\* A message of which only status and presence matter: what is active is
\* shown, and what is sent shows as sent or is gone from the payload.
Agree(r, shown) ==
  /\ r.status \in {"queued", "sending", "accepted"} => shown # "none"
  /\ (shown = "sent") => (r.status = "sent")
  /\ r.status = "sent" => shown \in {"sent", "none"}

\* The image is never ahead of the journal past the hand-over.
Behind(m) ==
  /\ disk.row[m].status = "accepted" => row[m].status \in {"accepted", "sent"}
  /\ disk.row[m].status = "sent" => row[m].status = "sent"

\* No copy shows as sent what the journal does not, nor brings back a sent
\* message that has been removed.
CopyFits(e, m) ==
  /\ snapshot[e][m] = "sent" => row[m].status = "sent"
  /\ row[m].status = "sent" /\ resident[m] = "none" => snapshot[e][m] \in {"none", "unread"}

Agreement ==
  /\ \A m \in Mails : Agree(row[m], resident[m]) /\ Agree(disk.row[m], disk.resident[m])
  /\ \A m \in Mails : Behind(m)
  /\ \A e \in Editors, m \in Mails : CopyFits(e, m)

LEMMA RetryMoves ==
  ASSUME TypeOK, NEW n \in Mails, NEW c \in BOOLEAN, Retry(n, c)
  PROVE  \A m \in Mails : Moved(m)
BY DEF TypeOK, Retry, SetRow, Moved

LEMMA StepShapes ==
  ASSUME TypeOK, [Next]_vars
  PROVE  \/ Moving \/ Sealing \/ Crash
         \/ \E e \in Editors : ReadApplication(e)
         \/ \E e \in Editors, removed \in SUBSET Mails : WriteApplication(e, removed)
<1> USE DEF TypeOK
<1>1. ASSUME NEW m \in Mails, TimePasses(m) PROVE Moving
  <2>1. \A n \in Mails : row'[n].status = row[n].status BY <1>1 DEF TimePasses, Rows
  <2> QED BY <1>1, <2>1 DEF TimePasses, Moving, Moved
<1>2. ASSUME NEW m \in Mails, NEW w \in Workers, Claim(w, m) PROVE Moving
  BY <1>2 DEF Claim, Claimable, SetRow, Moving, Moved
<1>3. ASSUME NEW w \in Workers, UNCHANGED <<row, resident, disk, snapshot>> PROVE Moving
  BY <1>3 DEF Moving, Moved
<1>4. ASSUME NEW w \in Workers, MarkDispatching(w) PROVE Moving
  BY <1>4 DEF MarkDispatching, SetRow, Moving, Moved
<1>5. ASSUME NEW w \in Workers, RecordAccepted(w) PROVE Moving
  BY <1>5 DEF RecordAccepted, SetRow, Moving, Moved
<1>6. ASSUME NEW w \in Workers, Finalize(w) PROVE Moving
  BY <1>6 DEF Finalize, SetRow, Moving, Moved
<1>7. ASSUME NEW w \in Workers, PreflightFails(w) \/ NotDispatched(w) PROVE Moving
  BY <1>7, RetryMoves DEF PreflightFails, NotDispatched, Moving
<1>8. ASSUME NEW w \in Workers, MarkAcknowledged(w) \/ AcceptAcknowledged(w) PROVE Sealing
  BY <1>8 DEF MarkAcknowledged, AcceptAcknowledged, Sealing
<1>9. Seal => Sealing BY DEF Seal, Sealing
<1>10. ASSUME NEW w \in Workers, Proceed(w) PROVE Moving \/ Sealing
  BY <1>3, <1>4, <1>5, <1>6, <1>8, <1>10 DEF Proceed, HandOver, SmtpAccepts
<1>11. ASSUME NEW w \in Workers, GoWrong(w) PROVE Moving
  BY <1>3, <1>7, <1>11
  DEF GoWrong, PreflightThrows, OutcomeUnknown, AcknowledgementFails, FinalizeFails
<1>12. ASSUME NEW m \in Mails,
              TimePasses(m) \/ \E w \in Workers : Claim(w, m) \/ ClaimAccepted(w, m)
       PROVE  Moving
  BY <1>1, <1>2, <1>3, <1>12 DEF ClaimAccepted
<1>13. UNCHANGED vars => Moving BY DEF vars, Moving, Moved
<1> QED BY <1>9, <1>10, <1>11, <1>12, <1>13 DEF Next

\* What a workspace write leaves of one message.
LEMMA WrittenMail ==
  ASSUME TypeOK, NEW m \in Mails, NEW copy \in Shown, NEW due \in BOOLEAN,
         copy = "sent" => row[m].status = "sent"
  PROVE  LET shown == Reconciled(m, copy)
             s == Synced(m, shown, due).status
         IN /\ s \in {"queued", "sending", "accepted"} => shown # "none"
            /\ (s = "sent") <=> (row[m].status = "sent")
            /\ row[m].status = "accepted" => s = "accepted"
            /\ (shown = "sent") <=> (row[m].status = "sent" /\ copy # "none")
            /\ row[m].status = "sent" => shown \in {"sent", "none"}
<1> DEFINE r == row[m]
<1>1. r \in Rows BY DEF TypeOK
<1>2. /\ Rank["none"] = 0 /\ Rank["queued"] = 1 /\ Rank["sending"] = 2
      /\ Rank["accepted"] = 3 /\ Rank["sent"] = 4 /\ Rank["cancelled"] = 5
  BY DEF Rank
<1>3. CASE r.status \in {"sending", "accepted", "sent"}
  <2>1. Synced(m, Reconciled(m, copy), due) = r BY <1>3, WritesSpareActiveRows
  <2>2. copy = "none" /\ r.status = "sent" => Reconciled(m, copy) = "none"
    BY DEF Reconciled
  <2>3. ~(copy = "none" /\ r.status = "sent") =>
          Reconciled(m, copy) = IF r.status = "sent" THEN "sent" ELSE "sending"
    BY <1>2, <1>3 DEF Reconciled, Shown
  <2> QED BY <1>3, <2>1, <2>2, <2>3
<1>4. CASE r.status \in {"queued", "cancelled"}
  <2>1. Reconciled(m, copy) = copy BY <1>4 DEF Reconciled
  <2>2. copy \in {"none", "queued", "sending"} BY <1>4 DEF Shown
  <2>3. copy = "none" => Synced(m, copy, due).status = "cancelled"
    BY <1>1, <1>4 DEF Synced, Rows
  <2>4. copy # "none" => Synced(m, copy, due).status \in {"queued", "sending", "cancelled"}
    BY <1>1, <1>2, <1>4, <2>2 DEF Synced, Rows
  <2> QED BY <1>4, <2>1, <2>2, <2>3, <2>4
<1> QED BY <1>1, <1>3, <1>4 DEF Rows, Status

LEMMA AgreementMoves ==
  ASSUME TypeOK, Agreement, Moving PROVE Agreement'
<1> USE DEF Agreement, Moving
<1>1. ASSUME NEW m \in Mails PROVE Agree(row'[m], resident'[m])
  <2>1. Moved(m) /\ Agree(row[m], resident[m]) OBVIOUS
  <2> QED BY <2>1 DEF Moved, Agree
<1>2. ASSUME NEW m \in Mails PROVE Behind(m)'
  <2>1. Moved(m) /\ Behind(m) /\ disk'.row[m] = disk.row[m] OBVIOUS
  <2> QED BY <2>1 DEF Moved, Behind
<1>3. ASSUME NEW e \in Editors, NEW m \in Mails PROVE CopyFits(e, m)'
  <2>1. Moved(m) /\ CopyFits(e, m) /\ snapshot'[e][m] = snapshot[e][m] OBVIOUS
  <2> QED BY <2>1 DEF Moved, CopyFits
<1> QED BY <1>1, <1>2, <1>3

LEMMA AgreementSealed ==
  ASSUME TypeOK, Agreement, Sealing PROVE Agreement'
<1> USE DEF Agreement, Sealing
<1>1. disk'.row = row /\ disk'.resident = resident BY DEF Image
<1>2. ASSUME NEW m \in Mails
      PROVE  Agree(row'[m], resident'[m]) /\ Agree(disk'.row[m], disk'.resident[m]) /\ Behind(m)'
  BY <1>1 DEF Behind
<1>3. ASSUME NEW e \in Editors, NEW m \in Mails PROVE CopyFits(e, m)'
  BY DEF CopyFits
<1> QED BY <1>2, <1>3

LEMMA AgreementRead ==
  ASSUME TypeOK, Agreement, NEW e \in Editors, ReadApplication(e) PROVE Agreement'
<1> USE DEF Agreement
<1>1. UNCHANGED <<row, resident, disk>> /\ snapshot' = [snapshot EXCEPT ![e] = resident]
  BY DEF ReadApplication
<1>2. ASSUME NEW m \in Mails PROVE Behind(m)' BY <1>1 DEF Behind
<1>3. ASSUME NEW x \in Editors, NEW m \in Mails PROVE CopyFits(x, m)'
  <2>1. snapshot'[x][m] = IF x = e THEN resident[m] ELSE snapshot[x][m] BY <1>1 DEF TypeOK
  <2>2. CopyFits(x, m) /\ Agree(row[m], resident[m]) OBVIOUS
  <2> QED BY <1>1, <2>1, <2>2 DEF CopyFits, Agree
<1> QED BY <1>1, <1>2, <1>3

\* What a write does to every message.
LEMMA WriteShape ==
  ASSUME TypeOK, Agreement, NEW e \in Editors, NEW removed \in SUBSET Mails,
         WriteApplication(e, removed)
  PROVE  /\ UNCHANGED disk /\ snapshot' = [x \in Editors |-> NoCopy]
         /\ \A m \in Mails :
              /\ row'[m].status \in {"queued", "sending", "accepted"} => resident'[m] # "none"
              /\ (row'[m].status = "sent") <=> (row[m].status = "sent")
              /\ row[m].status = "accepted" => row'[m].status = "accepted"
              /\ (resident'[m] = "sent") => (row[m].status = "sent" /\ resident[m] = "sent")
              /\ row[m].status = "sent" => resident'[m] \in {"sent", "none"}
<1> DEFINE copy(m) == IF m \in removed THEN "none" ELSE snapshot[e][m]
<1>1. snapshot[e] \in [Mails -> Shown] BY DEF WriteApplication, TypeOK
<1>2. \A m \in Mails : copy(m) \in Shown /\ (copy(m) = "sent" => row[m].status = "sent")
  BY <1>1 DEF Shown, Agreement, CopyFits
<1>3. PICK due \in [Mails -> BOOLEAN] :
        row' = [m \in Mails |-> Synced(m, Reconciled(m, copy(m)), due[m])]
  BY DEF WriteApplication
<1>4. /\ resident' = [m \in Mails |-> Reconciled(m, copy(m))]
      /\ snapshot' = [x \in Editors |-> NoCopy] /\ UNCHANGED disk
  BY DEF WriteApplication
<1>5. ASSUME NEW m \in Mails, row[m].status = "sent", copy(m) # "none" PROVE resident[m] = "sent"
  <2>1. snapshot[e][m] # "none" BY <1>5
  <2>2. snapshot[e][m] # "unread" BY <1>1 DEF Shown
  <2>3. resident[m] # "none" BY <1>5, <2>1, <2>2 DEF Agreement, CopyFits
  <2> QED BY <1>5, <2>3 DEF Agreement, Agree
<1> HIDE DEF copy
<1>6. ASSUME NEW m \in Mails
      PROVE  /\ row'[m].status \in {"queued", "sending", "accepted"} => resident'[m] # "none"
             /\ (row'[m].status = "sent") <=> (row[m].status = "sent")
             /\ row[m].status = "accepted" => row'[m].status = "accepted"
             /\ (resident'[m] = "sent") => (row[m].status = "sent" /\ resident[m] = "sent")
             /\ row[m].status = "sent" => resident'[m] \in {"sent", "none"}
  <2> DEFINE shown == Reconciled(m, copy(m))
             s == Synced(m, shown, due[m]).status
  <2>1. due[m] \in BOOLEAN OBVIOUS
  <2>2. /\ s \in {"queued", "sending", "accepted"} => shown # "none"
        /\ (s = "sent") <=> (row[m].status = "sent")
        /\ row[m].status = "accepted" => s = "accepted"
        /\ (shown = "sent") <=> (row[m].status = "sent" /\ copy(m) # "none")
        /\ row[m].status = "sent" => shown \in {"sent", "none"}
    BY <1>2, <2>1, WrittenMail
  <2>3. row'[m].status = s /\ resident'[m] = shown BY <1>3, <1>4
  <2> HIDE DEF shown, s
  <2> QED BY <1>5, <2>2, <2>3
<1> QED BY <1>4, <1>6

LEMMA AgreementWrite ==
  ASSUME TypeOK, Agreement, NEW e \in Editors, NEW removed \in SUBSET Mails,
         WriteApplication(e, removed)
  PROVE  Agreement'
<1>1. ASSUME NEW m \in Mails
      PROVE  Agree(row'[m], resident'[m]) /\ Agree(disk'.row[m], disk'.resident[m]) /\ Behind(m)'
  <2>1. Agree(row'[m], resident'[m]) BY WriteShape DEF Agree
  <2>2. Agree(disk'.row[m], disk'.resident[m]) BY WriteShape DEF Agreement
  <2>3. Behind(m) BY DEF Agreement
  <2>4. Behind(m)' BY <2>3, WriteShape DEF Behind
  <2> QED BY <2>1, <2>2, <2>4
<1>2. ASSUME NEW x \in Editors, NEW m \in Mails PROVE CopyFits(x, m)'
  <2>1. snapshot'[x][m] = "unread" BY WriteShape DEF NoCopy
  <2> QED BY <2>1 DEF CopyFits
<1> QED BY <1>1, <1>2 DEF Agreement

LEMMA AgreementCrash ==
  ASSUME TypeOK, Agreement, Crash PROVE Agreement'
<1>1. /\ snapshot' = [e \in Editors |-> NoCopy] /\ UNCHANGED disk
      /\ IF Sealed THEN row' = disk.row /\ resident' = disk.resident
                   ELSE UNCHANGED <<row, resident>>
  BY DEF Crash
<1>2. ASSUME NEW m \in Mails
      PROVE  Agree(row'[m], resident'[m]) /\ Agree(disk'.row[m], disk'.resident[m]) /\ Behind(m)'
  <2>1. CASE Sealed BY <1>1, <2>1 DEF Agreement, Behind
  <2>2. CASE ~Sealed BY <1>1, <2>2 DEF Agreement, Behind
  <2> QED BY <2>1, <2>2
<1>3. ASSUME NEW x \in Editors, NEW m \in Mails PROVE CopyFits(x, m)'
  <2>1. snapshot'[x][m] = "unread" BY <1>1 DEF NoCopy
  <2> QED BY <2>1 DEF CopyFits
<1> QED BY <1>2, <1>3 DEF Agreement

LEMMA AgreementStep == TypeOK /\ Agreement /\ [Next]_vars => Agreement'
BY StepShapes, AgreementMoves, AgreementSealed, AgreementRead, AgreementWrite, AgreementCrash

LEMMA AgreementInit == Init => Agreement
BY DEF Init, Agreement, Agree, Behind, CopyFits, NoCopy

\* The journal, the application, the image and the copies agree about what is
\* active and what is sent, whatever the configuration.
THEOREM JournalAndApplicationAgree == Spec => [](TypeOK /\ Agreement)
<1>1. Init => TypeOK /\ Agreement BY InvInit, AgreementInit DEF Inv
<1>2. TypeOK /\ Agreement /\ [Next]_vars => (TypeOK /\ Agreement)'
  BY TypeStep, AgreementStep
<1> QED BY <1>1, <1>2, PTL DEF Spec

\* What may still be sent, or has been without the application knowing, is
\* among its communications (reconcileApplicationWithOutgoingDeliveryJournalRows).
THEOREM ActiveMailIsShown == Spec => []ActiveIsShown
<1>1. Agreement => ActiveIsShown BY DEF Agreement, Agree, ActiveIsShown
<1> QED BY <1>1, JournalAndApplicationAgree, PTL

\* A message is closed in the journal in the step that shows it as sent, and
\* in no other (finalizeOutgoingMailDelivery).
THEOREM ClosedTogether == Spec => ClosedWhenShown
<1> DEFINE Closing == crashes' = crashes => \A m \in Mails :
              (row'[m].status = "sent" /\ row[m].status # "sent")
                <=> (resident'[m] = "sent" /\ resident[m] # "sent")
<1>1. TypeOK /\ Agreement /\ [Next]_vars => [Closing]_vars
  <2> SUFFICES ASSUME TypeOK, Agreement, [Next]_vars, crashes' = crashes, NEW m \in Mails
               PROVE  (row'[m].status = "sent" /\ row[m].status # "sent")
                        <=> (resident'[m] = "sent" /\ resident[m] # "sent")
    OBVIOUS
  <2>1. Agree(row[m], resident[m]) BY DEF Agreement
  <2>2. CASE Moving
    <3>1. Moved(m) BY <2>2 DEF Moving
    <3> QED BY <2>1, <3>1 DEF Moved, Agree
  <2>3. CASE Sealing BY <2>3 DEF Sealing
  <2>4. ASSUME NEW e \in Editors, ReadApplication(e) PROVE UNCHANGED <<row, resident>>
    BY <2>4 DEF ReadApplication
  <2>5. ASSUME NEW e \in Editors, NEW removed \in SUBSET Mails, WriteApplication(e, removed)
        PROVE  /\ (row'[m].status = "sent") <=> (row[m].status = "sent")
               /\ (resident'[m] = "sent") => (resident[m] = "sent")
    BY <2>5, WriteShape
  <2>6. ~Crash
    <3>1. crashes \in Nat BY DEF TypeOK
    <3> QED BY <3>1 DEF Crash
  <2> QED BY <2>2, <2>3, <2>4, <2>5, <2>6, StepShapes
<1>2. Spec => [][Closing]_vars BY <1>1, JournalAndApplicationAgree, PTL DEF Spec
<1> QED BY <1>2 DEF ClosedWhenShown

\* Once durable, the acceptance of a message is never taken back
\* (recordOutgoingMailAccepted, finalizeOutgoingMailDelivery).
THEOREM AcceptanceStays == Spec => AcceptedIsIrreversible
<1> DEFINE Kept == \A m \in Mails :
              Durable.row[m].status \in {"accepted", "sent"}
                => Durable'.row[m].status \in {Durable.row[m].status, "sent"}
<1>1. TypeOK /\ Agreement /\ [Next]_vars => [Kept]_vars
  <2> SUFFICES ASSUME TypeOK, Agreement, [Next]_vars, NEW m \in Mails,
                      Durable.row[m].status \in {"accepted", "sent"}
               PROVE  Durable'.row[m].status \in {Durable.row[m].status, "sent"}
    OBVIOUS
  <2>1. ASSUME ~Crash
        PROVE  row[m].status \in {"accepted", "sent"}
                 => row'[m].status \in {row[m].status, "sent"}
    <3>1. CASE Moving
      <4>1. Moved(m) BY <3>1 DEF Moving
      <4> QED BY <4>1 DEF Moved
    <3>2. CASE Sealing BY <3>2 DEF Sealing
    <3>3. ASSUME NEW e \in Editors, ReadApplication(e) PROVE row' = row
      BY <3>3 DEF ReadApplication
    <3>4. ASSUME NEW e \in Editors, NEW removed \in SUBSET Mails, WriteApplication(e, removed)
          PROVE  /\ (row'[m].status = "sent") <=> (row[m].status = "sent")
                 /\ row[m].status = "accepted" => row'[m].status = "accepted"
      BY <3>4, WriteShape
    <3> QED BY <2>1, <3>1, <3>2, <3>3, <3>4, StepShapes
  <2>2. disk' = disk \/ disk' = Image
    <3>1. ASSUME NEW e \in Editors, NEW removed \in SUBSET Mails,
                 ReadApplication(e) \/ WriteApplication(e, removed)
          PROVE  disk' = disk
      BY <3>1 DEF ReadApplication, WriteApplication
    <3>2. {} \in SUBSET Mails OBVIOUS
    <3> QED BY <3>1, <3>2, StepShapes DEF Moving, Sealing, Crash
  <2>3. CASE Sealed
    <3>1. Durable = disk /\ Durable' = disk' BY <2>3 DEF Durable
    <3>2. Behind(m) BY DEF Agreement
    <3> QED BY <2>2, <3>1, <3>2 DEF Behind, Image
  <2>4. CASE ~Sealed
    <3>1. Durable.row[m] = row[m] /\ Durable'.row[m] = row'[m] BY <2>4 DEF Durable, Image
    <3>2. Crash => row' = row BY <2>4 DEF Crash
    <3> QED BY <2>1, <3>1, <3>2
  <2> QED BY <2>3, <2>4
<1>2. Spec => [][Kept]_vars BY <1>1, JournalAndApplicationAgree, PTL DEF Spec
<1> QED BY <1>2 DEF AcceptedIsIrreversible
=============================================================================
