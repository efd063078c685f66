---------------------------- MODULE AtomicStore ----------------------------
(***************************************************************************)
(* What the storage layer promises to its requests, whatever runs beside    *)
(* them: each one takes effect in a single step on the durable              *)
(* applications as they are at that moment, or is refused and leaves no     *)
(* trace.                                                                   *)
(***************************************************************************)
CONSTANTS Requests,
          Deletes,    \* the requests that delete; the others edit
          Target      \* the application each request is about

VARIABLES content,    \* for each durable application, the edits it holds
          outcome     \* "pending", "saved" or "refused"

vars == <<content, outcome>>

Answer(r, o) ==
  /\ outcome[r] = "pending"
  /\ outcome' = [outcome EXCEPT ![r] = o]

Edit(r) ==
  /\ r \notin Deletes
  /\ Target[r] \in DOMAIN content
  /\ content' = [content EXCEPT ![Target[r]] = @ \cup {r}]
  /\ Answer(r, "saved")

\* Deleting what is gone already is granted too.
Remove(r) ==
  /\ r \in Deletes
  /\ content' = [a \in DOMAIN content \ {Target[r]} |-> content[a]]
  /\ Answer(r, "saved")

Refuse(r) ==
  /\ Answer(r, "refused")
  /\ UNCHANGED content

Init ==
  /\ outcome = [r \in Requests |-> "pending"]
  /\ content = [a \in DOMAIN content |-> {}]

Next == \E r \in Requests : Edit(r) \/ Remove(r) \/ Refuse(r)

Spec == Init /\ [][Next]_vars
==============================================================================
