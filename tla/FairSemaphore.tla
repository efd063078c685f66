---------------------------- MODULE FairSemaphore ----------------------------
(***************************************************************************)
(* What an admission gate of the server promises to the request handlers   *)
(* behind it, stated without counters, queues-of-callbacks or a drain loop: *)
(* a bounded number of holders overall and per key, and a line in which a   *)
(* place is never lost.  Nobody -- neither a newcomer nor somebody further  *)
(* back in the line -- is let in while somebody ahead could be let in.      *)
(*                                                                         *)
(* AdmissionController implements this module.                             *)
(***************************************************************************)
EXTENDS Naturals, Sequences, FiniteSets, SequencesExt

CONSTANTS Requests,     \* the callers
          NoKey,        \* the key of a caller that is not limited per key
          KeyOf,        \* the key of each caller
          Capacity,     \* how many callers may be inside
          KeyCapacity   \* how many callers with one key may be inside

VARIABLES inside,       \* the callers that were let in and have not left
          line          \* the callers that wait, in order of arrival

vars == <<inside, line>>

InsideWithKey(k) == {r \in inside : KeyOf[r] = k}

\* There is room for r: its key is below its limit.
KeyHasRoom(r) ==
  \/ KeyOf[r] = NoKey
  \/ Cardinality(InsideWithKey(KeyOf[r])) < KeyCapacity

HasRoom == Cardinality(inside) < Capacity

Waiting == {line[i] : i \in 1..Len(line)}

Init == inside = {} /\ line = <<>>

\* A newcomer is let in at once: nobody in the line could have been.
WalkIn(r) ==
  /\ r \notin inside \cup Waiting
  /\ HasRoom /\ KeyHasRoom(r)
  /\ \A i \in 1..Len(line) : ~KeyHasRoom(line[i])
  /\ inside' = inside \cup {r}
  /\ UNCHANGED line

\* A newcomer takes the last place in the line.
JoinLine(r) ==
  /\ r \notin inside \cup Waiting
  /\ line' = Append(line, r)
  /\ UNCHANGED inside

\* The first caller of the line that can be let in, is.
LetIn(i) ==
  /\ HasRoom /\ KeyHasRoom(line[i])
  /\ \A j \in 1..(i - 1) : ~KeyHasRoom(line[j])
  /\ inside' = inside \cup {line[i]}
  /\ line' = RemoveAt(line, i)

\* A caller gives up its place: it timed out, or its client went away.
GiveUp(i) ==
  /\ line' = RemoveAt(line, i)
  /\ UNCHANGED inside

Leave(r) ==
  /\ r \in inside
  /\ inside' = inside \ {r}
  /\ UNCHANGED line

\* The gate closes: everybody in the line is sent away.
SendAway ==
  /\ line' = <<>>
  /\ UNCHANGED inside

Next ==
  \/ \E r \in Requests : WalkIn(r) \/ JoinLine(r) \/ Leave(r)
  \/ \E i \in 1..Len(line) : LetIn(i) \/ GiveUp(i)
  \/ SendAway

Spec == Init /\ [][Next]_vars
==============================================================================
