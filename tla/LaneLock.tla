------------------------------ MODULE LaneLock ------------------------------
(***************************************************************************)
(* What the write lanes of server/storage.js promise: an operation takes a  *)
(* set of lanes, the empty set meaning all of them, and no two operations   *)
(* ever hold a lane in common.                                              *)
(***************************************************************************)
EXTENDS Naturals

CONSTANTS Operations, Lanes

VARIABLE held   \* the pairs <<operation, lanes>> that are out

vars == <<held>>

\* The empty set stands for every lane, as in withWriteLock.
Overlap(L, M) == L = {} \/ M = {} \/ L \cap M # {}

Init == held = {}

Acquire(o, L) ==
  /\ \A h \in held : h[1] # o /\ ~Overlap(L, h[2])
  /\ held' = held \cup {<<o, L>>}

Release(o) ==
  /\ \E h \in held : h[1] = o
  /\ held' = {h \in held : h[1] # o}

Next == \E o \in Operations : Release(o) \/ \E L \in SUBSET Lanes : Acquire(o, L)

Spec == Init /\ [][Next]_vars
==============================================================================
