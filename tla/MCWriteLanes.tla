---------------------------- MODULE MCWriteLanes ----------------------------
(* Two writers of one tenant, one of another, one of both, a global writer,  *)
(* and a write made in the context of three of them: two await it, the third *)
(* does not, and it is a write to a tenant whose lane that one never asked    *)
(* for.                                                                      *)
EXTENDS WriteLanes

CONSTANTS a1, a2, b1, ab, all, inner, laneA, laneB

MCOperations == {a1, a2, b1, ab, all, inner}
MCLanes == {laneA, laneB}
MCLanesOf ==
  [o \in MCOperations |-> CASE o \in {a1, a2, inner} -> {laneA}
                            [] o = b1 -> {laneB}
                            [] o = ab -> {laneA, laneB}
                            [] o = all -> {}]
MCAwaited == {<<a1, inner>>, <<ab, inner>>}
MCNested == MCAwaited \cup {<<b1, inner>>}
==============================================================================
