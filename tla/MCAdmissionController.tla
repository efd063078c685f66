------------------------ MODULE MCAdmissionController ------------------------
(* Two accounts and an anonymous request in front of a gate of two slots. *)
EXTENDS AdmissionController

CONSTANTS a1, a2, b1, b2, c1, alice, bob

MCRequests == {a1, a2, b1, b2, c1}
MCKeys == {alice, bob}
MCKeyOf == [r \in MCRequests |->
              IF r \in {a1, a2} THEN alice ELSE IF r \in {b1, b2} THEN bob ELSE NoKey]
==============================================================================
