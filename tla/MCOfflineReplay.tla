--------------------------- MODULE MCOfflineReplay ---------------------------
(* One application of two fields. *)
EXTENDS OfflineReplay
CONSTANTS motivation, deadline
MCFields == {motivation, deadline}
==============================================================================
