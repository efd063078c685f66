---------------------------- MODULE MCStoreWrites ----------------------------
(* Two applications of Alice, edited and deleted from several windows, and   *)
(* one of Bob, in two processes on one database.                             *)
EXTENDS StoreWrites

CONSTANTS edit1, edit2, edit3, edit4, bobsEdit, bobsDelete, delete1,
          early, late, bobs, alice, bob, settings

MCLanes == {alice, bob, settings}
MCAppLane == [a \in Applications |-> IF a = bobs THEN bob ELSE alice]
MCApplications == {early, late, bobs}
MCPlace == [a \in MCApplications |-> CASE a = early -> 1 [] a = late -> 2 [] a = bobs -> 3]

\* Two edits and a delete of one application in two processes, an edit of
\* another one of the account, and a delete of an account without a trash.
MCMixed == {edit1, edit2, edit3, delete1, bobsDelete}
MCDeletes == Requests \cap {bobsDelete, delete1}
\* Alice keeps a trash, Bob does not.
MCKeepTrash == MCDeletes \ {bobsDelete}
MCBobs == {bobsEdit, bobsDelete}
MCLate == {edit3, edit4}

MCTarget == [r \in Requests |->
               CASE r \in {edit1, edit2, delete1} -> early
                 [] r \in {edit3, edit4} -> late
                 [] r \in {bobsEdit, bobsDelete} -> bobs]
MCAccount == [r \in Requests |-> IF r \in {bobsEdit, bobsDelete} THEN bob ELSE alice]
MCProcess == [r \in Requests |-> IF r \in {edit2, edit3, delete1} THEN 2 ELSE 1]
MCSameProcess == [r \in Requests |-> 1]
==============================================================================
