-------------------------- MODULE MCReplication --------------------------
(***************************************************************************)
(* Instances of Replication for TLC.                                       *)
(***************************************************************************)
EXTENDS ReplicationInvariant

CONSTANTS q1, q2, q3   \* three requests

\* q1 and q3 are operations of one card, q2 is one of another card.
TwoKeys == LET k == CHOOSE k \in Keys : TRUE
           IN  [q \in Requests |-> IF q = q2 THEN CHOOSE j \in Keys \ {k} : TRUE ELSE k]
=============================================================================
