----------------------- MODULE MCReplicationFailures -----------------------
(***************************************************************************)
(* Instances of ReplicationFailures for TLC: every request is an operation *)
(* of one card.                                                            *)
(***************************************************************************)
EXTENDS FailuresInvariant, TLC

OneKey == [q \in Requests |-> CHOOSE k \in Keys : TRUE]

\* The replicas are interchangeable, and so are the requests.
Symmetry == Permutations(Replicas) \cup Permutations(Requests)
=============================================================================
