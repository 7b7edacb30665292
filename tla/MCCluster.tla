------------------------------ MODULE MCCluster ------------------------------
(***************************************************************************)
(* Instances of Cluster for TLC.                                           *)
(***************************************************************************)
EXTENDS Cluster

CONSTANTS q1, q2

Charges == {q1, q2}

Scenario(leader, replicas, joiners, requests, crashes, cuts) ==
  [leader |-> leader, members |-> {leader} \cup replicas, joiners |-> joiners,
   requests |-> requests, crashes |-> crashes, offline |-> cuts,
   first |-> {leader}, timely |-> TRUE, crossing |-> FALSE]

\* A node joins: a lower one, which starts an election; a higher one; one that
\* makes the highest node lead; the first one; two at a time; the one that changes
\* the number of Acks a leader waits for.  A node is cut
\* off: the leader or the replica, of which either may have the higher id; one that
\* joins, while it waits for an election.  A node crashes.
Life ==
  {Scenario(3, {2}, {1}, {q1}, 0, 0),
   Scenario(1, {2}, {3}, {q1, q2}, 0, 0),
   Scenario(2, {3}, {1}, {q1}, 0, 0),
   Scenario(1, {}, {2}, {q1, q2}, 0, 0),
   Scenario(3, {}, {1, 2}, {}, 0, 0),
   Scenario(3, {1, 2}, {4}, {q1}, 0, 0),
   Scenario(3, {1}, {}, {q1, q2}, 0, 1),
   Scenario(1, {3}, {}, {q1, q2}, 0, 1),
   Scenario(3, {}, {1}, {q1}, 0, 1),
   Scenario(3, {1, 2}, {}, {q1}, 1, 0)}

\* The leader of three crashes, or another node.
Failover == {Scenario(3, {1, 2}, {}, {q1}, 1, 0)}

\* A fourth node joins; a leader is alone; one of three nodes is cut off; two nodes
\* join; one of two is cut off; a node joins below the leader of a higher one.
Growing  == {Scenario(3, {1, 2}, {4}, {q1}, 0, 0)}
Alone    == {Scenario(1, {}, {}, {q1, q2}, 0, 0)}
Return   == {Scenario(3, {1, 2}, {}, {}, 0, 1)}
TwoJoin  == {Scenario(3, {}, {1, 2}, {q1}, 0, 0)}
CutOff   == {Scenario(3, {1}, {}, {q1}, 0, 1)}
Takeover == {Scenario(2, {3}, {1}, {q1}, 0, 0)}
=============================================================================
