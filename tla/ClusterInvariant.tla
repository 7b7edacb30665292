--------------------------- MODULE ClusterInvariant ---------------------------
(***************************************************************************)
(* The inductive invariant behind CTypeOK: what may be in the channels, in *)
(* the databases and in what a node has stored.  Every charge there is one *)
(* that a pump has made.  S stands for the charges that pumps have made    *)
(* and A for the ones that they have got an answer to.                     *)
(***************************************************************************)
EXTENDS Cluster

Ids          == Nat \ {0}
Operation(S) == [req : S, replay : BOOLEAN]
Snapshot(S)  == {NoActors} \cup Seq(S)

\* The messages of the election, and those of replication and membership.
Message(S) ==
  [type : {"Election", "ElectionOk", "Coordinator"}, id : Nodes]
    \cup [type : {"ConnectionLost"}]
    \cup [type : {"Log"}, id : Ids, op : Operation(S)]
    \cup [type : {"Ack"}, id : Ids]
    \cup [type : {"Request"}, op : Operation(S), addr : Nodes]
    \cup [type : {"Response"}, op : Operation(S)]
    \cup [type : {"Join"}, addr : Nodes]
    \cup [type : {"ClusterView"}, members : SUBSET Nodes, leader : Nodes, state : Snapshot(S)]
    \cup [type : {"ClusterUpdate"}, member : Nodes]

\* DatabaseCmd and ActorEvent
Command(S) ==
  [type : {"Charge"}, id : Ids, op : Operation(S)]
    \cup [type : {"GetDatabase"}, addr : Nodes]
    \cup [type : {"ReplaceDatabase"}, state : Snapshot(S)]
Outcome(S) ==
  [type : {"Charge"}, id : Ids]
    \cup [type : {"GetDatabase"}, addr : Nodes, state : Snapshot(S)]
    \cup [type : {"ReplaceDatabase"}]

\* A leader stores an operation with its origin and its acks, a replica the operation.
Stored(S, leads) ==
  IF leads THEN [op : Operation(S), addr : Nodes, acks : Nat] ELSE Operation(S)

\* Roles, leaders and members are those of nodes.
NodesInv ==
  /\ plan \in Scenarios
  /\ role \in [Nodes -> {"down", "leader", "replica", "leader_off", "replica_off",
                         "crashed", "panicked"}]
  /\ leader_addr \in [Nodes -> Nodes]
  /\ cluster \in [Nodes -> SUBSET Nodes]
  /\ current_op_id \in [Nodes -> Ids]

\* What is on its way between nodes
ChannelsInv(S) == chan \in [Nodes -> [Nodes -> Seq(Message(S))]] /\ backlog \in [Nodes -> [Nodes -> Seq(Message(S))]]

\* What is in the databases, on its way to them and from them
DatabasesInv(S) ==
  /\ db \in [Nodes -> Seq(Command(S))]
  /\ events \in [Nodes -> Seq(Outcome(S))]
  /\ asked \in [Nodes -> {NoSnapshot} \cup [addr : Nodes \cup {Replaced}, state : Snapshot(S)]]
  /\ state \in [Nodes -> Snapshot(S)]

\* Finitely many operations are stored, under ids, in the form of the role.
StoredInv(S) ==
  /\ DOMAIN operations = Nodes
  /\ \A n \in Nodes :
       /\ operations[n] \in [DOMAIN operations[n] -> Stored(S, Leads(n))]
       /\ \E k \in Nat : DOMAIN operations[n] \subseteq 1..k

\* The charges that are queued OFFLINE have been answered.
QueuesInv(A) == offline_queue \in [Nodes -> Seq(A)]

CInv ==
  /\ NodesInv
  /\ ChannelsInv(submitted) /\ DatabasesInv(submitted) /\ StoredInv(submitted)
  /\ QueuesInv(answered) /\ answered \subseteq submitted
=============================================================================
