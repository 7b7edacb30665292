------------------------ MODULE ReplicationFailures ------------------------
(***************************************************************************)
(* The replication protocol of one leader whose replicas may crash.  A     *)
(* crash loses what the replica had and what was on its way to it; of the  *)
(* Acks it sent a prefix arrives.  The leader notices when its stream      *)
(* breaks, behind the Acks that arrived (StreamReceiver), or when a Log    *)
(* cannot be sent: handle_request then returns in the middle of its        *)
(* broadcast (the ? after connection.send), so some replicas have the Log  *)
(* and the id is not advanced.  A replica does not come back in this       *)
(* module, and the leader does not crash.                                  *)
(***************************************************************************)
EXTENDS Replication

CONSTANT MaxCrashes   \* how many replicas may crash

ASSUME MaxCrashesAssumption == MaxCrashes \in Nat

VARIABLE alive        \* the replicas that run

fvars == <<vars, alive>>

-----------------------------------------------------------------------------
FInit == Init /\ alive = Replicas

Crash(r) ==
  /\ r \in alive
  /\ Cardinality(Replicas \ alive) < MaxCrashes
  /\ alive' = alive \ {r}
  /\ inbox' = [inbox EXCEPT ![r] = {}]
  /\ logs' = [logs EXCEPT ![r] = <<>>]
  /\ \E m \in 0..Len(acks[r]) : acks' = [acks EXCEPT ![r] = SubSeq(@, 1, m)]
  /\ UNCHANGED <<submitted, replies, leaderVars, stored, dbVars, history>>

\* Leader::handle_connection_lost_with, after the messages received before the
\* stream broke: the member is removed, the pending operations stay as they are.
ConnectionLost(r) ==
  /\ ~panicked
  /\ r \in cluster \ alive /\ r # Leader
  /\ acks[r] = <<>>
  /\ cluster' = cluster \ {r}
  /\ UNCHANGED <<clientVars, current_op_id, operations, panicked, replicaVars,
                 dbVars, history, alive>>

\* Leader::handle_request when the Log to r cannot be sent.  The members S that
\* the loop visited before r have it, the others do not.  Node::run removes r
\* on ConnectionLostWith (its handler is closed) and does nothing on
\* ConnectionRefused (a new handler could not connect).
HandleRequestFails(q, r) ==
  /\ StoreRequest(q)
  /\ Cardinality(cluster) # 1
  /\ r \in cluster \ alive /\ r # Leader
  /\ \E S \in SUBSET (alive \cap cluster) :
       logs' = [p \in Replicas |->
                  IF p \in S THEN Append(logs[p], [op_id |-> current_op_id, req |-> q])
                             ELSE logs[p]]
  /\ cluster' \in {cluster, cluster \ {r}}
  /\ UNCHANGED <<submitted, replies, current_op_id, panicked, stored, acks,
                 dbVars, history, alive>>

\* Leader::handle_request of a leader with no other member: execute at once.  The
\* id is not advanced.
HandleRequestAlone(q) ==
  /\ StoreRequest(q)
  /\ Cardinality(cluster) = 1
  /\ issued' = [issued EXCEPT ![Leader] = Execute(@, current_op_id, q)]
  /\ UNCHANGED <<submitted, replies, current_op_id, cluster, panicked,
                 replicaVars, completed, history, alive>>

\* A step of the protocol by the leader or by a replica that runs.
LeaderStep ==
  /\ \/ \E q \in Requests : HandleRequest(q)
     \/ \E r \in Replicas : HandleAck(r)
     \/ \E i \in 1..Len(issued[Leader]) : LeaderResult(i)
  /\ UNCHANGED alive

ReplicaStep(r) ==
  /\ \/ \E q \in Requests : ForwardRequest(r, q)
     \/ HandleLog(r)
     \/ \E i \in 1..Len(issued[r]) : ReplicaResult(r, i)
  /\ UNCHANGED alive

FNext ==
  \/ \E q \in Requests, n \in {Leader} \cup alive : Submit(q, n) /\ UNCHANGED alive
  \/ LeaderStep
  \/ \E q \in Requests : HandleRequestAlone(q)
  \/ \E r \in alive : ReplicaStep(r)
  \/ \E r \in Replicas : \/ Crash(r)
                         \/ ConnectionLost(r)
                         \/ \E q \in Requests : HandleRequestFails(q, r)

FSpec == FInit /\ [][FNext]_fvars

-----------------------------------------------------------------------------
(* Properties *)

\* A replica executes operations in the order of their ids, none twice, although
\* an aborted broadcast makes the leader use an id again (Replica::handle_log
\* and commit_operation).
ExecutesInOrder ==
  \A r \in Replicas : \A i, j \in 1..Len(issued[r]) :
    i < j => issued[r][i].op_id < issued[r][j].op_id

\* Two replicas that execute an operation execute the same request under its
\* id, although some of them saw another request under that id before, from a
\* broadcast that was aborted (Leader::handle_request).
ReplicasAgree ==
  \A r, s \in Replicas :
    \A i \in 1..Len(issued[r]), j \in 1..Len(issued[s]) :
      issued[r][i].op_id = issued[s][j].op_id => issued[r][i].req = issued[s][j].req
=============================================================================
