------------------------- MODULE FailuresInvariant -------------------------
(***************************************************************************)
(* The inductive invariant of ReplicationFailures.  An aborted broadcast   *)
(* leaves a Log of the current id at some replicas, and the next broadcast *)
(* uses the id again; what a replica has stored under an id therefore need *)
(* not be the request that the log has there.  It is by the time the       *)
(* replica executes it: the replica executes k when Log k + 1 comes, and   *)
(* that was sent after a broadcast of k that reached every member.         *)
(***************************************************************************)
EXTENDS ReplicationFailures

\* The id of the last Log that r has handled, 0 when there was none.
Top(r) == IF DOMAIN stored[r] = {} THEN 0 ELSE Len(issued[r]) + 1

\* What r knows: the operation that it stores and, after it, those in its channel.
Id(r, i)  == IF i = 0 THEN Top(r) ELSE logs[r][i].op_id
Req(r, i) == IF i = 0 THEN stored[r][Top(r)] ELSE logs[r][i].req

\* The id that follows the i-th of them at r.
FollowingId(r, i) == IF i = Len(logs[r]) THEN current_op_id ELSE logs[r][i + 1].op_id

\* The leader knows the replicas that run, and the log has one entry per id given.
MembersInv == /\ alive \subseteq Replicas
              /\ alive \subseteq cluster
              /\ Len(log) = current_op_id - 1

\* A replica stores one operation, and has given all the earlier ones to its database,
\* in the order of the log and as they are there.
ExecutedInv ==
  \A r \in Replicas :
    /\ \/ DOMAIN stored[r] = {} /\ Len(issued[r]) = 0
       \/ DOMAIN stored[r] = {Len(issued[r]) + 1}
    /\ Len(issued[r]) <= Len(log)
    /\ \A i \in 1..Len(issued[r]) : issued[r][i].op_id = i /\ issued[r][i].req = log[i]

\* At a replica that runs, an id is followed by itself, when its broadcast was
\* aborted, or by the next one, when the request is the one of the log.
ChainInv ==
  \A r \in alive : \A i \in 0..Len(logs[r]) :
    /\ Id(r, i) <= current_op_id /\ (i # 0 => Id(r, i) # 0)
    /\ \/ FollowingId(r, i) = Id(r, i)
       \/ /\ FollowingId(r, i) = Id(r, i) + 1
          /\ Id(r, i) # 0 => Req(r, i) = log[Id(r, i)]

\* The inductive invariant: it implies ExecutesInOrder and ReplicasAgree.
FInv == TypeOK /\ MembersInv /\ ExecutedInv /\ ChainInv
=============================================================================
