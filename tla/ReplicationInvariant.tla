----------------------- MODULE ReplicationInvariant -----------------------
(***************************************************************************)
(* The inductive invariant of Replication.  Its conjuncts are what each    *)
(* part of the state knows of the history log: TLC checks them as an       *)
(* invariant, ReplicationProofs proves that every step preserves them.     *)
(***************************************************************************)
EXTENDS Replication

\* How many Logs replica r has handled: the rest of the log is in its channel.
Received(r) == current_op_id - 1 - Len(logs[r])

\* The replicas whose Ack of operation k the leader has handled.
Ackers(k) == {r \in Replicas : <<r, k>> \in ackedBy}

\* The log has one entry per id given; no request is in it twice, nor is one
\* that still waits in an inbox.
LogInv ==
  /\ cluster = Nodes
  /\ Len(log) = current_op_id - 1
  /\ \A i, j \in 1..Len(log) : log[i] = log[j] => i = j
  /\ \A i \in 1..Len(log) : log[i] \in submitted
  /\ \A n \in Nodes : /\ inbox[n] \subseteq submitted
                      /\ \A i \in 1..Len(log) : log[i] \notin inbox[n]
  /\ \A n, m \in Nodes : n # m => inbox[n] \cap inbox[m] = {}

\* The channel to r holds the end of the log, in order.
ChannelInv ==
  \A r \in Replicas :
    /\ Received(r) \in Nat
    /\ \A i \in 1..Len(logs[r]) :
         /\ logs[r][i].op_id = Received(r) + i
         /\ logs[r][i].req = log[Received(r) + i]

\* A replica stores the last operation it received and has given all the
\* earlier ones to its database, in the order of the log.
ReplicaInv ==
  \A r \in Replicas :
    /\ Received(r) = 0 => DOMAIN stored[r] = {} /\ Len(issued[r]) = 0
    /\ Received(r) # 0 => /\ DOMAIN stored[r] = {Received(r)}
                          /\ Len(issued[r]) = Received(r) - 1
    /\ \A k \in DOMAIN stored[r] : stored[r][k] = log[k]
    /\ \A i \in 1..Len(issued[r]) : issued[r][i].op_id = i /\ issued[r][i].req = log[i]

\* A command completes at most once.
CompletedInv ==
  \A n \in Nodes :
    /\ \A i \in 1..Len(completed[n]) : completed[n][i] \in 1..Len(issued[n])
    /\ \A i, j \in 1..Len(completed[n]) : completed[n][i] = completed[n][j] => i = j

\* A command completes after the earlier ones of its actor.
OrderInv ==
  \A n \in Nodes : \A i \in 1..Len(completed[n]) : \A c \in 1..(completed[n][i] - 1) :
    Key[issued[n][c].req] = Key[issued[n][completed[n][i]].req] =>
      \E j \in 1..(i - 1) : completed[n][j] = c

\* Replica r has sent the Ack of k: k is 1, or the execution of k - 1 is over.
AckSent(r, k) == /\ k \in 1..Received(r)
                 /\ k = 1 \/ k - 1 \in Range(completed[r])

\* Every Ack was sent for an operation the replica holds, and none twice.
AckInv ==
  /\ \A r \in Replicas :
       /\ \A i \in 1..Len(acks[r]) : /\ AckSent(r, acks[r][i])
                                     /\ <<r, acks[r][i]>> \notin ackedBy
       /\ \A i, j \in 1..Len(acks[r]) : acks[r][i] = acks[r][j] => i = j
  /\ \A p \in ackedBy : AckSent(p[1], p[2])

\* ack_count counts the replicas that acknowledged.
PendingInv ==
  \A k \in DOMAIN operations :
    /\ k \in 1..Len(log)
    /\ operations[k].req = log[k]
    /\ operations[k].ack_count = Cardinality(Ackers(k))

\* The leader issues an operation once, after enough Acks, and it is pending
\* until its result is there.
LeaderInv ==
  /\ ~panicked
  /\ \A i \in 1..Len(issued[Leader]) :
       /\ issued[Leader][i].op_id \in 1..Len(log)
       /\ issued[Leader][i].req = log[issued[Leader][i].op_id]
       /\ Cardinality(Ackers(issued[Leader][i].op_id)) >= AckThreshold
       /\ issued[Leader][i].op_id \in DOMAIN operations
            <=> i \notin Range(completed[Leader])
  /\ \A i, j \in 1..Len(issued[Leader]) :
       issued[Leader][i].op_id = issued[Leader][j].op_id => i = j

\* The answers follow the completions.
ReplyInv ==
  /\ Len(replies) = Len(completed[Leader])
  /\ \A i \in 1..Len(replies) :
       /\ replies[i].to = issued[Leader][completed[Leader][i]].req
       /\ replies[i].of = issued[Leader][completed[Leader][i]].req

\* The inductive invariant: it implies MajorityHolds, NoPanic, OwnResult,
\* AnsweredOnce and ExecutesOnce.
IInv ==
  /\ TypeOK
  /\ LogInv
  /\ ChannelInv
  /\ ReplicaInv
  /\ CompletedInv
  /\ AckInv
  /\ PendingInv
  /\ LeaderInv
  /\ ReplyInv
=============================================================================
