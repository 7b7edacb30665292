---------------------------- MODULE Replication ----------------------------
(***************************************************************************)
(* The replication protocol of one term of one leader: the leader numbers  *)
(* the client requests, sends Log{op_id, op} to every replica, counts the  *)
(* Acks, executes an operation once enough replicas hold it and answers    *)
(* the client (leader.rs); a replica stores operation op_id, executes      *)
(* operation op_id - 1 and acknowledges op_id when that execution is over  *)
(* (replica.rs).  An operation is identified with the request that carries *)
(* it.  Every node owns a Database, an asynchronous actor system: a command*)
(* is issued to it, and its result comes back later; the commands of one   *)
(* actor (one Key) complete in the order they were issued, those of        *)
(* different actors in any order.                                          *)
(*                                                                         *)
(* This module is the failure-free protocol with the cluster formed: there *)
(* is a replica and the membership does not change.  ReplicationFailures   *)
(* adds the crash of replicas, and with it the leader that is left alone.  *)
(* The messages between two nodes travel on one TCP stream and  *)
(* are handled by one task, hence the FIFO channels logs[r] and acks[r];   *)
(* requests travel on other streams and may be overtaken.                  *)
(***************************************************************************)
EXTENDS Integers, Sequences, FiniteSets, Functions

CONSTANTS Leader,    \* the node that runs as Leader
          Replicas,  \* the nodes that run as Replica and have joined
          Requests,  \* the requests that stations and clients make
          Keys,      \* the actors that execute operations
          Key        \* Key[q]: the actor that serialises the operation of q

ASSUME LeaderAssumption   == Leader \notin Replicas
ASSUME ReplicasAssumption == IsFiniteSet(Replicas) /\ Replicas # {}
ASSUME KeyAssumption      == Key \in [Requests -> Keys]

Nodes == {Leader} \cup Replicas

VARIABLES
  \* the requests on their way
  submitted,      \* the requests made so far
  inbox,          \* inbox[n]: the requests that node n has yet to handle
  replies,        \* the answers sent: to whom, and the result of which request
  \* the leader (struct Leader)
  current_op_id,  \* the id the next request gets
  cluster,        \* the members the leader knows, itself included
  operations,     \* op_id -> PendingOperation: the request and its ack_count
  panicked,       \* the leader reached the .expect of handle_operation_result
  \* the replicas (struct Replica) and the channels
  stored,         \* stored[r]: the field operations of r, op_id -> operation
  logs,           \* logs[r]: the Log messages from the leader to r
  acks,           \* acks[r]: the op_ids of the Ack messages from r to the leader
  \* the databases
  issued,         \* issued[n]: the commands Execute sent to n's Database
  completed,      \* completed[n]: positions in issued[n], in order of completion
  \* history variables: no action reads them
  log,            \* log[k]: the request that got op_id k
  ackedBy         \* the pairs <<r, k>> such that the leader handled r's Ack of k

clientVars  == <<submitted, inbox, replies>>
leaderVars  == <<current_op_id, cluster, operations, panicked>>
replicaVars == <<stored, logs, acks>>
dbVars      == <<issued, completed>>
history     == <<log, ackedBy>>
vars == <<clientVars, leaderVars, replicaVars, dbVars, history>>

-----------------------------------------------------------------------------
Entry   == [op_id : Nat, req : Requests]          \* a Log message, an Execute
Pending == [req : Requests, ack_count : Nat]      \* PendingOperation
Reply   == [to : Requests, of : Requests]

\* Faulty variants of the definitions below, for mutation testing: the entry is
\* kept when there is one; the entry is read, not removed.
InsertIfAbsent(f, k, v) ==
  [j \in DOMAIN f \cup {k} |-> IF j \in DOMAIN f THEN f[j] ELSE v]
RemoveNothing(f, k) == f

\* HashMap::new, HashMap::insert and HashMap::remove
EmptyMap == [k \in {} |-> k]
Insert(f, k, v) == [j \in DOMAIN f \cup {k} |-> IF j = k THEN v ELSE f[j]]
Remove(f, k)    == Restrict(f, DOMAIN f \ {k})

-----------------------------------------------------------------------------
(* The database of a node, as the node sees it. *)

Execute(db, k, q) == Append(db, [op_id |-> k, req |-> q])

\* Faulty variant: an actor runs its commands concurrently.
CompletableAnyOrder(n, i) == i \in 1..Len(issued[n]) /\ i \notin Range(completed[n])

\* The i-th command issued to the database of n may be the next to complete:
\* the earlier commands of the same actor have completed.
Completable(n, i) ==
  /\ i \in 1..Len(issued[n])
  /\ i \notin Range(completed[n])
  /\ \A j \in 1..(i - 1) :
        Key[issued[n][j].req] = Key[issued[n][i].req] => j \in Range(completed[n])

-----------------------------------------------------------------------------
Init ==
  /\ submitted = {}
  /\ inbox = [n \in Nodes |-> {}]
  /\ replies = <<>>
  /\ current_op_id = 1
  /\ cluster = Nodes
  /\ operations = EmptyMap
  /\ panicked = FALSE
  /\ stored = [r \in Replicas |-> EmptyMap]
  /\ logs = [r \in Replicas |-> <<>>]
  /\ acks = [r \in Replicas |-> <<>>]
  /\ issued = [n \in Nodes |-> <<>>]
  /\ completed = [n \in Nodes |-> <<>>]
  /\ log = <<>>
  /\ ackedBy = {}

\* A station or a client sends its request to node n.
Submit(q, n) ==
  /\ q \notin submitted
  /\ submitted' = submitted \cup {q}
  /\ inbox' = [inbox EXCEPT ![n] = @ \cup {q}]
  /\ UNCHANGED <<replies, leaderVars, replicaVars, dbVars, history>>

\* Faulty variant: the proxy sends the request again when it is not sure that the
\* leader has it.
ForwardRequestAgain(r, q) ==
  /\ q \in inbox[r]
  /\ inbox' = [inbox EXCEPT ![r] = IF q \in Range(log) THEN @ \ {q} ELSE @,
                           ![Leader] = @ \cup {q}]
  /\ UNCHANGED <<submitted, replies, leaderVars, replicaVars, dbVars, history>>

\* Replica::handle_request: proxy the request to the leader.
ForwardRequest(r, q) ==
  /\ q \in inbox[r]
  /\ inbox' = [inbox EXCEPT ![r] = @ \ {q}, ![Leader] = @ \cup {q}]
  /\ UNCHANGED <<submitted, replies, leaderVars, replicaVars, dbVars, history>>

\* Leader::handle_request, what its branches share: the request gets the current
\* id and becomes a pending operation.
StoreRequest(q) ==
  /\ ~panicked
  /\ q \in inbox[Leader]
  /\ inbox' = [inbox EXCEPT ![Leader] = @ \ {q}]
  /\ operations' = Insert(operations, current_op_id, [req |-> q, ack_count |-> 0])

\* Faulty variants: the id is not advanced, or is kept in a counter that is too
\* narrow.
SameOpId   == current_op_id
NarrowOpId == (current_op_id + 1) % 3

\* the id after this one
NextOpId == current_op_id + 1

\* ... in a cluster with other members: send the Log to each of them and advance the id.
HandleRequest(q) ==
  /\ StoreRequest(q)
  /\ Cardinality(cluster) # 1
  /\ logs' = [r \in Replicas |->
                IF r \in cluster
                THEN Append(logs[r], [op_id |-> current_op_id, req |-> q])
                ELSE logs[r]]
  /\ current_op_id' = NextOpId
  /\ log' = Append(log, q)
  /\ UNCHANGED <<submitted, replies, cluster, panicked, stored, acks, dbVars,
                 ackedBy>>

\* Faulty variant: the replica stores and acknowledges, and executes nothing.
HandleLogWithoutCommit(r) ==
  /\ logs[r] # <<>>
  /\ logs' = [logs EXCEPT ![r] = Tail(@)]
  /\ stored' = [stored EXCEPT ![r] = Insert(@, Head(logs[r]).op_id, Head(logs[r]).req)]
  /\ acks' = [acks EXCEPT ![r] = Append(@, Head(logs[r]).op_id)]
  /\ UNCHANGED <<clientVars, leaderVars, dbVars, history>>

\* Replica::handle_log and commit_operation.  op_id 1 is acknowledged at once;
\* for the others the previous operation is executed, if it is there.
HandleLog(r) ==
  /\ logs[r] # <<>>
  /\ logs' = [logs EXCEPT ![r] = Tail(@)]
  /\ LET k    == Head(logs[r]).op_id
         held == Insert(stored[r], k, Head(logs[r]).req)
     IN  \/ /\ k = 1
            /\ stored' = [stored EXCEPT ![r] = held]
            /\ acks' = [acks EXCEPT ![r] = Append(@, 1)]
            /\ UNCHANGED issued
         \/ /\ k # 1 /\ k - 1 \in DOMAIN held
            /\ stored' = [stored EXCEPT ![r] = Remove(held, k - 1)]
            /\ issued' = [issued EXCEPT ![r] = Execute(@, k - 1, held[k - 1])]
            /\ UNCHANGED acks
         \/ /\ k # 1 /\ k - 1 \notin DOMAIN held
            /\ stored' = [stored EXCEPT ![r] = held]
            /\ UNCHANGED <<acks, issued>>
  /\ UNCHANGED <<clientVars, leaderVars, completed, history>>

\* Faulty variant: the Ack is one id ahead of what the replica has.
ReplicaResultAhead(r, i) ==
  /\ Completable(r, i)
  /\ completed' = [completed EXCEPT ![r] = Append(@, i)]
  /\ acks' = [acks EXCEPT ![r] = Append(@, issued[r][i].op_id + 2)]
  /\ UNCHANGED <<clientVars, leaderVars, stored, logs, issued, history>>

\* Replica::handle_operation_result: the execution of k is over, send Ack{k+1}.
ReplicaResult(r, i) ==
  /\ Completable(r, i)
  /\ completed' = [completed EXCEPT ![r] = Append(@, i)]
  /\ acks' = [acks EXCEPT ![r] = Append(@, issued[r][i].op_id + 1)]
  /\ UNCHANGED <<clientVars, leaderVars, stored, logs, issued, history>>

\* Faulty variants: every Ack from the threshold on; the leader waits for its own
\* Ack.
AtLeastThreshold(count) == count >= Cardinality(cluster) \div 2
AckOfEveryMember(count) == count = Cardinality(cluster)

\* round((cluster.len() - 1) / 2), halves away from zero
AckThreshold == Cardinality(cluster) \div 2

\* The test of handle_ack, on the count that includes the new Ack.
EnoughAcks(count) == count = AckThreshold \/ Cardinality(cluster) - 1 = 1

\* Leader::handle_ack.  The Ack of an operation that is no longer pending is
\* ignored; the one that makes enough of them executes the operation.
HandleAck(r) ==
  /\ ~panicked
  /\ acks[r] # <<>>
  /\ acks' = [acks EXCEPT ![r] = Tail(@)]
  /\ LET k == Head(acks[r])
     IN  /\ ackedBy' = ackedBy \cup {<<r, k>>}
         /\ \/ /\ k \notin DOMAIN operations
               /\ UNCHANGED <<operations, issued>>
            \/ /\ k \in DOMAIN operations
               /\ operations' = [operations EXCEPT ![k] =
                                 [req |-> @.req, ack_count |-> @.ack_count + 1]]
               /\ issued' = IF EnoughAcks(operations[k].ack_count + 1)
                            THEN [issued EXCEPT ![Leader] =
                                    Execute(@, k, operations[k].req)]
                            ELSE issued
  /\ UNCHANGED <<clientVars, current_op_id, cluster, panicked, stored, logs,
                 completed, log>>

\* Leader::handle_operation_result: the pending operation is removed and its
\* client gets the result; a result without pending operation is a panic.
LeaderResult(i) ==
  /\ ~panicked
  /\ Completable(Leader, i)
  /\ completed' = [completed EXCEPT ![Leader] = Append(@, i)]
  /\ LET e == issued[Leader][i]
     IN  \/ /\ e.op_id \in DOMAIN operations
            /\ operations' = Remove(operations, e.op_id)
            /\ replies' = Append(replies, [to |-> operations[e.op_id].req,
                                           of |-> e.req])
            /\ UNCHANGED panicked
         \/ /\ e.op_id \notin DOMAIN operations
            /\ panicked' = TRUE
            /\ UNCHANGED <<operations, replies>>
  /\ UNCHANGED <<submitted, inbox, current_op_id, cluster, replicaVars, issued,
                 history>>

-----------------------------------------------------------------------------
Next ==
  \/ \E q \in Requests, n \in Nodes : Submit(q, n)
  \/ \E q \in Requests : HandleRequest(q)
  \/ \E i \in 1..Len(issued[Leader]) : LeaderResult(i)
  \/ \E r \in Replicas :
       \/ \E q \in Requests : ForwardRequest(r, q)
       \/ HandleLog(r)
       \/ HandleAck(r)
       \/ \E i \in 1..Len(issued[r]) : ReplicaResult(r, i)

Spec == Init /\ [][Next]_vars

\* Every node runs its select! loop and its actor system: what is queued for
\* one of them is handled.  Nobody has to make a request.
Fairness ==
  /\ \A q \in Requests : WF_vars(HandleRequest(q))
  /\ WF_vars(\E i \in 1..Len(issued[Leader]) : LeaderResult(i))
  /\ \A r \in Replicas :
       /\ \A q \in Requests : WF_vars(ForwardRequest(r, q))
       /\ WF_vars(HandleLog(r))
       /\ WF_vars(HandleAck(r))
       /\ WF_vars(\E i \in 1..Len(issued[r]) : ReplicaResult(r, i))

FairSpec == Spec /\ Fairness

-----------------------------------------------------------------------------
(* Properties *)

\* Types of the state.
TypeOK ==
  /\ submitted \subseteq Requests
  /\ inbox \in [Nodes -> SUBSET Requests]
  /\ replies \in Seq(Reply)
  /\ current_op_id \in Nat \ {0}
  /\ cluster \subseteq Nodes
  /\ DOMAIN operations \subseteq Nat
  /\ \A k \in DOMAIN operations : operations[k] \in Pending
  /\ panicked \in BOOLEAN
  /\ DOMAIN stored = Replicas
  /\ \A r \in Replicas : /\ DOMAIN stored[r] \subseteq Nat
                         /\ \A k \in DOMAIN stored[r] : stored[r][k] \in Requests
  /\ logs \in [Replicas -> Seq(Entry)]
  /\ acks \in [Replicas -> Seq(Nat)]
  /\ issued \in [Nodes -> Seq(Entry)]
  /\ completed \in [Nodes -> Seq(Nat)]
  /\ log \in Seq(Requests)
  /\ ackedBy \subseteq Replicas \X Nat

\* Replica r holds operation k, the one of request q: it has stored it, or it
\* has given it to its database.
Holds(r, k, q) ==
  \/ k \in DOMAIN stored[r] /\ stored[r][k] = q
  \/ \E i \in 1..Len(issued[r]) : issued[r][i] = [op_id |-> k, req |-> q]

Holders(k, q) == {r \in Replicas : Holds(r, k, q)}

\* An operation that the leader executes is held by a majority of the nodes:
\* the leader and enough replicas that hold it under the same id
\* (Leader::handle_ack and Replica::handle_log).
MajorityHolds ==
  \A i \in 1..Len(issued[Leader]) :
    LET e == issued[Leader][i]
    IN  2 * (Cardinality(Holders(e.op_id, e.req)) + 1) > Cardinality(Nodes)

\* The leader never gets the result of an operation it does not know: the
\* .expect of Leader::handle_operation_result does not fire.
NoPanic == ~panicked

\* A client gets the result of its own request, although results and Acks of
\* several operations interleave at the leader.
OwnResult == \A i \in 1..Len(replies) : replies[i].to = replies[i].of

\* No client is answered twice (Leader::handle_operation_result).
AnsweredOnce ==
  \A i, j \in 1..Len(replies) : replies[i].to = replies[j].to => i = j

\* The requests executed by node n, in the order of their completion.
Applied(n) == [i \in 1..Len(completed[n]) |-> issued[n][completed[n][i]].req]

\* No node executes a request twice, however its Logs and Acks interleave.
ExecutesOnce ==
  \A n \in Nodes : \A i, j \in 1..Len(issued[n]) :
    issued[n][i].req = issued[n][j].req => i = j

\* A replica applies the operations of one actor in the order of the log, however
\* the executions of different actors overtake one another (README: the replicas
\* "apply them in the same order").
ReplicaOrder ==
  \A r \in Replicas : \A i, j \in 1..Len(completed[r]) :
    LET e == issued[r][completed[r][i]]
        f == issued[r][completed[r][j]]
    IN  i < j /\ Key[e.req] = Key[f.req] => e.op_id < f.op_id

\* Every node gives the operations of one actor to its database in the order of
\* their ids (README: the replicas "apply them in the same order, keeping their
\* own actor system synchronized with the leader's").
OrderPerActor ==
  \A n \in Nodes : \A i, j \in 1..Len(issued[n]) :
    i < j /\ Key[issued[n][i].req] = Key[issued[n][j].req] =>
      issued[n][i].op_id < issued[n][j].op_id

\* Every request is answered in the end.
Answered(q) == \E i \in 1..Len(replies) : replies[i].to = q
EveryRequestAnswered == \A q \in Requests : q \in submitted ~> Answered(q)

\* Every replica applies, in the end, every operation of the log but the last one:
\* it applies an operation when the next Log is there (Replica::handle_log).
AppliedBy(n, q) == \E i \in 1..Len(completed[n]) : Applied(n)[i] = q
Followed(q) == \E k \in 1..(Len(log) - 1) : log[k] = q
ReplicasCatchUp ==
  \A q \in Requests, r \in Replicas : Followed(q) ~> AppliedBy(r, q)
=============================================================================
