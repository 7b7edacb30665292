------------------------- MODULE ReplicationProofs -------------------------
(***************************************************************************)
(* Theorems about Replication for every set of replicas and of requests,   *)
(* and about ReplicationFailures: what the replicas execute while others   *)
(* of them crash, for any number of crashes.                               *)
(***************************************************************************)
EXTENDS ReplicationInvariant, FailuresInvariant, FiniteSetTheorems, TLAPS

-----------------------------------------------------------------------------
(* Type correctness *)

\* Every action keeps the state in its types.
LEMMA TypeStep == TypeOK /\ [Next]_vars => TypeOK'
<1> SUFFICES ASSUME TypeOK, [Next]_vars PROVE TypeOK'
  OBVIOUS
<1>1. ASSUME NEW q \in Requests, NEW n \in Nodes, Submit(q, n) PROVE TypeOK'
  BY <1>1 DEF TypeOK, Submit, leaderVars, replicaVars, dbVars, history
<1>2. ASSUME NEW q \in Requests, HandleRequest(q) PROVE TypeOK'
  <2>1. inbox' \in [Nodes -> SUBSET Requests]
    BY <1>2 DEF TypeOK, HandleRequest, NextOpId, StoreRequest
  <2>2. /\ DOMAIN operations' \subseteq Nat
        /\ \A k \in DOMAIN operations' : operations'[k] \in Pending
    BY <1>2 DEF TypeOK, HandleRequest, NextOpId, StoreRequest, Pending, Insert
  <2>3. logs' \in [Replicas -> Seq(Entry)]
    <3>1. [op_id |-> current_op_id, req |-> q] \in Entry
      BY DEF TypeOK, Entry
    <3> QED
      BY <1>2, <3>1 DEF TypeOK, HandleRequest, NextOpId
  <2>4. current_op_id' \in Nat \ {0} /\ log' \in Seq(Requests)
    BY <1>2 DEF TypeOK, HandleRequest, NextOpId
  <2> QED
    BY <1>2, <2>1, <2>2, <2>3, <2>4 DEF TypeOK, HandleRequest, NextOpId, dbVars
<1>3. ASSUME NEW i \in 1..Len(issued[Leader]), LeaderResult(i) PROVE TypeOK'
  <2>1. completed' \in [Nodes -> Seq(Nat)]
    BY <1>3 DEF TypeOK, LeaderResult, Nodes
  <2>2. issued[Leader][i] \in Entry
    BY <1>3 DEF TypeOK, Nodes
  <2>3. /\ DOMAIN operations' \subseteq Nat
        /\ \A k \in DOMAIN operations' : operations'[k] \in Pending
        /\ replies' \in Seq(Reply) /\ panicked' \in BOOLEAN
    <3> DEFINE k == issued[Leader][i].op_id
    <3>1. CASE k \in DOMAIN operations
      <4>1. [to |-> operations[k].req, of |-> issued[Leader][i].req] \in Reply
        BY <3>1, <2>2 DEF TypeOK, Reply, Pending, Entry
      <4>2. /\ operations' = Remove(operations, k)
            /\ replies' = Append(replies, [to |-> operations[k].req, of |-> issued[Leader][i].req])
            /\ panicked' = panicked
        BY <1>3, <3>1 DEF LeaderResult
      <4>3. replies \in Seq(Reply) /\ panicked \in BOOLEAN
        BY DEF TypeOK
      <4>4. replies' \in Seq(Reply)
        BY <4>1, <4>2, <4>3
      <4>5. /\ DOMAIN operations' \subseteq Nat
            /\ \A j \in DOMAIN operations' : operations'[j] \in Pending
        BY <4>2 DEF TypeOK, Remove, Restrict
      <4> QED
        BY <4>2, <4>3, <4>4, <4>5
    <3>2. CASE k \notin DOMAIN operations
      BY <1>3, <3>2 DEF LeaderResult, TypeOK
    <3> QED
      BY <3>1, <3>2
  <2> QED
    BY <1>3, <2>1, <2>3 DEF TypeOK, LeaderResult, replicaVars, history
<1>4. ASSUME NEW r \in Replicas, NEW q \in Requests, ForwardRequest(r, q)
      PROVE  TypeOK'
  BY <1>4 DEF TypeOK, ForwardRequest, leaderVars, replicaVars, dbVars, history
<1>5. ASSUME NEW r \in Replicas, HandleLog(r) PROVE TypeOK'
  <2> DEFINE k    == Head(logs[r]).op_id
             q    == Head(logs[r]).req
             held == Insert(stored[r], k, q)
  <2>1. Head(logs[r]) \in Entry /\ Tail(logs[r]) \in Seq(Entry)
    BY <1>5 DEF TypeOK, HandleLog
  <2>2. k \in Nat /\ q \in Requests
    BY <2>1 DEF Entry
  <2>3. DOMAIN held \subseteq Nat /\ \A j \in DOMAIN held : held[j] \in Requests
    BY <2>2 DEF TypeOK, Insert
  <2>4. /\ DOMAIN Remove(held, k - 1) \subseteq Nat
        /\ \A j \in DOMAIN Remove(held, k - 1) : Remove(held, k - 1)[j] \in Requests
    BY <2>3 DEF Remove, Restrict
  <2>5. logs' \in [Replicas -> Seq(Entry)]
    BY <1>5, <2>1 DEF TypeOK, HandleLog
  <2>6. /\ DOMAIN stored' = Replicas
        /\ \A s \in Replicas : /\ DOMAIN stored'[s] \subseteq Nat
                               /\ \A j \in DOMAIN stored'[s] : stored'[s][j] \in Requests
    <3>1. \/ stored' = [stored EXCEPT ![r] = held]
          \/ stored' = [stored EXCEPT ![r] = Remove(held, k - 1)]
      BY <1>5 DEF HandleLog
    <3> HIDE DEF held, k, q
    <3> QED
      BY <3>1, <2>3, <2>4 DEF TypeOK
  <2>7. acks' \in [Replicas -> Seq(Nat)]
    <3>1. acks' = acks \/ acks' = [acks EXCEPT ![r] = Append(@, 1)]
      BY <1>5 DEF HandleLog
    <3>2. acks \in [Replicas -> Seq(Nat)]
      BY DEF TypeOK
    <3>3. Append(acks[r], 1) \in Seq(Nat)
      BY <3>2
    <3> QED
      BY <3>1, <3>2, <3>3
  <2>8. issued' \in [Nodes -> Seq(Entry)]
    <3> DEFINE e == [op_id |-> k - 1, req |-> held[k - 1]]
    <3>1. \/ issued' = issued
          \/ k - 1 \in DOMAIN held /\ issued' = [issued EXCEPT ![r] = Append(@, e)]
      BY <1>5 DEF HandleLog, Execute
    <3>2. k - 1 \in DOMAIN held => e \in Entry
      BY <2>3 DEF Entry
    <3>3. issued \in [Nodes -> Seq(Entry)] /\ r \in Nodes
      BY DEF TypeOK, Nodes
    <3> HIDE DEF held, k, q, e
    <3>4. e \in Entry => Append(issued[r], e) \in Seq(Entry)
      BY <3>3
    <3> QED
      BY <3>1, <3>2, <3>3, <3>4
  <2> QED
    BY <1>5, <2>5, <2>6, <2>7, <2>8
    DEF TypeOK, HandleLog, clientVars, leaderVars, history
<1>6. ASSUME NEW r \in Replicas, HandleAck(r) PROVE TypeOK'
  <2> DEFINE k == Head(acks[r])
  <2>1. k \in Nat /\ Tail(acks[r]) \in Seq(Nat)
    BY <1>6 DEF TypeOK, HandleAck
  <2>2. acks' \in [Replicas -> Seq(Nat)] /\ ackedBy' \subseteq Replicas \X Nat
    BY <1>6, <2>1 DEF TypeOK, HandleAck
  <2>3. /\ DOMAIN operations' \subseteq Nat
        /\ \A j \in DOMAIN operations' : operations'[j] \in Pending
    <3> DEFINE p == [req |-> operations[k].req, ack_count |-> operations[k].ack_count + 1]
    <3>1. \/ operations' = operations
          \/ k \in DOMAIN operations /\ operations' = [operations EXCEPT ![k] = p]
      BY <1>6 DEF HandleAck
    <3>2. k \in DOMAIN operations => p \in Pending
      BY DEF TypeOK, Pending
    <3> HIDE DEF k, p
    <3> QED
      BY <3>1, <3>2 DEF TypeOK
  <2>4. issued' \in [Nodes -> Seq(Entry)]
    <3> DEFINE e == [op_id |-> k, req |-> operations[k].req]
    <3>1. \/ issued' = issued
          \/ k \in DOMAIN operations /\ issued' = [issued EXCEPT ![Leader] = Append(@, e)]
      BY <1>6 DEF HandleAck, Execute
    <3>2. k \in DOMAIN operations => e \in Entry
      BY <2>1 DEF Entry, TypeOK, Pending
    <3>3. issued \in [Nodes -> Seq(Entry)] /\ Leader \in Nodes
      BY DEF TypeOK, Nodes
    <3> HIDE DEF k, e
    <3>4. e \in Entry => Append(issued[Leader], e) \in Seq(Entry)
      BY <3>3
    <3> QED
      BY <3>1, <3>2, <3>3, <3>4
  <2> QED
    BY <1>6, <2>2, <2>3, <2>4 DEF TypeOK, HandleAck, clientVars
<1>7. ASSUME NEW r \in Replicas, NEW i \in 1..Len(issued[r]), ReplicaResult(r, i)
      PROVE  TypeOK'
  <2>1. issued[r][i].op_id \in Nat
    <3>1. issued[r][i] \in Entry
      BY DEF TypeOK, Nodes
    <3> QED
      BY <3>1 DEF Entry
  <2>2. completed' \in [Nodes -> Seq(Nat)] /\ acks' \in [Replicas -> Seq(Nat)]
    BY <1>7, <2>1 DEF TypeOK, ReplicaResult, Nodes
  <2> QED
    BY <1>7, <2>2 DEF TypeOK, ReplicaResult, clientVars, leaderVars, history
<1>8. CASE UNCHANGED vars
  BY <1>8 DEF TypeOK, vars, clientVars, leaderVars, replicaVars, dbVars, history
<1> QED
  BY <1>1, <1>2, <1>3, <1>4, <1>5, <1>6, <1>7, <1>8 DEF Next

\* The initial state has its types.
LEMMA InitType == Init => TypeOK
<1> SUFFICES ASSUME Init PROVE TypeOK
  OBVIOUS
<1>1. /\ inbox \in [Nodes -> SUBSET Requests]
      /\ logs \in [Replicas -> Seq(Entry)] /\ acks \in [Replicas -> Seq(Nat)]
      /\ issued \in [Nodes -> Seq(Entry)] /\ completed \in [Nodes -> Seq(Nat)]
      /\ replies \in Seq(Reply) /\ log \in Seq(Requests)
  BY DEF Init
<1>2. DOMAIN EmptyMap = {}
  BY DEF EmptyMap
<1> QED
  BY <1>1, <1>2, 1 \in Nat \ {0} DEF Init, TypeOK

\* The state of the leader, the replicas, their channels and their databases
\* keeps its types in every behaviour.
THEOREM TypeCorrect == Spec => []TypeOK
<1> QED
  BY InitType, TypeStep, PTL DEF Spec

-----------------------------------------------------------------------------
(* The inductive invariant *)

\* A sequence that has one more element.
LEMMA RangeAppend ==
  \A s \in Seq(Nat), x \in Nat : Range(Append(s, x)) = Range(s) \cup {x}
<1> TAKE s \in Seq(Nat), x \in Nat
<1>1. /\ Append(s, x)[Len(s) + 1] = x
      /\ \A i \in 1..Len(s) : Append(s, x)[i] = s[i]
  OBVIOUS
<1>2. DOMAIN s = 1..Len(s) /\ DOMAIN Append(s, x) = 1..(Len(s) + 1) /\ Len(s) \in Nat
  OBVIOUS
<1>3. Range(Append(s, x)) \subseteq Range(s) \cup {x}
  BY <1>1, <1>2 DEF Range
<1>4. Range(s) \subseteq Range(Append(s, x)) /\ x \in Range(Append(s, x))
  BY <1>1, <1>2 DEF Range
<1> QED
  BY <1>3, <1>4

\* The cluster is the leader and the replicas.
LEMMA ClusterSize ==
  /\ Cardinality(Replicas) \in Nat
  /\ Cardinality(Nodes) = Cardinality(Replicas) + 1
  /\ Cardinality(Replicas) >= 1
<1>1. Cardinality(Replicas) \in Nat
  BY ReplicasAssumption, FS_CardinalityType
<1>2. Cardinality(Nodes) = Cardinality(Replicas) + 1
  <2>1. Cardinality(Replicas \cup {Leader}) = Cardinality(Replicas) + 1
    BY LeaderAssumption, ReplicasAssumption, FS_AddElement
  <2>2. Nodes = Replicas \cup {Leader}
    BY DEF Nodes
  <2> QED
    BY <2>1, <2>2
<1>3. Cardinality(Replicas) >= 1
  BY <1>1, ReplicasAssumption, FS_EmptySet
<1> QED
  BY <1>1, <1>2, <1>3

\* A step that leaves alone what ChannelInv reads preserves it: the log and the
\* channels are unchanged.
LEMMA ChannelFrame ==
  ASSUME ChannelInv, UNCHANGED <<current_op_id, logs, log>>
  PROVE  ChannelInv'
  BY DEF ChannelInv, Received

\* A step that leaves alone what ReplicaInv reads preserves it: the log, the
\* channels, stored and issued are unchanged.
LEMMA ReplicaFrame ==
  ASSUME ReplicaInv, UNCHANGED <<current_op_id, logs, log, stored>>,
         \A r \in Replicas : issued'[r] = issued[r]
  PROVE  ReplicaInv'
<1>1. \A r \in Replicas : Received(r)' = Received(r)
  BY DEF Received
<1> QED
  BY <1>1 DEF ReplicaInv

\* A step that leaves alone what CompletedInv reads preserves it: the
\* databases are unchanged.
LEMMA CompletedFrame ==
  ASSUME CompletedInv, UNCHANGED <<issued, completed>>
  PROVE  CompletedInv'
  BY DEF CompletedInv

\* A step that leaves alone what AckInv reads preserves it: the channels, the
\* completions and ackedBy are unchanged.
LEMMA AckFrame ==
  ASSUME AckInv, UNCHANGED <<current_op_id, logs, acks, ackedBy, completed>>
  PROVE  AckInv'
  BY DEF AckInv, AckSent, Received

\* A step that leaves alone what PendingInv reads preserves it: the pending
\* operations, the log and ackedBy are unchanged.
LEMMA PendingFrame ==
  ASSUME PendingInv, UNCHANGED <<operations, log, ackedBy>>
  PROVE  PendingInv'
  BY DEF PendingInv, Ackers

\* A step that leaves alone what LeaderInv reads preserves it: the leader's
\* state and its database are unchanged.
LEMMA LeaderFrame ==
  ASSUME LeaderInv, UNCHANGED <<panicked, cluster, operations, log, ackedBy>>,
         issued'[Leader] = issued[Leader], completed'[Leader] = completed[Leader]
  PROVE  LeaderInv'
  BY DEF LeaderInv, Ackers, AckThreshold

\* A step that leaves alone what ReplyInv reads preserves it: the answers and
\* the leader's database are unchanged.
LEMMA ReplyFrame ==
  ASSUME ReplyInv, UNCHANGED replies,
         issued'[Leader] = issued[Leader], completed'[Leader] = completed[Leader]
  PROVE  ReplyInv'
  BY DEF ReplyInv

\* A step that only moves requests about preserves all but LogInv.
LEMMA RequestFrame ==
  ASSUME IInv, TypeOK', LogInv',
         UNCHANGED <<replies, leaderVars, replicaVars, dbVars, history>>
  PROVE  IInv'
<1> USE DEF leaderVars, replicaVars, dbVars, history
<1>1. ChannelInv' /\ ReplicaInv' /\ CompletedInv'
  BY ChannelFrame, ReplicaFrame, CompletedFrame DEF IInv
<1>2. AckInv' /\ PendingInv'
  BY AckFrame, PendingFrame DEF IInv
<1>3. LeaderInv' /\ ReplyInv'
  BY LeaderFrame, ReplyFrame DEF IInv
<1> QED
  BY <1>1, <1>2, <1>3 DEF IInv

\* Submit: the new request is in one inbox.
LEMMA SubmitStep ==
  ASSUME IInv, NEW q \in Requests, NEW n \in Nodes, Submit(q, n), TypeOK'
  PROVE  IInv'
<1>1. inbox \in [Nodes -> SUBSET Requests] /\ q \notin submitted
  BY DEF IInv, TypeOK, Submit
<1>2. /\ submitted' = submitted \cup {q}
      /\ inbox' = [inbox EXCEPT ![n] = inbox[n] \cup {q}]
      /\ UNCHANGED <<current_op_id, cluster, log>>
  BY DEF Submit, leaderVars, history
<1>3. LogInv'
  <2>1. \A m \in Nodes : /\ inbox'[m] \subseteq submitted'
                         /\ \A i \in 1..Len(log) : log[i] \notin inbox'[m]
    BY <1>1, <1>2 DEF IInv, LogInv
  <2>2. \A m, l \in Nodes : m # l => inbox'[m] \cap inbox'[l] = {}
    BY <1>1, <1>2 DEF IInv, LogInv
  <2> QED
    BY <1>2, <2>1, <2>2 DEF IInv, LogInv
<1> QED
  BY <1>3, RequestFrame DEF Submit

\* ForwardRequest moves a request from the inbox of a replica to the leader's.
LEMMA ForwardStep ==
  ASSUME IInv, NEW r \in Replicas, NEW q \in Requests, ForwardRequest(r, q), TypeOK'
  PROVE  IInv'
<1>1. /\ inbox \in [Nodes -> SUBSET Requests] /\ q \in inbox[r]
      /\ r \in Nodes /\ Leader \in Nodes /\ r # Leader
  BY LeaderAssumption DEF IInv, TypeOK, ForwardRequest, Nodes
<1>2. /\ inbox' = [inbox EXCEPT ![r] = @ \ {q}, ![Leader] = @ \cup {q}]
      /\ UNCHANGED <<submitted, current_op_id, cluster, log>>
  BY DEF ForwardRequest, leaderVars, history
<1>3. \A m \in Nodes : inbox'[m] = IF m = r THEN inbox[r] \ {q}
                                   ELSE IF m = Leader THEN inbox[Leader] \cup {q}
                                   ELSE inbox[m]
  BY <1>1, <1>2
<1>4. LogInv'
  <2>1. \A m \in Nodes : /\ inbox'[m] \subseteq submitted'
                         /\ \A i \in 1..Len(log) : log[i] \notin inbox'[m]
    BY <1>1, <1>2, <1>3 DEF IInv, LogInv
  <2>2. \A m, l \in Nodes : m # l => inbox'[m] \cap inbox'[l] = {}
    BY <1>1, <1>3 DEF IInv, LogInv
  <2> QED
    BY <1>2, <2>1, <2>2 DEF IInv, LogInv
<1> QED
  BY <1>4, RequestFrame DEF ForwardRequest

\* HandleRequest: the log, and the channel of every replica, gets one entry.
LEMMA RequestStep ==
  ASSUME IInv, NEW q \in Requests, HandleRequest(q), TypeOK'
  PROVE  IInv'
<1> DEFINE K == current_op_id
           e == [op_id |-> K, req |-> q]
           p == [req |-> q, ack_count |-> 0]
<1>1. /\ K \in Nat \ {0} /\ Len(log) = K - 1 /\ log \in Seq(Requests)
      /\ logs \in [Replicas -> Seq(Entry)] /\ inbox \in [Nodes -> SUBSET Requests]
      /\ cluster = Nodes /\ Leader \in Nodes /\ Replicas \subseteq Nodes
  BY DEF IInv, LogInv, TypeOK, Nodes
<1>2. /\ q \in inbox[Leader]
      /\ inbox' = [inbox EXCEPT ![Leader] = inbox[Leader] \ {q}]
      /\ operations' = Insert(operations, K, p)
      /\ current_op_id' = K + 1 /\ log' = Append(log, q)
      /\ UNCHANGED <<submitted, replies, cluster, panicked, stored, acks, issued,
                     completed, ackedBy>>
  BY DEF HandleRequest, NextOpId, StoreRequest, dbVars
<1>3. \A r \in Replicas : logs'[r] = Append(logs[r], e)
  BY <1>1 DEF HandleRequest, NextOpId
<1>4. /\ Len(log') = K /\ log'[K] = q
      /\ \A i \in 1..(K - 1) : log'[i] = log[i]
  BY <1>1, <1>2
<1>5. e \in Entry
  BY <1>1 DEF Entry
<1>6. \A r \in Replicas : /\ Len(logs[r]) \in Nat
                          /\ Len(logs'[r]) = Len(logs[r]) + 1
                          /\ logs'[r][Len(logs[r]) + 1] = e
                          /\ \A i \in 1..Len(logs[r]) : logs'[r][i] = logs[r][i]
  <2> HIDE DEF e
  <2> TAKE r \in Replicas
  <2>1. logs[r] \in Seq(Entry) /\ logs'[r] = Append(logs[r], e)
    BY <1>1, <1>3
  <2> QED
    BY <1>5, <2>1
<1>7. \A r \in Replicas : Received(r)' = Received(r) /\ Received(r) \in 0..(K - 1)
  <2> TAKE r \in Replicas
  <2>1. Received(r) \in Nat
    BY DEF IInv, ChannelInv
  <2>2. Received(r) = K - 1 - Len(logs[r]) /\ Received(r)' = (K + 1) - 1 - Len(logs'[r])
    BY <1>2 DEF Received
  <2>3. Len(logs[r]) \in Nat /\ Len(logs'[r]) = Len(logs[r]) + 1
    BY <1>6
  <2> HIDE DEF K
  <2> QED
    BY <1>1, <2>1, <2>2, <2>3
<1>8. LogInv'
  <2>1. \A m \in Nodes : inbox'[m] \subseteq inbox[m]
    BY <1>1, <1>2
  <2>2. q \in submitted /\ q \notin inbox'[Leader]
    BY <1>1, <1>2 DEF IInv, LogInv
  <2>3. \A m \in Nodes : q \notin inbox'[m]
    BY <1>1, <1>2, <2>2 DEF IInv, LogInv
  <2>4. \A i \in 1..(K - 1) : log[i] # q
    BY <1>1, <1>2 DEF IInv, LogInv
  <2>5. \A i, j \in 1..K : log'[i] = log'[j] => i = j
    BY <1>1, <1>4, <2>4 DEF IInv, LogInv
  <2>6. \A i \in 1..K : log'[i] \in submitted
    BY <1>1, <1>4, <2>2 DEF IInv, LogInv
  <2>7. \A m \in Nodes : \A i \in 1..K : log'[i] \notin inbox'[m]
    BY <1>1, <1>4, <2>1, <2>3 DEF IInv, LogInv
  <2>8. \A m, n \in Nodes : m # n => inbox'[m] \cap inbox'[n] = {}
    BY <2>1 DEF IInv, LogInv
  <2>9. \A m \in Nodes : inbox'[m] \subseteq submitted
    BY <2>1 DEF IInv, LogInv
  <2> QED
    BY <1>1, <1>2, <1>4, <2>5, <2>6, <2>7, <2>8, <2>9 DEF LogInv
<1>9. ChannelInv'
  <2> SUFFICES ASSUME NEW r \in Replicas, NEW i \in 1..Len(logs'[r])
               PROVE  /\ logs'[r][i].op_id = Received(r) + i
                      /\ logs'[r][i].req = log'[Received(r) + i]
    BY <1>7 DEF ChannelInv
  <2>1. CASE i \in 1..Len(logs[r])
    <3>1. Received(r) + i \in 1..(K - 1)
      BY <1>1, <1>6, <1>7, <2>1 DEF Received
    <3>2. logs[r][i].op_id = Received(r) + i /\ logs[r][i].req = log[Received(r) + i]
      BY <2>1 DEF IInv, ChannelInv
    <3>3. logs'[r][i] = logs[r][i]
      BY <1>6, <2>1
    <3>4. log'[Received(r) + i] = log[Received(r) + i]
      BY <1>4, <3>1
    <3> QED
      BY <3>2, <3>3, <3>4
  <2>2. CASE i = Len(logs[r]) + 1
    <3>1. Received(r) + i = K
      BY <1>1, <1>6, <2>2 DEF Received
    <3> QED
      BY <1>4, <1>6, <2>2, <3>1
  <2> QED
    BY <1>6, <2>1, <2>2
<1>10. ReplicaInv'
  <2> SUFFICES ASSUME NEW r \in Replicas
               PROVE  /\ \A k \in DOMAIN stored[r] : stored[r][k] = log'[k]
                      /\ \A i \in 1..Len(issued[r]) : issued[r][i].req = log'[i]
    BY <1>2, <1>7 DEF IInv, ReplicaInv
  <2>1. DOMAIN stored[r] \subseteq 1..(K - 1) /\ Len(issued[r]) \in 0..(K - 1)
    BY <1>1, <1>7 DEF IInv, ReplicaInv
  <2> QED
    BY <1>1, <1>4, <2>1 DEF IInv, ReplicaInv
<1>11. CompletedInv' /\ ReplyInv'
  BY <1>2, CompletedFrame, ReplyFrame DEF IInv
<1>12. AckInv'
  <2>1. \A r \in Replicas : \A k \in Nat : AckSent(r, k)' <=> AckSent(r, k)
    BY <1>2, <1>7 DEF AckSent
  <2>2. /\ \A r \in Replicas : \A i \in 1..Len(acks[r]) : acks[r][i] \in Nat
        /\ \A x \in ackedBy : x[1] \in Replicas /\ x[2] \in Nat
    <3>1. acks \in [Replicas -> Seq(Nat)] /\ ackedBy \subseteq Replicas \X Nat
      BY DEF IInv, TypeOK
    <3>2. ASSUME NEW r \in Replicas, NEW i \in 1..Len(acks[r]) PROVE acks[r][i] \in Nat
      <4>1. acks[r] \in Seq(Nat)
        BY <3>1
      <4> QED
        BY <3>2, <4>1
    <3>3. \A x \in ackedBy : x[1] \in Replicas /\ x[2] \in Nat
      BY <3>1
    <3> QED
      BY <3>2, <3>3
  <2> QED
    BY <1>2, <2>1, <2>2 DEF IInv, AckInv
<1>13. \A k : Ackers(k)' = Ackers(k)
  BY <1>2 DEF Ackers
<1>14. Cardinality(Ackers(K)) = 0
  <2>1. Ackers(K) = {}
    BY <1>1, <1>7 DEF IInv, AckInv, AckSent, Ackers
  <2> QED
    BY <2>1, FS_EmptySet
<1>15. /\ DOMAIN operations' = DOMAIN operations \cup {K}
       /\ operations'[K].req = q /\ operations'[K].ack_count = 0
       /\ \A k \in DOMAIN operations : k # K => operations'[k] = operations[k]
  BY <1>2 DEF Insert
<1>16. PendingInv'
  BY <1>1, <1>4, <1>13, <1>14, <1>15 DEF IInv, PendingInv
<1>17. LeaderInv'
  <2>1. \A i \in 1..Len(issued[Leader]) :
          Ackers(issued[Leader][i].op_id)' = Ackers(issued[Leader][i].op_id)
    BY <1>2 DEF Ackers
  <2>2. AckThreshold' = AckThreshold
    BY <1>2 DEF AckThreshold
  <2> QED
    BY <1>1, <1>2, <1>4, <1>15, <2>1, <2>2 DEF IInv, LeaderInv
<1> QED
  BY <1>8, <1>9, <1>10, <1>11, <1>12, <1>16, <1>17 DEF IInv

\* What the channel to r says of its first Log.
LEMMA HeadOfLog ==
  ASSUME IInv, NEW r \in Replicas, logs[r] # <<>>
  PROVE  /\ Head(logs[r]).op_id = Received(r) + 1
         /\ Head(logs[r]).req = log[Received(r) + 1]
         /\ Received(r) + 1 \in 1..Len(log)
<1>1. /\ logs[r] \in Seq(Entry) /\ Received(r) \in Nat
      /\ current_op_id \in Nat /\ Len(log) = current_op_id - 1
  BY DEF IInv, TypeOK, ChannelInv, LogInv
<1>2. Len(logs[r]) \in Nat /\ Len(logs[r]) > 0 /\ Head(logs[r]) = logs[r][1]
  BY <1>1
<1>3. 1 \in 1..Len(logs[r])
  BY <1>2
<1>4. Received(r) + 1 \in 1..Len(log)
  BY <1>1, <1>2 DEF Received
<1> QED
  BY <1>2, <1>3, <1>4 DEF IInv, ChannelInv

\* HandleLog: the replica has received one more operation; the previous one, if
\* any, goes to its database.
LEMMA HandleLogStep ==
  ASSUME IInv, NEW r \in Replicas, HandleLog(r), TypeOK'
  PROVE  IInv'
<1> DEFINE R == Received(r)
           held == Insert(stored[r], R + 1, log[R + 1])
           e == [op_id |-> R, req |-> held[R]]
<1>1. /\ logs[r] # <<>> /\ logs' = [logs EXCEPT ![r] = Tail(@)]
      /\ UNCHANGED <<submitted, inbox, replies, current_op_id, cluster, operations,
                     panicked, completed, log, ackedBy>>
  BY DEF HandleLog, clientVars, leaderVars, history
<1>2. /\ R \in Nat /\ R + 1 \in 1..Len(log)
      /\ Head(logs[r]).op_id = R + 1 /\ Head(logs[r]).req = log[R + 1]
  BY <1>1, HeadOfLog DEF IInv, ChannelInv
<1>3. \/ /\ R = 0
         /\ stored' = [stored EXCEPT ![r] = held]
         /\ acks' = [acks EXCEPT ![r] = Append(@, 1)]
         /\ issued' = issued
      \/ /\ R # 0 /\ R \in DOMAIN held
         /\ stored' = [stored EXCEPT ![r] = Remove(held, R)]
         /\ issued' = [issued EXCEPT ![r] = Append(@, e)]
         /\ acks' = acks
      \/ R # 0 /\ R \notin DOMAIN held
  <2>1. (R + 1) - 1 = R /\ (R + 1 = 1 <=> R = 0)
    BY <1>2
  <2> HIDE DEF R
  <2> QED
    BY <1>2, <2>1 DEF HandleLog, Execute
<1>4. /\ DOMAIN held = DOMAIN stored[r] \cup {R + 1}
      /\ held[R + 1] = log[R + 1]
      /\ \A k \in DOMAIN stored[r] : k # R + 1 => held[k] = stored[r][k]
  BY DEF Insert
<1> HIDE DEF held
<1>5. R # 0 => /\ R \in DOMAIN held /\ DOMAIN Remove(held, R) = {R + 1}
               /\ Remove(held, R)[R + 1] = log[R + 1] /\ held[R] = log[R]
  BY <1>2, <1>4 DEF IInv, ReplicaInv, Remove, Restrict
<1>6. R = 0 => DOMAIN held = {R + 1}
  BY <1>4 DEF IInv, ReplicaInv
<1>7. /\ DOMAIN stored'[r] = {R + 1} /\ stored'[r][R + 1] = log[R + 1]
      /\ \A s \in Replicas : s # r => stored'[s] = stored[s]
  BY <1>3, <1>4, <1>5, <1>6 DEF IInv, TypeOK
<1>8. /\ logs[r] \in Seq(Entry) /\ Len(logs[r]) \in Nat
      /\ logs'[r] = Tail(logs[r])
      /\ Len(logs'[r]) = Len(logs[r]) - 1
      /\ \A i \in 1..(Len(logs[r]) - 1) : logs'[r][i] = logs[r][i + 1]
      /\ \A s \in Replicas : s # r => logs'[s] = logs[s]
  <2>1. logs \in [Replicas -> Seq(Entry)]
    BY DEF IInv, TypeOK
  <2>2. logs[r] \in Seq(Entry) /\ logs'[r] = Tail(logs[r])
    BY <1>1, <2>1
  <2> QED
    BY <1>1, <2>1, <2>2
<1>9. /\ Received(r)' = R + 1
      /\ \A s \in Replicas : s # r => Received(s)' = Received(s)
  BY <1>1, <1>2, <1>8 DEF Received, IInv, TypeOK
<1>10. LogInv'
  BY <1>1 DEF IInv, LogInv
<1>11. ChannelInv'
  <2> SUFFICES ASSUME NEW s \in Replicas
               PROVE  /\ Received(s)' \in Nat
                      /\ \A i \in 1..Len(logs'[s]) :
                           /\ logs'[s][i].op_id = Received(s)' + i
                           /\ logs'[s][i].req = log[Received(s)' + i]
    BY <1>1 DEF ChannelInv
  <2>1. CASE s # r
    BY <1>8, <1>9, <2>1 DEF IInv, ChannelInv
  <2>2. CASE s = r
    <3> SUFFICES ASSUME NEW i \in 1..Len(logs'[r])
                 PROVE  /\ logs'[r][i].op_id = (R + 1) + i
                        /\ logs'[r][i].req = log[(R + 1) + i]
      BY <1>2, <1>9, <2>2
    <3>1. i \in 1..(Len(logs[r]) - 1) /\ i + 1 \in 1..Len(logs[r])
      BY <1>8
    <3>2. logs[r][i + 1].op_id = R + (i + 1) /\ logs[r][i + 1].req = log[R + (i + 1)]
      BY <3>1 DEF IInv, ChannelInv
    <3>3. R + (i + 1) = (R + 1) + i
      BY <1>2, <3>1
    <3> QED
      BY <1>8, <3>1, <3>2, <3>3
  <2> QED
    BY <2>1, <2>2
<1>12. issued \in [Nodes -> Seq(Entry)] /\ r \in Nodes /\ r # Leader /\ Leader \in Nodes
  BY LeaderAssumption DEF IInv, TypeOK, Nodes
<1>13. /\ \A n \in Nodes : n # r => issued'[n] = issued[n]
       /\ R = 0 => issued'[r] = issued[r]
       /\ R # 0 => /\ Len(issued'[r]) = Len(issued[r]) + 1
                   /\ issued'[r][Len(issued[r]) + 1] = e
                   /\ \A i \in 1..Len(issued[r]) : issued'[r][i] = issued[r][i]
  <2>1. CASE R = 0
    BY <1>3, <2>1
  <2>2. CASE R # 0
    <3>1. issued' = [issued EXCEPT ![r] = Append(@, e)]
      BY <1>3, <1>5, <2>2
    <3> HIDE DEF e
    <3>2. issued[r] \in Seq(Entry) /\ issued'[r] = Append(issued[r], e)
      BY <1>12, <3>1
    <3>3. issued'[r] \in Seq(Entry)
      BY <1>12 DEF TypeOK
    <3> QED
      BY <1>12, <2>2, <3>1, <3>2, <3>3
  <2> QED
    BY <2>1, <2>2
<1>14. ReplicaInv'
  <2> SUFFICES ASSUME NEW s \in Replicas
               PROVE  /\ Received(s)' = 0 => DOMAIN stored'[s] = {} /\ Len(issued'[s]) = 0
                      /\ Received(s)' # 0 => /\ DOMAIN stored'[s] = {Received(s)'}
                                             /\ Len(issued'[s]) = Received(s)' - 1
                      /\ \A k \in DOMAIN stored'[s] : stored'[s][k] = log[k]
                      /\ \A i \in 1..Len(issued'[s]) :
                           issued'[s][i].op_id = i /\ issued'[s][i].req = log[i]
    BY <1>1 DEF ReplicaInv
  <2>1. CASE s # r
    <3>1. issued'[s] = issued[s] /\ stored'[s] = stored[s] /\ Received(s)' = Received(s)
      BY <1>7, <1>9, <1>13, <2>1 DEF Nodes
    <3> QED
      BY <3>1 DEF IInv, ReplicaInv
  <2>2. CASE s = r
    <3>1. Received(r)' # 0 /\ DOMAIN stored'[r] = {Received(r)'}
      BY <1>2, <1>7, <1>9
    <3>2. \A k \in DOMAIN stored'[r] : stored'[r][k] = log[k]
      BY <1>7
    <3>3. CASE R = 0
      BY <1>9, <1>13, <2>2, <3>1, <3>2, <3>3 DEF IInv, ReplicaInv
    <3>4. CASE R # 0
      <4>1. Len(issued[r]) = R - 1 /\ Len(issued'[r]) = R
        BY <1>2, <1>13, <3>4 DEF IInv, ReplicaInv
      <4>2. e.op_id = R /\ e.req = log[R]
        BY <1>5, <3>4
      <4>3. \A i \in 1..R : issued'[r][i].op_id = i /\ issued'[r][i].req = log[i]
        <5>1. \A i \in 1..(R - 1) : issued[r][i].op_id = i /\ issued[r][i].req = log[i]
          BY <4>1 DEF IInv, ReplicaInv
        <5>2. /\ issued'[r][R] = e
              /\ \A i \in 1..(R - 1) : issued'[r][i] = issued[r][i]
          BY <1>2, <1>13, <3>4, <4>1
        <5>3. R \in Nat
          BY <1>2
        <5> HIDE DEF e, R
        <5>4. issued'[r][R].op_id = R /\ issued'[r][R].req = log[R]
          BY <4>2, <5>2
        <5>5. \A i \in 1..(R - 1) : issued'[r][i].op_id = i /\ issued'[r][i].req = log[i]
          BY <5>1, <5>2
        <5>6. \A i \in 1..R : i = R \/ i \in 1..(R - 1)
          BY <5>3
        <5> QED
          BY <5>4, <5>5, <5>6
      <4> QED
        BY <1>2, <1>9, <2>2, <3>1, <3>2, <4>1, <4>3
    <3> QED
      BY <3>3, <3>4
  <2> QED
    BY <2>1, <2>2
<1>15. CompletedInv'
  <2>1. \A n \in Nodes : Len(issued[n]) \in Nat /\ Len(issued'[n]) \in Nat
                         /\ Len(issued'[n]) >= Len(issued[n])
    <3>1. issued' \in [Nodes -> Seq(Entry)]
      BY DEF TypeOK
    <3>2. \A n \in Nodes : Len(issued[n]) \in Nat /\ Len(issued'[n]) \in Nat
      BY <1>12, <3>1
    <3> QED
      BY <1>13, <3>2
  <2>2. completed \in [Nodes -> Seq(Nat)]
    BY DEF IInv, TypeOK
  <2> QED
    BY <1>1, <2>1, <2>2 DEF IInv, CompletedInv
<1>16. AckInv'
  <2>1. \A s \in Replicas : \A k \in Nat : AckSent(s, k) => AckSent(s, k)'
    BY <1>1, <1>2, <1>9 DEF AckSent
  <2>2. /\ \A s \in Replicas : \A i \in 1..Len(acks[s]) : acks[s][i] \in Nat
        /\ \A x \in ackedBy : x[1] \in Replicas /\ x[2] \in Nat
        /\ acks \in [Replicas -> Seq(Nat)]
    <3>1. acks \in [Replicas -> Seq(Nat)] /\ ackedBy \subseteq Replicas \X Nat
      BY DEF IInv, TypeOK
    <3> QED
      BY <3>1
  <2>3. \A x \in ackedBy' : AckSent(x[1], x[2])'
    BY <1>1, <2>1, <2>2 DEF IInv, AckInv
  <2>4. CASE R # 0
    <3>1. acks' = acks
      BY <1>3, <1>5, <2>4
    <3> QED
      BY <1>1, <2>1, <2>2, <2>3, <3>1 DEF IInv, AckInv
  <2>5. CASE R = 0
    <3>1. acks' = [acks EXCEPT ![r] = Append(@, 1)]
      BY <1>3, <2>5
    <3>2. acks[r] = <<>> /\ \A k \in Nat : <<r, k>> \notin ackedBy
      <4>1. \A k \in Nat : ~AckSent(r, k)
        BY <2>5 DEF AckSent
      <4>2. Len(acks[r]) = 0
        <5>1. \A i \in 1..Len(acks[r]) : AckSent(r, acks[r][i]) /\ acks[r][i] \in Nat
          BY <2>2 DEF IInv, AckInv
        <5>2. 1 \notin 1..Len(acks[r]) /\ Len(acks[r]) \in Nat
          BY <2>2, <4>1, <5>1
        <5> QED
          BY <5>2
      <4>3. acks[r] = <<>>
        BY <2>2, <4>2
      <4>4. \A k \in Nat : <<r, k>> \in ackedBy => AckSent(r, k)
        BY DEF IInv, AckInv
      <4> QED
        BY <4>1, <4>3, <4>4
    <3>3. acks'[r] = <<1>> /\ \A s \in Replicas : s # r => acks'[s] = acks[s]
      BY <2>2, <3>1, <3>2
    <3>4. AckSent(r, 1)'
      BY <1>9, <2>5 DEF AckSent
    <3>5. Len(acks'[r]) = 1 /\ acks'[r][1] = 1
      BY <3>3
    <3>6. \A i \in 1..Len(acks'[r]) : /\ AckSent(r, acks[r][i])'
                                      /\ <<r, acks'[r][i]>> \notin ackedBy'
      BY <1>1, <3>2, <3>4, <3>5
    <3>7. \A i, j \in 1..Len(acks'[r]) : acks'[r][i] = acks'[r][j] => i = j
      BY <3>5
    <3>8. ASSUME NEW s \in Replicas, s # r
          PROVE  /\ \A i \in 1..Len(acks'[s]) : /\ AckSent(s, acks[s][i])'
                                                /\ <<s, acks'[s][i]>> \notin ackedBy'
                 /\ \A i, j \in 1..Len(acks'[s]) : acks'[s][i] = acks'[s][j] => i = j
      BY <1>1, <2>1, <2>2, <3>3, <3>8 DEF IInv, AckInv
    <3> QED
      BY <2>3, <3>6, <3>7, <3>8 DEF AckInv
  <2> QED
    BY <2>4, <2>5
<1>17. PendingInv'
  BY <1>1, PendingFrame DEF IInv
<1>18. LeaderInv' /\ ReplyInv'
  BY <1>1, <1>12, <1>13, LeaderFrame, ReplyFrame DEF IInv
<1> QED
  BY <1>10, <1>11, <1>14, <1>15, <1>16, <1>17, <1>18 DEF IInv

\* Appending a new element to a sequence without duplicates leaves it so.
LEMMA AppendInjective ==
  ASSUME NEW S, NEW s \in Seq(S), NEW x \in S,
         \A i, j \in 1..Len(s) : s[i] = s[j] => i = j,
         \A i \in 1..Len(s) : s[i] # x
  PROVE  \A i, j \in 1..Len(Append(s, x)) : Append(s, x)[i] = Append(s, x)[j] => i = j
<1>1. /\ Len(s) \in Nat /\ Len(Append(s, x)) = Len(s) + 1
      /\ Append(s, x)[Len(s) + 1] = x
      /\ \A i \in 1..Len(s) : Append(s, x)[i] = s[i]
  OBVIOUS
<1> QED
  BY <1>1

\* A position that completes now was not in the list of the completed ones.
LEMMA CompleteStep ==
  ASSUME CompletedInv, NEW n \in Nodes, NEW i, Completable(n, i), UNCHANGED issued,
         completed \in [Nodes -> Seq(Nat)], issued \in [Nodes -> Seq(Entry)],
         completed' = [completed EXCEPT ![n] = Append(@, i)]
  PROVE  /\ CompletedInv'
         /\ i \in 1..Len(issued[n]) /\ i \notin Range(completed[n])
         /\ Range(completed'[n]) = Range(completed[n]) \cup {i}
<1>1. i \in 1..Len(issued[n]) /\ i \notin Range(completed[n]) /\ i \in Nat
  BY DEF Completable
<1>2. /\ completed[n] \in Seq(Nat) /\ completed'[n] = Append(completed[n], i)
      /\ \A m \in Nodes : m # n => completed'[m] = completed[m]
  OBVIOUS
<1>3. Range(completed'[n]) = Range(completed[n]) \cup {i}
  <2>1. Range(Append(completed[n], i)) = Range(completed[n]) \cup {i}
    BY <1>1, <1>2, RangeAppend, Zenon
  <2> QED
    BY <1>2, <2>1
<1>4. \A j \in 1..Len(completed[n]) : completed[n][j] # i
  BY <1>1, <1>2 DEF Range
<1>5. \A j, l \in 1..Len(completed'[n]) : completed'[n][j] = completed'[n][l] => j = l
  BY <1>1, <1>2, <1>4, AppendInjective DEF CompletedInv
<1>6. \A j \in 1..Len(completed'[n]) : completed'[n][j] \in 1..Len(issued[n])
  <2>1. /\ Len(completed'[n]) = Len(completed[n]) + 1 /\ Len(completed[n]) \in Nat
        /\ completed'[n][Len(completed[n]) + 1] = i
        /\ \A j \in 1..Len(completed[n]) : completed'[n][j] = completed[n][j]
    BY <1>1, <1>2
  <2> QED
    BY <1>1, <2>1 DEF CompletedInv
<1>7. CompletedInv'
  <2> SUFFICES ASSUME NEW m \in Nodes
               PROVE  /\ \A j \in 1..Len(completed'[m]) : completed'[m][j] \in 1..Len(issued[m])
                      /\ \A j, l \in 1..Len(completed'[m]) :
                           completed'[m][j] = completed'[m][l] => j = l
    BY DEF CompletedInv
  <2>1. CASE m = n
    BY <1>5, <1>6, <2>1
  <2>2. CASE m # n
    BY <1>2, <2>2 DEF CompletedInv
  <2> QED
    BY <2>1, <2>2
<1> QED
  BY <1>1, <1>3, <1>7

\* ReplicaResult: operation i has completed, the Ack of i + 1 is sent, for the
\* first time.
LEMMA ReplicaResultStep ==
  ASSUME IInv, NEW r \in Replicas, NEW i \in 1..Len(issued[r]), ReplicaResult(r, i),
         TypeOK'
  PROVE  IInv'
<1> DEFINE K == i + 1
<1>1. /\ completed' = [completed EXCEPT ![r] = Append(@, i)]
      /\ acks' = [acks EXCEPT ![r] = Append(@, issued[r][i].op_id + 1)]
      /\ UNCHANGED <<submitted, inbox, replies, current_op_id, cluster, operations,
                     panicked, stored, logs, issued, log, ackedBy>>
      /\ Completable(r, i)
  BY DEF ReplicaResult, clientVars, leaderVars, history
<1>2. /\ completed \in [Nodes -> Seq(Nat)] /\ issued \in [Nodes -> Seq(Entry)]
      /\ acks \in [Replicas -> Seq(Nat)] /\ ackedBy \subseteq Replicas \X Nat
  BY DEF IInv, TypeOK
<1>3. r \in Nodes /\ Leader \in Nodes /\ r # Leader /\ Replicas \subseteq Nodes
  BY LeaderAssumption DEF Nodes
<1>4. /\ CompletedInv' /\ i \notin Range(completed[r])
      /\ Range(completed'[r]) = Range(completed[r]) \cup {i}
  BY <1>1, <1>2, <1>3, CompleteStep DEF IInv
<1>5. /\ K \in Nat /\ issued[r][i].op_id = i
      /\ K \in 1..Received(r) /\ K # 1 /\ K - 1 = i
  <2>1. issued[r][i].op_id = i /\ Received(r) \in Nat /\ Len(issued[r]) \in Nat
    BY <1>2, <1>3 DEF IInv, ReplicaInv, ChannelInv
  <2>2. Received(r) # 0 /\ Len(issued[r]) = Received(r) - 1
    BY <2>1 DEF IInv, ReplicaInv
  <2> QED
    BY <2>1, <2>2
<1> HIDE DEF K
<1>6. \A s \in Replicas : Received(s)' = Received(s)
  BY <1>1 DEF Received
<1>7. /\ completed'[r] = Append(completed[r], i)
      /\ \A n \in Nodes : n # r => completed'[n] = completed[n]
  BY <1>1, <1>2, <1>3
<1>8. /\ acks'[r] = Append(acks[r], K) /\ acks[r] \in Seq(Nat)
      /\ \A s \in Replicas : s # r => acks'[s] = acks[s]
  BY <1>1, <1>2, <1>5 DEF K
<1>9. AckInv'
  <2>1. \A s \in Replicas : \A k \in Nat : AckSent(s, k) => AckSent(s, k)'
    BY <1>3, <1>4, <1>6, <1>7 DEF AckSent
  <2>2. ~AckSent(r, K) /\ AckSent(r, K)'
    BY <1>4, <1>5, <1>6 DEF AckSent
  <2>3. /\ \A s \in Replicas : \A j \in 1..Len(acks[s]) : acks[s][j] \in Nat
        /\ \A x \in ackedBy : x[1] \in Replicas /\ x[2] \in Nat
    BY <1>2
  <2>4. <<r, K>> \notin ackedBy
    BY <2>2 DEF IInv, AckInv
  <2>5. \A j \in 1..Len(acks[r]) : acks[r][j] # K
    <3>1. \A j \in 1..Len(acks[r]) : AckSent(r, acks[r][j])
      BY DEF IInv, AckInv
    <3> QED
      BY <2>2, <3>1, Zenon
  <2>6. \A j, l \in 1..Len(acks'[r]) : acks'[r][j] = acks'[r][l] => j = l
    <3>1. \A j, l \in 1..Len(acks[r]) : acks[r][j] = acks[r][l] => j = l
      BY DEF IInv, AckInv
    <3>2. acks[r] \in Seq(Nat) /\ K \in Nat /\ acks'[r] = Append(acks[r], K)
      BY <1>5, <1>8
    <3>3. \A j, l \in 1..Len(Append(acks[r], K)) :
            Append(acks[r], K)[j] = Append(acks[r], K)[l] => j = l
      BY <2>5, <3>1, <3>2, AppendInjective
    <3> QED
      BY <3>2, <3>3
  <2>7. /\ Len(acks'[r]) = Len(acks[r]) + 1 /\ Len(acks[r]) \in Nat
        /\ acks'[r][Len(acks[r]) + 1] = K
        /\ \A j \in 1..Len(acks[r]) : acks'[r][j] = acks[r][j]
    BY <1>5, <1>8
  <2>8. ASSUME NEW j \in 1..Len(acks'[r])
        PROVE  AckSent(r, acks[r][j])' /\ <<r, acks[r][j]>>' \notin ackedBy'
    <3>1. CASE j \in 1..Len(acks[r])
      <4>1. AckSent(r, acks[r][j]) /\ <<r, acks[r][j]>> \notin ackedBy
        BY <3>1 DEF IInv, AckInv
      <4>2. acks'[r][j] = acks[r][j] /\ ackedBy' = ackedBy
        BY <1>1, <2>7, <3>1
      <4>3. acks[r][j] \in Nat
        BY <2>3, <3>1
      <4> QED
        BY <2>1, <4>1, <4>2, <4>3
    <3>2. CASE j = Len(acks[r]) + 1
      <4>1. acks'[r][j] = K /\ ackedBy' = ackedBy
        BY <1>1, <2>7, <3>2
      <4> QED
        BY <2>2, <2>4, <4>1
    <3> QED
      BY <2>7, <3>1, <3>2
  <2>9. ASSUME NEW s \in Replicas, s # r
        PROVE  /\ \A j \in 1..Len(acks'[s]) : /\ AckSent(s, acks[s][j])'
                                              /\ <<s, acks[s][j]>>' \notin ackedBy'
               /\ \A j, l \in 1..Len(acks'[s]) : acks'[s][j] = acks'[s][l] => j = l
    BY <1>1, <1>8, <2>1, <2>3, <2>9 DEF IInv, AckInv
  <2>10. \A x \in ackedBy' : AckSent(x[1], x[2])'
    BY <1>1, <2>1, <2>3 DEF IInv, AckInv
  <2> QED
    BY <2>6, <2>8, <2>9, <2>10 DEF AckInv
<1>10. LogInv' /\ PendingInv'
  BY <1>1, PendingFrame DEF IInv, LogInv
<1>11. ChannelInv' /\ ReplicaInv'
  BY <1>1, ChannelFrame, ReplicaFrame DEF IInv
<1>12. LeaderInv' /\ ReplyInv'
  BY <1>1, <1>3, <1>7, LeaderFrame, ReplyFrame DEF IInv
<1> QED
  BY <1>4, <1>9, <1>10, <1>11, <1>12 DEF IInv

\* HandleAck: one more replica has acknowledged.  The leader issues the
\* operation when the count reaches the threshold, which it does only once.
LEMMA HandleAckStep ==
  ASSUME IInv, NEW r \in Replicas, HandleAck(r), TypeOK'
  PROVE  IInv'
<1>0. PICK K \in Nat : K = Head(acks[r]) /\ acks[r] # <<>>
  <2>1. acks \in [Replicas -> Seq(Nat)] /\ acks[r] # <<>>
    BY DEF IInv, TypeOK, HandleAck
  <2> QED
    BY <2>1
<1> DEFINE p == [req |-> operations[K].req, ack_count |-> operations[K].ack_count + 1]
           e == [op_id |-> K, req |-> operations[K].req]
<1>1. /\ acks[r] # <<>> /\ acks' = [acks EXCEPT ![r] = Tail(@)]
      /\ ackedBy' = ackedBy \cup {<<r, K>>}
      /\ UNCHANGED <<submitted, inbox, replies, current_op_id, cluster, panicked,
                     stored, logs, completed, log>>
  BY <1>0 DEF HandleAck, clientVars
<1>2. \/ K \notin DOMAIN operations /\ UNCHANGED <<operations, issued>>
      \/ /\ K \in DOMAIN operations
         /\ operations' = [operations EXCEPT ![K] = p]
         /\ issued' = IF EnoughAcks(operations[K].ack_count + 1)
                      THEN [issued EXCEPT ![Leader] = Append(@, e)] ELSE issued
  BY <1>0 DEF HandleAck, Execute
<1>3. /\ acks \in [Replicas -> Seq(Nat)] /\ ackedBy \subseteq Replicas \X Nat
      /\ issued \in [Nodes -> Seq(Entry)] /\ completed \in [Nodes -> Seq(Nat)]
      /\ Leader \in Nodes /\ r \in Nodes /\ r # Leader /\ Replicas \subseteq Nodes
  BY LeaderAssumption DEF IInv, TypeOK, Nodes
<1>4. /\ acks[r] \in Seq(Nat) /\ acks'[r] = Tail(acks[r])
      /\ K = acks[r][1] /\ K \in Nat /\ Len(acks[r]) \in Nat /\ Len(acks[r]) > 0
      /\ Len(acks'[r]) = Len(acks[r]) - 1
      /\ \A i \in 1..(Len(acks[r]) - 1) : acks'[r][i] = acks[r][i + 1]
      /\ \A s \in Replicas : s # r => acks'[s] = acks[s]
  <2>1. acks[r] \in Seq(Nat) /\ acks'[r] = Tail(acks[r])
    BY <1>1, <1>3
  <2> QED
    BY <1>0, <1>1, <1>3, <2>1
<1>5. AckSent(r, K) /\ <<r, K>> \notin ackedBy
  <2>1. 1 \in 1..Len(acks[r])
    BY <1>4
  <2> QED
    BY <1>4, <2>1 DEF IInv, AckInv
<1>6. Ackers(K)' = Ackers(K) \cup {r} /\ r \notin Ackers(K) /\ Ackers(K) \subseteq Replicas
  BY <1>1, <1>5 DEF Ackers
<1>7. \A k : k # K => Ackers(k)' = Ackers(k)
  BY <1>1 DEF Ackers
<1>8. /\ Cardinality(Ackers(K)) \in Nat
      /\ Cardinality(Ackers(K)') = Cardinality(Ackers(K)) + 1
      /\ Cardinality(Ackers(K)') <= Cardinality(Replicas)
  <2>1. IsFiniteSet(Ackers(K))
    BY <1>6, ReplicasAssumption, FS_Subset
  <2>2. Cardinality(Ackers(K) \cup {r}) = Cardinality(Ackers(K)) + 1
    BY <1>6, <2>1, FS_AddElement
  <2>3. Cardinality(Ackers(K) \cup {r}) <= Cardinality(Replicas)
    <3>1. Ackers(K) \cup {r} \subseteq Replicas
      BY <1>6
    <3> QED
      BY <3>1, ReplicasAssumption, FS_Subset
  <2> QED
    BY <1>6, <2>1, <2>2, <2>3, FS_CardinalityType
<1>9. \A k \in Nat : Cardinality(Ackers(k)') >= Cardinality(Ackers(k))
  <2> SUFFICES ASSUME NEW k \in Nat
               PROVE  Cardinality(Ackers(k)') >= Cardinality(Ackers(k))
    OBVIOUS
  <2>1. IsFiniteSet(Ackers(k)) /\ Cardinality(Ackers(k)) \in Nat
    <3>1. Ackers(k) \subseteq Replicas
      BY DEF Ackers
    <3> QED
      BY <3>1, ReplicasAssumption, FS_Subset, FS_CardinalityType
  <2>2. CASE k = K
    BY <1>8, <2>2
  <2>3. CASE k # K
    BY <1>7, <2>1, <2>3
  <2> QED
    BY <2>2, <2>3
<1>10. LogInv' /\ ChannelInv'
  BY <1>1, ChannelFrame DEF IInv, LogInv
<1>11. /\ \A n \in Nodes : n # Leader => issued'[n] = issued[n]
       /\ \/ issued'[Leader] = issued[Leader]
          \/ /\ K \in DOMAIN operations /\ EnoughAcks(operations[K].ack_count + 1)
             /\ issued'[Leader] = Append(issued[Leader], e)
  <2> HIDE DEF e
  <2> QED
    BY <1>2, <1>3
<1>12. ReplicaInv'
  <2>1. \A s \in Replicas : issued'[s] = issued[s]
    BY <1>3, <1>11, LeaderAssumption
  <2> QED
    BY <1>1, <2>1, ReplicaFrame DEF IInv
<1>13. AckInv'
  <2>1. \A s \in Replicas : \A k \in Nat : AckSent(s, k)' <=> AckSent(s, k)
    BY <1>1 DEF AckSent, Received
  <2>2. /\ \A s \in Replicas : \A j \in 1..Len(acks[s]) : acks[s][j] \in Nat
        /\ \A x \in ackedBy : x[1] \in Replicas /\ x[2] \in Nat
    <3>1. ASSUME NEW s \in Replicas, NEW j \in 1..Len(acks[s]) PROVE acks[s][j] \in Nat
      <4>1. acks[s] \in Seq(Nat)
        BY <1>3
      <4> QED
        BY <3>1, <4>1
    <3>2. \A x \in ackedBy : x[1] \in Replicas /\ x[2] \in Nat
      BY <1>3
    <3> QED
      BY <3>1, <3>2
  <2>3. \A x \in ackedBy' : AckSent(x[1], x[2])'
    BY <1>1, <1>4, <1>5, <2>1, <2>2 DEF IInv, AckInv
  <2>4. ASSUME NEW j \in 1..Len(acks'[r])
        PROVE  AckSent(r, acks[r][j])' /\ <<r, acks[r][j]>>' \notin ackedBy'
    <3>1. j \in 1..(Len(acks[r]) - 1) /\ j + 1 \in 1..Len(acks[r]) /\ 1 \in 1..Len(acks[r]) /\ j + 1 # 1
      BY <1>4
    <3>2. acks'[r][j] = acks[r][j + 1] /\ acks[r][j + 1] # K
      BY <1>4, <3>1 DEF IInv, AckInv
    <3>3. AckSent(r, acks[r][j + 1]) /\ <<r, acks[r][j + 1]>> \notin ackedBy
      BY <3>1 DEF IInv, AckInv
    <3>4. AckSent(r, acks[r][j])' <=> AckSent(r, acks[r][j + 1])
      BY <1>1, <3>2 DEF AckSent, Received
    <3>5. <<r, acks'[r][j]>> \notin ackedBy'
      <4>1. <<r, acks[r][j + 1]>> # <<r, K>>
        BY <3>2
      <4>2. <<r, acks[r][j + 1]>> \notin ackedBy \cup {<<r, K>>}
        BY <3>3, <4>1
      <4> QED
        BY <1>1, <3>2, <4>2
    <3> QED
      BY <3>3, <3>4, <3>5
  <2>5. \A j, l \in 1..Len(acks'[r]) : acks'[r][j] = acks'[r][l] => j = l
    <3>1. \A j, l \in 1..Len(acks[r]) : acks[r][j] = acks[r][l] => j = l
      BY DEF IInv, AckInv
    <3> SUFFICES ASSUME NEW j \in 1..Len(acks'[r]), NEW l \in 1..Len(acks'[r]),
                        acks'[r][j] = acks'[r][l]
                 PROVE  j = l
      OBVIOUS
    <3>2. /\ j \in 1..(Len(acks[r]) - 1) /\ l \in 1..(Len(acks[r]) - 1)
          /\ j + 1 \in 1..Len(acks[r]) /\ l + 1 \in 1..Len(acks[r])
      BY <1>4
    <3>3. acks[r][j + 1] = acks[r][l + 1]
      BY <1>4, <3>2
    <3>4. j + 1 = l + 1
      BY <3>1, <3>2, <3>3
    <3> QED
      BY <3>2, <3>4
  <2>6. ASSUME NEW s \in Replicas, s # r
        PROVE  /\ \A j \in 1..Len(acks'[s]) : /\ AckSent(s, acks[s][j])'
                                              /\ <<s, acks[s][j]>>' \notin ackedBy'
               /\ \A j, l \in 1..Len(acks'[s]) : acks'[s][j] = acks'[s][l] => j = l
    BY <1>1, <1>4, <2>1, <2>2, <2>6 DEF IInv, AckInv
  <2> QED
    BY <2>3, <2>4, <2>5, <2>6 DEF AckInv
<1>14. /\ DOMAIN operations' = DOMAIN operations
       /\ \A k \in DOMAIN operations :
            /\ operations'[k].req = operations[k].req
            /\ k # K => operations'[k].ack_count = operations[k].ack_count
            /\ k = K => operations'[k].ack_count = operations[k].ack_count + 1
  BY <1>2
<1>15. PendingInv'
  BY <1>1, <1>7, <1>8, <1>14 DEF IInv, PendingInv
<1>16. CASE issued'[Leader] = issued[Leader]
  <2>1. issued' = issued
    BY <1>2, <1>3, <1>11, <1>16 DEF TypeOK
  <2>2. CompletedInv' /\ ReplyInv'
    BY <1>1, <2>1, CompletedFrame, ReplyFrame DEF IInv
  <2>3. LeaderInv'
    <3>1. \A i \in 1..Len(issued[Leader]) : issued[Leader][i].op_id \in Nat
      BY DEF IInv, LeaderInv
    <3>2. AckThreshold \in Nat /\ AckThreshold' = AckThreshold
      BY <1>1, ClusterSize DEF AckThreshold, IInv, LogInv
    <3>3. ASSUME NEW i \in 1..Len(issued[Leader])
          PROVE  Cardinality(Ackers(issued[Leader][i].op_id)') >= AckThreshold
      <4>1. PICK k \in Nat : k = issued[Leader][i].op_id
        BY <3>1
      <4>2. Ackers(k)' = Ackers(issued[Leader][i].op_id)'
        BY <2>1, <4>1 DEF Ackers
      <4>3. Cardinality(Ackers(k)) >= AckThreshold
        BY <4>1 DEF IInv, LeaderInv
      <4>4. Cardinality(Ackers(k)) \in Nat /\ Cardinality(Ackers(k)') \in Nat
        <5>1. Ackers(k) \subseteq Replicas /\ Ackers(k)' \subseteq Replicas
          BY DEF Ackers
        <5> QED
          BY <5>1, ReplicasAssumption, FS_Subset, FS_CardinalityType
      <4> QED
        BY <1>9, <3>2, <4>2, <4>3, <4>4
    <3> QED
      BY <1>1, <1>14, <2>1, <3>2, <3>3 DEF IInv, LeaderInv
  <2> QED
    BY <1>10, <1>12, <1>13, <1>15, <2>2, <2>3 DEF IInv
<1>17. CASE /\ K \in DOMAIN operations /\ EnoughAcks(operations[K].ack_count + 1)
            /\ issued'[Leader] = Append(issued[Leader], e)
  <2> DEFINE L == Len(issued[Leader])
  <2>1. /\ operations[K].ack_count = Cardinality(Ackers(K))
        /\ operations[K].req = log[K] /\ K \in 1..Len(log)
    BY <1>17 DEF IInv, PendingInv
  <2>2. Cardinality(Ackers(K)) + 1 = AckThreshold
    <3>1. /\ Cardinality(cluster) = Cardinality(Replicas) + 1
          /\ Cardinality(Replicas) \in Nat
      BY ClusterSize DEF IInv, LogInv
    <3>2. CASE Cardinality(cluster) - 1 = 1
      BY <1>8, <3>1, <3>2 DEF AckThreshold
    <3>3. CASE Cardinality(cluster) - 1 # 1
      BY <1>17, <2>1, <3>3 DEF EnoughAcks
    <3> QED
      BY <3>2, <3>3
  <2>3. AckThreshold \in Nat /\ AckThreshold' = AckThreshold
    BY <1>1, ClusterSize DEF AckThreshold, IInv, LogInv
  <2>4. e \in Entry /\ e.op_id = K /\ e.req = log[K]
    BY <1>4, <1>17, <2>1 DEF Entry, IInv, TypeOK, Pending
  <2> HIDE DEF e
  <2>5. /\ L \in Nat /\ Len(issued'[Leader]) = L + 1 /\ issued'[Leader][L + 1] = e
        /\ \A i \in 1..L : issued'[Leader][i] = issued[Leader][i]
    BY <1>3, <1>17, <2>4
  <2>6. \A i \in 1..L : issued[Leader][i].op_id # K
    BY <1>8, <2>2, <2>3 DEF IInv, LeaderInv
  <2>7. \A i \in Range(completed[Leader]) : i \in 1..L
    BY <1>3 DEF IInv, CompletedInv, Range
  <2>8. LeaderInv'
    <3>1. ~panicked'
      BY <1>1 DEF IInv, LeaderInv
    <3>2. \A i, j \in 1..(L + 1) :
            issued'[Leader][i].op_id = issued'[Leader][j].op_id => i = j
      <4>1. \A i, j \in 1..L : issued[Leader][i].op_id = issued[Leader][j].op_id => i = j
        BY DEF IInv, LeaderInv
      <4> HIDE DEF L
      <4> SUFFICES ASSUME NEW i \in 1..(L + 1), NEW j \in 1..(L + 1), i # j
                   PROVE  issued'[Leader][i].op_id # issued'[Leader][j].op_id
        OBVIOUS
      <4>2. CASE i \in 1..L /\ j \in 1..L
        BY <2>5, <4>1, <4>2
      <4>3. CASE i = L + 1 /\ j \in 1..L
        BY <2>4, <2>5, <2>6, <4>3
      <4>4. CASE j = L + 1 /\ i \in 1..L
        BY <2>4, <2>5, <2>6, <4>4
      <4> QED
        BY <2>5, <4>2, <4>3, <4>4
    <3>3. ASSUME NEW i \in 1..(L + 1)
          PROVE  /\ issued'[Leader][i].op_id \in 1..Len(log)
                 /\ issued'[Leader][i].req = log[issued'[Leader][i].op_id]
                 /\ Cardinality(Ackers(issued[Leader][i].op_id)') >= AckThreshold
                 /\ issued'[Leader][i].op_id \in DOMAIN operations'
                      <=> i \notin Range(completed[Leader])
      <4>1. CASE i \in 1..L
        <5>1. /\ issued[Leader][i].op_id \in 1..Len(log)
              /\ issued[Leader][i].req = log[issued[Leader][i].op_id]
              /\ Cardinality(Ackers(issued[Leader][i].op_id)) >= AckThreshold
              /\ issued[Leader][i].op_id \in DOMAIN operations
                      <=> i \notin Range(completed[Leader])
          BY <4>1 DEF IInv, LeaderInv
        <5>2. issued[Leader][i].op_id # K
          BY <2>6, <4>1
        <5> QED
          BY <1>7, <1>14, <2>5, <4>1, <5>1, <5>2
      <4>2. CASE i = L + 1
        <5>1. i \notin Range(completed[Leader])
          BY <2>5, <2>7, <4>2
        <5> QED
          BY <1>8, <1>14, <1>17, <2>1, <2>2, <2>3, <2>4, <2>5, <4>2, <5>1
      <4> QED
        BY <2>5, <4>1, <4>2
    <3>4. \A i \in 1..Len(issued'[Leader]) :
             /\ issued'[Leader][i].op_id \in 1..Len(log')
             /\ issued'[Leader][i].req = log'[issued'[Leader][i].op_id]
             /\ Cardinality(Ackers(issued[Leader][i].op_id)') >= AckThreshold'
             /\ issued'[Leader][i].op_id \in DOMAIN operations'
                  <=> i \notin Range(completed'[Leader])
      BY <1>1, <2>3, <2>5, <3>3
    <3>5. \A i, j \in 1..Len(issued'[Leader]) :
            issued'[Leader][i].op_id = issued'[Leader][j].op_id => i = j
      BY <2>5, <3>2
    <3> QED
      BY <3>1, <3>4, <3>5 DEF LeaderInv
  <2>9. CompletedInv'
    <3>1. \A n \in Nodes : \A i \in 1..Len(issued[n]) : i \in 1..Len(issued'[n])
      BY <1>11, <2>5
    <3> QED
      BY <1>1, <3>1 DEF IInv, CompletedInv
  <2>10. ReplyInv'
    BY <1>1, <1>3, <2>5 DEF IInv, ReplyInv, CompletedInv
  <2> QED
    BY <1>10, <1>12, <1>13, <1>15, <2>8, <2>9, <2>10 DEF IInv
<1> QED
  BY <1>11, <1>16, <1>17

\* LeaderResult: the operation was pending; its client is answered.
LEMMA LeaderResultStep ==
  ASSUME IInv, NEW i \in 1..Len(issued[Leader]), LeaderResult(i), TypeOK'
  PROVE  IInv'
<1>1. PICK k \in Nat : k = issued[Leader][i].op_id
  BY DEF IInv, LeaderInv
<1>2. PICK q : q = issued[Leader][i].req
  OBVIOUS
<1>3. /\ completed \in [Nodes -> Seq(Nat)] /\ issued \in [Nodes -> Seq(Entry)]
      /\ Leader \in Nodes /\ Replicas \subseteq Nodes /\ replies \in Seq(Reply)
      /\ replies' \in Seq(Reply)
  BY DEF IInv, TypeOK, Nodes
<1>4. /\ Completable(Leader, i)
      /\ completed' = [completed EXCEPT ![Leader] = Append(@, i)]
      /\ UNCHANGED <<submitted, inbox, current_op_id, cluster, stored, logs, acks,
                     issued, log, ackedBy>>
  BY DEF LeaderResult, replicaVars, history
<1>5. /\ CompletedInv' /\ i \notin Range(completed[Leader])
      /\ Range(completed'[Leader]) = Range(completed[Leader]) \cup {i}
  BY <1>3, <1>4, CompleteStep DEF IInv
<1>6. k \in DOMAIN operations /\ operations[k].req = q
  BY <1>1, <1>2, <1>5 DEF IInv, LeaderInv, PendingInv
<1>7. /\ operations' = Remove(operations, k) /\ panicked' = panicked
      /\ replies' = Append(replies, [to |-> q, of |-> q])
  BY <1>1, <1>2, <1>6 DEF LeaderResult
<1>8. /\ DOMAIN operations' = DOMAIN operations \ {k}
      /\ \A j \in DOMAIN operations \ {k} : operations'[j] = operations[j]
  BY <1>7 DEF Remove, Restrict
<1>9. /\ completed'[Leader] = Append(completed[Leader], i)
      /\ \A r \in Replicas : completed'[r] = completed[r]
  BY <1>3, <1>4, LeaderAssumption
<1>10. LogInv' /\ ChannelInv' /\ ReplicaInv'
  BY <1>4, ChannelFrame, ReplicaFrame DEF IInv, LogInv
<1>11. AckInv'
  <2>1. \A r \in Replicas : \A j \in Nat : AckSent(r, j)' <=> AckSent(r, j)
    BY <1>4, <1>9 DEF AckSent, Received
  <2>2. acks \in [Replicas -> Seq(Nat)] /\ ackedBy \subseteq Replicas \X Nat
    BY DEF IInv, TypeOK
  <2>3. /\ \A r \in Replicas : \A j \in 1..Len(acks[r]) : acks[r][j] \in Nat
        /\ \A x \in ackedBy : x[1] \in Replicas /\ x[2] \in Nat
    BY <2>2
  <2> QED
    BY <1>4, <2>1, <2>3 DEF IInv, AckInv
<1>12. \A j : Ackers(j)' = Ackers(j)
  BY <1>4 DEF Ackers
<1>13. PendingInv'
  BY <1>4, <1>8, <1>12 DEF IInv, PendingInv
<1>14. LeaderInv'
  <2>1. \A j \in 1..Len(issued[Leader]) :
          Ackers(issued[Leader][j].op_id)' = Ackers(issued[Leader][j].op_id)
    BY <1>4 DEF Ackers
  <2>2. AckThreshold' = AckThreshold
    BY <1>4 DEF AckThreshold
  <2>3. \A j \in 1..Len(issued[Leader]) :
          issued[Leader][j].op_id \in DOMAIN operations'
            <=> j \notin Range(completed'[Leader])
    BY <1>1, <1>5, <1>8 DEF IInv, LeaderInv
  <2> QED
    BY <1>4, <1>7, <2>1, <2>2, <2>3 DEF IInv, LeaderInv
<1>15. ReplyInv'
  <2> DEFINE a == [to |-> q, of |-> q]
             N == Len(replies)
  <2>1. a.to = q /\ a.of = q
    OBVIOUS
  <2>2. replies' = Append(replies, a)
    BY <1>7
  <2> HIDE DEF a
  <2>3. /\ N \in Nat /\ Len(replies') = N + 1 /\ replies'[N + 1] = a
        /\ \A j \in 1..N : replies'[j] = replies[j]
    BY <1>3, <2>2
  <2>4. /\ Len(completed[Leader]) = N /\ Len(completed'[Leader]) = N + 1
        /\ completed'[Leader][N + 1] = i
        /\ \A j \in 1..N : completed'[Leader][j] = completed[Leader][j]
    BY <1>3, <1>9, <2>3 DEF IInv, ReplyInv
  <2>5. \A j \in 1..N : /\ replies[j].to = issued[Leader][completed[Leader][j]].req
                        /\ replies[j].of = issued[Leader][completed[Leader][j]].req
    BY DEF IInv, ReplyInv
  <2> HIDE DEF N
  <2>6. ASSUME NEW j \in 1..(N + 1)
        PROVE  /\ replies'[j].to = issued[Leader][completed'[Leader][j]].req
               /\ replies'[j].of = issued[Leader][completed'[Leader][j]].req
    <3>1. CASE j \in 1..N
      BY <2>3, <2>4, <2>5, <3>1
    <3>2. CASE j = N + 1
      BY <1>2, <2>1, <2>3, <2>4, <3>2
    <3> QED
      BY <2>3, <3>1, <3>2
  <2> QED
    BY <1>4, <2>3, <2>4, <2>6 DEF ReplyInv
<1> QED
  BY <1>5, <1>10, <1>11, <1>13, <1>14, <1>15 DEF IInv

\* The inductive invariant holds in every behaviour of a cluster with replicas.
THEOREM Invariance == Spec => []IInv
<1>1. Init => IInv
  <2> SUFFICES ASSUME Init PROVE IInv
    OBVIOUS
  <2> USE DEF Init
  <2>1. TypeOK
    BY InitType
  <2>2. DOMAIN EmptyMap = {}
    BY DEF EmptyMap
  <2>3. \A r \in Replicas : Received(r) = 0 /\ Len(logs[r]) = 0 /\ Len(acks[r]) = 0
    <3> TAKE r \in Replicas
    <3>1. logs[r] = <<>> /\ acks[r] = <<>> /\ current_op_id = 1
      OBVIOUS
    <3>2. Len(logs[r]) = 0 /\ Len(acks[r]) = 0
      BY <3>1
    <3>3. Received(r) = 0
      <4> HIDE DEF Init
      <4>1. current_op_id = 1
        BY <3>1
      <4>2. Len(logs[r]) = 0
        BY <3>2
      <4> QED
        BY <4>1, <4>2 DEF Received
    <3> QED
      BY <3>2, <3>3
  <2>4. \A n \in Nodes : Len(issued[n]) = 0 /\ Len(completed[n]) = 0
    OBVIOUS
  <2>5. LogInv /\ ChannelInv
    <3>1. Len(log) = 0 /\ current_op_id - 1 = 0
      OBVIOUS
    <3>2. LogInv
      BY <3>1 DEF LogInv
    <3>3. ChannelInv
      BY <2>3 DEF ChannelInv
    <3> QED
      BY <3>2, <3>3
  <2>6. ReplicaInv
    BY <2>2, <2>3, <2>4 DEF ReplicaInv, Nodes
  <2>7. CompletedInv /\ AckInv /\ PendingInv
    BY <2>2, <2>3, <2>4 DEF CompletedInv, AckInv, PendingInv
  <2>8. LeaderInv /\ ReplyInv
    BY <2>4 DEF LeaderInv, ReplyInv, Nodes
  <2> QED
    BY <2>1, <2>5, <2>6, <2>7, <2>8 DEF IInv
<1>2. IInv /\ [Next]_vars => IInv'
  <2> SUFFICES ASSUME IInv, [Next]_vars PROVE IInv'
    OBVIOUS
  <2>1. TypeOK'
    BY TypeStep DEF IInv
  <2>2. CASE UNCHANGED vars
    <3>1. LogInv'
      BY <2>2 DEF IInv, LogInv, vars, clientVars, leaderVars, history
    <3> QED
      BY <2>1, <2>2, <3>1, RequestFrame DEF vars, clientVars
  <2>3. CASE \E q \in Requests, n \in Nodes : Submit(q, n)
    BY <2>1, <2>3, SubmitStep
  <2>4. CASE \E q \in Requests : HandleRequest(q)
    BY <2>1, <2>4, RequestStep
  <2>5. CASE \E i \in 1..Len(issued[Leader]) : LeaderResult(i)
    BY <2>1, <2>5, LeaderResultStep
  <2>6. ASSUME NEW r \in Replicas, \E q \in Requests : ForwardRequest(r, q) PROVE IInv'
    BY <2>1, <2>6, ForwardStep
  <2>7. ASSUME NEW r \in Replicas, HandleLog(r) PROVE IInv'
    BY <2>1, <2>7, HandleLogStep
  <2>8. ASSUME NEW r \in Replicas, HandleAck(r) PROVE IInv'
    BY <2>1, <2>8, HandleAckStep
  <2>9. ASSUME NEW r \in Replicas, \E i \in 1..Len(issued[r]) : ReplicaResult(r, i)
        PROVE  IInv'
    BY <2>1, <2>9, ReplicaResultStep
  <2> QED
    BY <2>2, <2>3, <2>4, <2>5, <2>6, <2>7, <2>8, <2>9 DEF Next
<1> QED
  BY <1>1, <1>2, PTL DEF Spec

-----------------------------------------------------------------------------
(* What the invariant is for *)

\* An acknowledged operation is held by the replica that acknowledged it.
LEMMA AckerHolds ==
  ASSUME IInv, NEW r \in Replicas, NEW k \in Nat, <<r, k>> \in ackedBy
  PROVE  Holds(r, k, log[k])
<1>1. k \in 1..Received(r) /\ Received(r) \in Nat
  BY DEF IInv, AckInv, AckSent, ChannelInv
<1>2. CASE k = Received(r)
  BY <1>1, <1>2 DEF IInv, ReplicaInv, Holds
<1>3. CASE k < Received(r)
  <2>1. k \in 1..Len(issued[r])
    BY <1>1, <1>3 DEF IInv, ReplicaInv
  <2>2. issued[r][k] \in Entry
    <3>1. issued \in [Nodes -> Seq(Entry)] /\ r \in Nodes
      BY DEF IInv, TypeOK, Nodes
    <3> QED
      BY <2>1, <3>1
  <2>3. issued[r][k].op_id = k /\ issued[r][k].req = log[k]
    BY <2>1 DEF IInv, ReplicaInv
  <2>4. issued[r][k] = [op_id |-> k, req |-> log[k]]
    BY <2>2, <2>3 DEF Entry
  <2> QED
    BY <2>1, <2>4 DEF Holds
<1> QED
  BY <1>1, <1>2, <1>3

\* For every number of replicas: an operation that the leader executes is held,
\* under the same id, by a majority of the nodes, whatever the interleaving of
\* the Logs, the Acks and the results of the databases.
THEOREM Durability == Spec => []MajorityHolds
<1>1. IInv => MajorityHolds
  <2> SUFFICES ASSUME IInv, NEW i \in 1..Len(issued[Leader])
               PROVE  2 * (Cardinality(Holders(issued[Leader][i].op_id,
                                               issued[Leader][i].req)) + 1)
                        > Cardinality(Nodes)
    BY DEF MajorityHolds
  <2> DEFINE k == issued[Leader][i].op_id
             H == Holders(k, issued[Leader][i].req)
  <2>1. /\ k \in Nat /\ issued[Leader][i].req = log[k]
        /\ Cardinality(Ackers(k)) >= AckThreshold
    BY DEF IInv, LeaderInv
  <2>2. Ackers(k) \subseteq H /\ H \subseteq Replicas
    BY <2>1, AckerHolds DEF Ackers, Holders
  <2>3. /\ Cardinality(Ackers(k)) <= Cardinality(H)
        /\ Cardinality(Ackers(k)) \in Nat /\ Cardinality(H) \in Nat
    <3>1. IsFiniteSet(H)
      BY <2>2, ReplicasAssumption, FS_Subset
    <3> HIDE DEF H, k
    <3> QED
      BY <2>2, <3>1, FS_Subset, FS_CardinalityType
  <2>4. /\ AckThreshold = Cardinality(Nodes) \div 2 /\ Cardinality(Nodes) \in Nat
    BY ClusterSize DEF IInv, LogInv, AckThreshold
  <2> HIDE DEF H, k
  <2>5. 2 * (Cardinality(H) + 1) > Cardinality(Nodes)
    BY <2>1, <2>3, <2>4
  <2> QED
    BY <2>5 DEF H, k
<1> QED
  BY <1>1, Invariance, PTL

\* The leader knows every operation whose result it gets: the .expect of
\* Leader::handle_operation_result does not fire once there is a replica.
THEOREM NeverPanics == Spec => []NoPanic
<1>1. IInv => NoPanic
  BY DEF IInv, LeaderInv, NoPanic
<1> QED
  BY <1>1, Invariance, PTL

\* Every client gets the result of its own request.
THEOREM CorrectReplies == Spec => []OwnResult
<1>1. IInv => OwnResult
  BY DEF IInv, ReplyInv, OwnResult
<1> QED
  BY <1>1, Invariance, PTL

\* No client is answered twice: the answers follow the completions, a command
\* completes once, and the leader issues an id, hence a request, once.
THEOREM RepliesOnce == Spec => []AnsweredOnce
<1>1. IInv => AnsweredOnce
  <2> SUFFICES ASSUME IInv, NEW i \in 1..Len(replies), NEW j \in 1..Len(replies),
                      replies[i].to = replies[j].to
               PROVE  i = j
    BY DEF AnsweredOnce
  <2> DEFINE a == completed[Leader][i]
             b == completed[Leader][j]
  <2>1. /\ i \in 1..Len(completed[Leader]) /\ j \in 1..Len(completed[Leader])
        /\ issued[Leader][a].req = issued[Leader][b].req
    BY DEF IInv, ReplyInv
  <2>2. a \in 1..Len(issued[Leader]) /\ b \in 1..Len(issued[Leader])
    BY <2>1 DEF IInv, CompletedInv, Nodes
  <2> HIDE DEF a, b
  <2>3. issued[Leader][a].op_id = issued[Leader][b].op_id
    <3> DEFINE k == issued[Leader][a].op_id
               l == issued[Leader][b].op_id
    <3>1. /\ k \in 1..Len(log) /\ l \in 1..Len(log)
          /\ issued[Leader][a].req = log[k] /\ issued[Leader][b].req = log[l]
      BY <2>2 DEF IInv, LeaderInv
    <3>2. \A m, n \in 1..Len(log) : log[m] = log[n] => m = n
      BY DEF IInv, LogInv
    <3> HIDE DEF k, l
    <3>3. k = l
      BY <2>1, <3>1, <3>2
    <3> QED
      BY <3>3 DEF k, l
  <2>4. a = b
    BY <2>2, <2>3 DEF IInv, LeaderInv
  <2> QED
    BY <2>1, <2>4 DEF a, b, IInv, CompletedInv, Nodes
<1> QED
  BY <1>1, Invariance, PTL

\* No node gives a request to its database twice.
THEOREM ExecutedOnce == Spec => []ExecutesOnce
<1>1. IInv => ExecutesOnce
  <2> SUFFICES ASSUME IInv, NEW n \in Nodes,
                      NEW i \in 1..Len(issued[n]), NEW j \in 1..Len(issued[n]),
                      issued[n][i].req = issued[n][j].req
               PROVE  i = j
    BY DEF ExecutesOnce
  <2>1. CASE n = Leader
    <3>1. issued[Leader][i].op_id = issued[Leader][j].op_id
      BY <2>1 DEF IInv, LeaderInv, LogInv
    <3> QED
      BY <2>1, <3>1 DEF IInv, LeaderInv
  <2>2. CASE n \in Replicas
    <3>1. /\ Received(n) \in Nat /\ Len(log) = current_op_id - 1
          /\ Received(n) <= Len(log)
      <4>1. logs \in [Replicas -> Seq(Entry)] /\ current_op_id \in Nat
        BY DEF IInv, TypeOK
      <4>2. Len(logs[n]) \in Nat
        BY <2>2, <4>1
      <4> QED
        BY <2>2, <4>1, <4>2 DEF IInv, ChannelInv, LogInv, Received
    <3>2. i \in 1..Len(log) /\ j \in 1..Len(log) /\ log[i] = log[j]
      BY <2>2, <3>1 DEF IInv, ReplicaInv
    <3> QED
      BY <3>2 DEF IInv, LogInv
  <2> QED
    BY <2>1, <2>2 DEF Nodes
<1> QED
  BY <1>1, Invariance, PTL

-----------------------------------------------------------------------------
(* The order in which an actor executes *)

\* A step changes what node n has issued and completed in one of three ways: not
\* at all, by a command, or by the completion of a command that may complete.
DbSteps(n) ==
  \/ UNCHANGED <<issued[n], completed[n]>>
  \/ (\E e \in Entry : issued'[n] = Append(issued[n], e)) /\ UNCHANGED completed[n]
  \/ /\ \E i \in 1..Len(issued[n]) : Completable(n, i) /\ completed'[n] = Append(completed[n], i)
     /\ UNCHANGED issued[n]

\* Every step of the protocol changes the database of a node in one of the ways
\* of DbSteps: Database::send and the results that come back.
LEMMA DbStep ==
  ASSUME TypeOK, [Next]_vars, NEW n \in Nodes
  PROVE  DbSteps(n)
<1> USE DEF DbSteps
<1>0. issued \in [Nodes -> Seq(Entry)] /\ completed \in [Nodes -> Seq(Nat)] /\ Replicas \subseteq Nodes
  BY DEF TypeOK, Nodes
<1>1. CASE UNCHANGED vars
  BY <1>1 DEF vars, dbVars
<1>2. CASE \E q \in Requests, m \in Nodes : Submit(q, m)
  BY <1>2 DEF Submit, dbVars
<1>3. CASE \E q \in Requests : HandleRequest(q)
  BY <1>3 DEF HandleRequest, dbVars
<1>4. ASSUME NEW i \in 1..Len(issued[Leader]), LeaderResult(i) PROVE DbSteps(n)
  BY <1>0, <1>4 DEF LeaderResult
<1>5. ASSUME NEW r \in Replicas, \E q \in Requests : ForwardRequest(r, q) PROVE DbSteps(n)
  BY <1>5 DEF ForwardRequest, dbVars
<1>6. ASSUME NEW r \in Replicas, HandleLog(r) PROVE DbSteps(n)
  <2>1. CASE issued' = issued
    BY <1>6, <2>1 DEF HandleLog
  <2>2. CASE issued' # issued
    <3>1. PICK e : issued' = [issued EXCEPT ![r] = Append(@, e)]
      BY <1>6, <2>2 DEF HandleLog, Execute
    <3>2. issued' \in [Nodes -> Seq(Entry)]
      BY TypeStep DEF TypeOK
    <3>3. issued'[r] = Append(issued[r], e) /\ issued'[r] \in Seq(Entry)
      BY <1>0, <3>1, <3>2
    <3>4. e \in Entry
      <4>1. e = issued'[r][Len(issued[r]) + 1] /\ Len(issued'[r]) = Len(issued[r]) + 1
        BY <1>0, <3>3
      <4> QED
        BY <1>0, <3>3, <4>1
    <3> QED
      BY <1>0, <1>6, <3>1, <3>4 DEF HandleLog
  <2> QED
    BY <2>1, <2>2
<1>7. ASSUME NEW r \in Replicas, HandleAck(r) PROVE DbSteps(n)
  <2> DEFINE k == Head(acks[r])
             e == [op_id |-> k, req |-> operations[k].req]
  <2>1. \/ issued' = issued
        \/ k \in DOMAIN operations /\ issued' = [issued EXCEPT ![Leader] = Append(@, e)]
    BY <1>7 DEF HandleAck, Execute
  <2>2. k \in DOMAIN operations => e \in Entry
    BY <1>7 DEF HandleAck, TypeOK, Entry, Pending
  <2>3. completed' = completed
    BY <1>7 DEF HandleAck
  <2> HIDE DEF k, e
  <2> QED
    BY <1>0, <2>1, <2>2, <2>3
<1>8. ASSUME NEW r \in Replicas, NEW i \in 1..Len(issued[r]), ReplicaResult(r, i)
      PROVE  DbSteps(n)
  BY <1>0, <1>8 DEF ReplicaResult
<1> QED
  BY <1>1, <1>2, <1>3, <1>4, <1>5, <1>6, <1>7, <1>8 DEF Next

\* A command completes after the earlier ones of its actor: OrderInv is an
\* invariant, with the inductive invariant as its context.
LEMMA OrderStep ==
  ASSUME IInv, OrderInv, [Next]_vars
  PROVE  OrderInv'
<1> SUFFICES ASSUME NEW n \in Nodes, NEW i \in 1..Len(completed'[n]),
                    NEW c \in 1..(completed'[n][i] - 1),
                    Key[issued'[n][c].req] = Key[issued'[n][completed'[n][i]].req]
             PROVE  \E j \in 1..(i - 1) : completed'[n][j] = c
  BY DEF OrderInv
<1> DEFINE old  == issued[n]
           done == completed[n]
<1>1. old \in Seq(Entry) /\ done \in Seq(Nat)
  BY DEF IInv, TypeOK
<1>2. \A j \in 1..Len(done) : done[j] \in 1..Len(old)
  BY DEF IInv, CompletedInv
<1>3. \A a \in 1..Len(done) : \A b \in 1..(done[a] - 1) :
        Key[old[b].req] = Key[old[done[a]].req] => \E j \in 1..(a - 1) : done[j] = b
  BY DEF OrderInv
<1>4. DbSteps(n)
  BY DbStep DEF IInv
<1>5. CASE UNCHANGED <<old, done>>
  BY <1>3, <1>5
<1>6. CASE (\E e \in Entry : issued'[n] = Append(old, e)) /\ UNCHANGED done
  <2>1. done[i] \in 1..Len(old) /\ c \in 1..Len(old)
    BY <1>1, <1>2, <1>6
  <2>2. issued'[n][c] = old[c] /\ issued'[n][done[i]] = old[done[i]]
    BY <1>1, <1>6, <2>1
  <2> QED
    BY <1>3, <1>6, <2>2
<1>7. CASE /\ \E k \in 1..Len(old) : Completable(n, k) /\ completed'[n] = Append(done, k)
           /\ UNCHANGED old
  <2>1. PICK k \in 1..Len(old) : Completable(n, k) /\ completed'[n] = Append(done, k)
    BY <1>7
  <2> HIDE DEF done, old
  <2>2. /\ Len(completed'[n]) = Len(done) + 1
        /\ completed'[n][Len(done) + 1] = k
        /\ \A j \in 1..Len(done) : completed'[n][j] = done[j]
    BY <1>1, <2>1
  <2>3. CASE i \in 1..Len(done)
    BY <1>1, <1>3, <1>7, <2>2, <2>3 DEF old
  <2>4. CASE i = Len(done) + 1
    <3>1. c \in Range(done)
      BY <1>7, <2>1, <2>2, <2>4 DEF Completable, done, old
    <3>2. PICK j \in 1..Len(done) : done[j] = c
      BY <1>1, <3>1 DEF Range
    <3>3. Len(done) \in Nat
      BY <1>1
    <3>4. j \in 1..(i - 1) /\ completed'[n][j] = c
      BY <2>2, <2>4, <3>2, <3>3
    <3> QED
      BY <3>4
  <2> QED
    BY <1>1, <2>2, <2>3, <2>4
<1> QED
  BY <1>4, <1>5, <1>6, <1>7 DEF DbSteps

\* A replica applies the operations of one actor in the order of the log, for
\* every number of replicas and every assignment of requests to actors.
THEOREM ReplicasInOrder == Spec => []ReplicaOrder
<1>1. Init => OrderInv
  BY DEF Init, OrderInv
<1>2. IInv /\ OrderInv => ReplicaOrder
  <2> SUFFICES ASSUME IInv, OrderInv, NEW r \in Replicas,
                      NEW i \in 1..Len(completed[r]), NEW j \in 1..Len(completed[r]), i < j,
                      Key[issued[r][completed[r][i]].req] = Key[issued[r][completed[r][j]].req]
               PROVE  issued[r][completed[r][i]].op_id < issued[r][completed[r][j]].op_id
    BY DEF ReplicaOrder
  <2> DEFINE a == completed[r][i]
             b == completed[r][j]
  <2>1. /\ r \in Nodes /\ a \in 1..Len(issued[r]) /\ b \in 1..Len(issued[r]) /\ a # b
        /\ completed[r] \in Seq(Nat) /\ issued[r] \in Seq(Entry)
    BY DEF IInv, CompletedInv, Nodes, TypeOK
  <2>2. issued[r][a].op_id = a /\ issued[r][b].op_id = b
    BY <2>1 DEF IInv, ReplicaInv
  <2>3. ~(b < a)
    <3> SUFFICES ASSUME b < a PROVE FALSE
      OBVIOUS
    <3>1. b \in 1..(a - 1)
      BY <2>1
    <3>2. PICK k \in 1..(i - 1) : completed[r][k] = b
      BY <2>1, <3>1 DEF OrderInv
    <3>3. k \in 1..Len(completed[r])
      BY <2>1, <3>2
    <3>4. k = j
      BY <2>1, <3>2, <3>3 DEF IInv, CompletedInv
    <3> QED
      BY <2>1, <3>2, <3>4
  <2> HIDE DEF a, b
  <2>4. a < b
    BY <2>1, <2>3
  <2> QED
    BY <2>2, <2>4 DEF a, b
<1> QED
  BY <1>1, <1>2, OrderStep, Invariance, PTL DEF Spec

-----------------------------------------------------------------------------
(* With crashes: type correctness *)

\* The steps of the leader that ReplicationFailures adds, and a crash, keep the
\* state in its types; the others are those of Replication.
LEMMA FTypeStep ==
  ASSUME TypeOK, alive \subseteq Replicas, [FNext]_fvars
  PROVE  TypeOK'
<1>1. CASE UNCHANGED fvars
  BY <1>1, TypeStep DEF fvars
<1>2. ASSUME NEW q \in Requests, NEW n \in {Leader} \cup alive, Submit(q, n) PROVE TypeOK'
  BY <1>2 DEF TypeOK, Submit, leaderVars, replicaVars, dbVars, history
<1>3. CASE LeaderStep
  <2>1. Next
    BY <1>3 DEF LeaderStep, Next
  <2> QED
    BY <2>1, TypeStep
<1>4. ASSUME NEW q \in Requests, StoreRequest(q)
      PROVE  /\ inbox' \in [Nodes -> SUBSET Requests]
             /\ DOMAIN operations' \subseteq Nat
             /\ \A k \in DOMAIN operations' : operations'[k] \in Pending
  BY <1>4 DEF TypeOK, StoreRequest, Pending, Insert
<1>5. ASSUME NEW q \in Requests PROVE [op_id |-> current_op_id, req |-> q] \in Entry
  BY DEF TypeOK, Entry
<1>6. ASSUME NEW q \in Requests, HandleRequestAlone(q) PROVE TypeOK'
  <2>1. StoreRequest(q)
    BY <1>6 DEF HandleRequestAlone
  <2>2. issued' \in [Nodes -> Seq(Entry)]
    BY <1>5, <1>6 DEF HandleRequestAlone, TypeOK, Execute, Nodes
  <2> QED
    BY <1>4, <1>6, <2>1, <2>2 DEF HandleRequestAlone, TypeOK, replicaVars, history
<1>7. ASSUME NEW r \in alive, ReplicaStep(r) PROVE TypeOK'
  <2>1. Next
    BY <1>7 DEF ReplicaStep, Next
  <2> QED
    BY <2>1, TypeStep
<1>8. ASSUME NEW r \in Replicas, Crash(r) PROVE TypeOK'
  <2>1. acks' \in [Replicas -> Seq(Nat)]
    BY <1>8 DEF Crash, TypeOK
  <2>2. inbox' \in [Nodes -> SUBSET Requests]
    BY <1>8 DEF Crash, TypeOK
  <2>4. logs' \in [Replicas -> Seq(Entry)]
    <3>1. <<>> \in Seq(Entry)
      OBVIOUS
    <3> QED
      BY <1>8, <3>1 DEF Crash, TypeOK
  <2>3. UNCHANGED <<submitted, replies, current_op_id, cluster, operations, panicked, stored,
                    issued, completed, log, ackedBy>>
    BY <1>8 DEF Crash, leaderVars, dbVars, history
  <2> QED
    BY <2>1, <2>2, <2>3, <2>4 DEF TypeOK
<1>9. ASSUME NEW r \in Replicas, ConnectionLost(r) PROVE TypeOK'
  BY <1>9 DEF ConnectionLost, TypeOK, clientVars, replicaVars, dbVars, history
<1>10. ASSUME NEW r \in Replicas, NEW q \in Requests, HandleRequestFails(q, r) PROVE TypeOK'
  <2>1. StoreRequest(q) /\ cluster' \subseteq cluster
    BY <1>10 DEF HandleRequestFails
  <2>2. logs' \in [Replicas -> Seq(Entry)]
    BY <1>5, <1>10 DEF HandleRequestFails, TypeOK
  <2> QED
    BY <1>4, <1>10, <2>1, <2>2 DEF HandleRequestFails, TypeOK, dbVars, history
<1> QED
  BY <1>1, <1>2, <1>3, <1>6, <1>7, <1>8, <1>9, <1>10 DEF FNext

-----------------------------------------------------------------------------
(* What a step does to what the replicas know and execute *)

\* A step that leaves alone the log and what each replica has stored and issued
\* preserves what is known of its executions.
LEMMA ExecutedFrame ==
  ASSUME ExecutedInv, UNCHANGED <<stored, log>>,
         \A r \in Replicas : issued'[r] = issued[r]
  PROVE  ExecutedInv'
  BY DEF ExecutedInv

\* ... and of its chain, when its channel and the current id stay.
LEMMA ChainFrame ==
  ASSUME ChainInv, alive \subseteq Replicas, alive' \subseteq alive,
         UNCHANGED <<stored, log, current_op_id>>,
         \A r \in alive' : issued'[r] = issued[r] /\ logs'[r] = logs[r]
  PROVE  ChainInv'
<1> SUFFICES ASSUME NEW r \in alive', NEW i \in 0..Len(logs[r])
             PROVE  /\ Id(r, i)' = Id(r, i) /\ Req(r, i)' = Req(r, i)
                    /\ FollowingId(r, i)' = FollowingId(r, i)
  BY DEF ChainInv
<1> QED
  BY DEF Id, Req, Top, FollowingId

\* A replica appends nothing but what the leader broadcasts: after a broadcast of
\* the current id, complete or not, the chains are as ChainInv has it.
LEMMA BroadcastChain ==
  ASSUME TypeOK, MembersInv, ChainInv, NEW q \in Requests, NEW S \in SUBSET alive,
         UNCHANGED <<stored, issued, alive>>,
         \A r \in alive : logs'[r] = IF r \in S
            THEN Append(logs[r], [op_id |-> current_op_id, req |-> q]) ELSE logs[r],
         \/ UNCHANGED <<current_op_id, log>>
         \/ S = alive /\ current_op_id' = current_op_id + 1 /\ log' = Append(log, q)
  PROVE  ChainInv'
<1> SUFFICES ASSUME NEW r \in alive, NEW i \in 0..Len(logs'[r])
             PROVE  /\ Id(r, i)' <= current_op_id' /\ (i # 0 => Id(r, i)' # 0)
                    /\ \/ FollowingId(r, i)' = Id(r, i)'
                       \/ /\ FollowingId(r, i)' = Id(r, i)' + 1
                          /\ Id(r, i)' # 0 => Req(r, i)' = log'[Id(r, i)']
  BY DEF ChainInv
<1> DEFINE e == [op_id |-> current_op_id, req |-> q]
<1>1. /\ r \in Replicas /\ r \in Nodes /\ logs[r] \in Seq(Entry) /\ issued[r] \in Seq(Entry)
      /\ current_op_id \in Nat /\ log \in Seq(Requests) /\ current_op_id # 0
      /\ Len(log) = current_op_id - 1
  BY DEF TypeOK, MembersInv, Nodes
<1>2. Top(r) \in Nat /\ Top(r)' = Top(r)
  BY <1>1 DEF Top
<1>6. r \in S => logs'[r] = Append(logs[r], e)
  OBVIOUS
<1>7. r \notin S => logs'[r] = logs[r]
  OBVIOUS
<1>8. e.op_id = current_op_id /\ e.req = q
  OBVIOUS
<1> HIDE DEF e
<1>3. ASSUME i \in 0..Len(logs[r])
      PROVE  Id(r, i) \in Nat /\ Id(r, i)' = Id(r, i) /\ Req(r, i)' = Req(r, i)
  <2>1. CASE i = 0
    BY <1>1, <1>2, <2>1 DEF Id, Req
  <2>2. CASE i # 0
    <3>1. i \in 1..Len(logs[r])
      BY <1>3, <2>2
    <3>2. logs[r][i] \in Entry /\ logs'[r][i] = logs[r][i]
      BY <1>1, <1>6, <1>7, <3>1
    <3> QED
      BY <1>1, <2>2, <3>2 DEF Id, Req, Entry
  <2> QED
    BY <2>1, <2>2
<1>4. CASE i \in 0..Len(logs[r])
  <2>1. FollowingId(r, i)' = FollowingId(r, i) \/ (r \notin S /\ S = alive)
    <3>1. CASE i = Len(logs[r]) /\ r \in S
      <4>1. Len(logs'[r]) = Len(logs[r]) + 1 /\ logs'[r][i + 1] = e
        BY <1>1, <1>6, <3>1
      <4> QED
        BY <1>1, <1>8, <3>1, <4>1 DEF FollowingId
    <3>2. CASE i = Len(logs[r]) /\ r \notin S
      BY <1>1, <3>2 DEF FollowingId
    <3>3. CASE i # Len(logs[r])
      <4>1. i + 1 \in 1..Len(logs[r])
        BY <1>1, <1>4, <3>3
      <4>2. logs'[r][i + 1] = logs[r][i + 1] /\ i # Len(logs'[r])
        BY <1>1, <1>6, <1>7, <4>1
      <4> QED
        BY <3>3, <4>2 DEF FollowingId
    <3> QED
      BY <3>1, <3>2, <3>3
  <2>2. FollowingId(r, i)' = FollowingId(r, i)
    BY <2>1
  <2>3. /\ Id(r, i) <= current_op_id /\ (i # 0 => Id(r, i) # 0)
        /\ \/ FollowingId(r, i) = Id(r, i)
           \/ /\ FollowingId(r, i) = Id(r, i) + 1
              /\ Id(r, i) # 0 => Req(r, i) = log[Id(r, i)]
    BY <1>4 DEF ChainInv
  <2>4. FollowingId(r, i) <= current_op_id
    <3>1. CASE i = Len(logs[r])
      BY <1>1, <3>1 DEF FollowingId
    <3>2. CASE i # Len(logs[r])
      <4>1. i + 1 \in 0..Len(logs[r]) /\ i + 1 # 0
        BY <1>1, <1>4, <3>2
      <4>2. Id(r, i + 1) <= current_op_id
        BY <4>1 DEF ChainInv
      <4> QED
        BY <3>2, <4>1, <4>2 DEF FollowingId, Id
    <3> QED
      BY <3>1, <3>2
  <2>5. ASSUME FollowingId(r, i) = Id(r, i) + 1, Id(r, i) # 0
        PROVE  log'[Id(r, i)] = log[Id(r, i)]
    <3>1. Id(r, i) \in 1..Len(log)
      BY <1>1, <1>3, <1>4, <2>4, <2>5
    <3> QED
      BY <1>1, <3>1
  <2>6. current_op_id <= current_op_id'
    BY <1>1
  <2> QED
    BY <1>1, <1>3, <1>4, <2>2, <2>3, <2>5, <2>6
<1>5. CASE i \notin 0..Len(logs[r])
  <2>1. r \in S /\ i = Len(logs[r]) + 1 /\ logs'[r] = Append(logs[r], e)
    BY <1>1, <1>5, <1>6, <1>7
  <2>2. Len(logs'[r]) = i /\ logs'[r][i] = e /\ i # 0
    BY <1>1, <2>1
  <2>3. Id(r, i)' = current_op_id /\ Req(r, i)' = q /\ FollowingId(r, i)' = current_op_id'
    BY <1>8, <2>2 DEF Id, Req, FollowingId
  <2>4. current_op_id' = current_op_id + 1 /\ log' = Append(log, q) => log'[current_op_id] = q
    BY <1>1
  <2> QED
    BY <1>1, <2>3, <2>4
<1> QED
  BY <1>4, <1>5

\* Replica::handle_log at a replica that runs: it moves one step along its chain.  A
\* Log with the id it stores replaces what it stores; one with the next id makes it
\* execute what it stores, which is what the log has.
LEMMA FHandleLogStep ==
  ASSUME TypeOK, MembersInv, ExecutedInv, ChainInv, NEW r \in alive, HandleLog(r),
         UNCHANGED alive
  PROVE  ExecutedInv' /\ ChainInv'
<1> DEFINE k == Head(logs[r]).op_id
           q == Head(logs[r]).req
           t == Top(r)
           held == Insert(stored[r], k, q)
<1>1. /\ r \in Replicas /\ r \in Nodes /\ logs[r] \in Seq(Entry) /\ logs[r] # <<>>
      /\ logs \in [Replicas -> Seq(Entry)] /\ issued \in [Nodes -> Seq(Entry)]
      /\ issued[r] \in Seq(Entry) /\ current_op_id \in Nat /\ log \in Seq(Requests)
      /\ Len(log) = current_op_id - 1 /\ DOMAIN stored = Replicas
  BY DEF TypeOK, MembersInv, Nodes, HandleLog
<1>2. logs[r][1] = Head(logs[r]) /\ logs[r][1] \in Entry /\ 1 \in 1..Len(logs[r])
  BY <1>1
<1>3. k \in Nat /\ k # 0 /\ k <= current_op_id
  <2>1. 1 \in 0..Len(logs[r]) /\ Id(r, 1) = k
    BY <1>1, <1>2 DEF Id
  <2>2. Id(r, 1) <= current_op_id /\ Id(r, 1) # 0
    BY <2>1 DEF ChainInv
  <2> QED
    BY <1>2, <2>1, <2>2 DEF Entry
<1>4. /\ t \in Nat
      /\ t = 0 => DOMAIN stored[r] = {} /\ Len(issued[r]) = 0
      /\ t # 0 => DOMAIN stored[r] = {t} /\ Len(issued[r]) = t - 1
  <2>1. Len(issued[r]) \in Nat
    BY <1>1
  <2>2. \/ DOMAIN stored[r] = {} /\ Len(issued[r]) = 0
        \/ DOMAIN stored[r] = {Len(issued[r]) + 1}
    BY <1>1 DEF ExecutedInv
  <2>3. CASE DOMAIN stored[r] = {}
    BY <2>1, <2>2, <2>3 DEF Top
  <2>4. CASE DOMAIN stored[r] = {Len(issued[r]) + 1}
    <3>1. t = Len(issued[r]) + 1
      BY <2>4 DEF Top
    <3> HIDE DEF t
    <3> QED
      BY <2>1, <2>4, <3>1
  <2> QED
    BY <2>2, <2>3, <2>4
<1>5. \/ k = t
      \/ k = t + 1 /\ (t # 0 => stored[r][t] = log[t])
  <2>1. 0 \in 0..Len(logs[r]) /\ Id(r, 0) = t /\ Req(r, 0) = stored[r][t]
    BY <1>1 DEF Id, Req
  <2>2. FollowingId(r, 0) = k
    BY <1>1, <1>2 DEF FollowingId
  <2> QED
    BY <2>1, <2>2 DEF ChainInv
<1>6. DOMAIN held = DOMAIN stored[r] \cup {k} /\ held[k] = q
      /\ \A j \in DOMAIN stored[r] : j # k => held[j] = stored[r][j]
  BY DEF Insert
<1>7. \A m \in Nodes : m # r => issued'[m] = issued[m]
  BY <1>1 DEF HandleLog
<1>8. \A m \in Replicas : m # r => stored'[m] = stored[m] /\ logs'[m] = logs[m]
  BY <1>1 DEF HandleLog
<1>9. logs'[r] = Tail(logs[r]) /\ UNCHANGED <<current_op_id, log>>
  BY <1>1 DEF HandleLog, leaderVars, history
<1> HIDE DEF t, k, q, held
<1>10. ASSUME k = 1 \/ k = t
       PROVE  stored'[r] = held /\ issued'[r] = issued[r] /\ DOMAIN held = {k}
  <2>1. DOMAIN held = {k}
    BY <1>3, <1>4, <1>5, <1>6, <1>10
  <2>2. k = 1 \/ k - 1 \notin DOMAIN held
    BY <1>3, <2>1
  <2> QED
    BY <1>1, <2>1, <2>2 DEF HandleLog, held, k, q
<1>11. ASSUME k # 1, k # t
       PROVE  /\ k - 1 = t /\ stored'[r] = Remove(held, t)
              /\ issued'[r] = Append(issued[r], [op_id |-> t, req |-> log[t]])
  <2>1. k - 1 = t /\ t # 0 /\ t \in DOMAIN held /\ held[t] = log[t]
    BY <1>3, <1>4, <1>5, <1>6, <1>11
  <2>2. /\ stored' = [stored EXCEPT ![r] = Remove(held, k - 1)]
        /\ issued' = [issued EXCEPT ![r] = Append(@, [op_id |-> k - 1, req |-> held[k - 1]])]
    BY <1>11, <2>1 DEF HandleLog, Execute, k, q, held
  <2> QED
    BY <1>1, <2>1, <2>2
<1>12. DOMAIN stored'[r] = {k} /\ stored'[r][k] = q /\ Len(issued'[r]) = k - 1
  <2>1. CASE k = 1 \/ k = t
    <3>1. Len(issued[r]) = k - 1
      <4>1. CASE k = t
        BY <1>3, <1>4, <4>1
      <4>2. CASE k # t
        BY <1>3, <1>4, <1>5, <2>1, <4>2
      <4> QED
        BY <4>1, <4>2
    <3> QED
      BY <1>6, <1>10, <2>1, <3>1
  <2>2. CASE k # 1 /\ k # t
    <3>1. DOMAIN held = {t, k} /\ t # k /\ t # 0
      BY <1>3, <1>4, <1>6, <1>11, <2>2
    <3>2. DOMAIN Remove(held, t) = {k} /\ Remove(held, t)[k] = q
      BY <1>6, <3>1 DEF Remove, Restrict
    <3>3. Len(issued'[r]) = t
      BY <1>1, <1>4, <1>11, <2>2, <3>1
    <3> QED
      BY <1>11, <2>2, <3>2, <3>3
  <2> QED
    BY <2>1, <2>2
<1>13. /\ Len(issued'[r]) <= Len(log)
       /\ \A i \in 1..Len(issued'[r]) : issued'[r][i].op_id = i /\ issued'[r][i].req = log[i]
  <2>0. \A i \in 1..Len(issued[r]) : issued[r][i].op_id = i /\ issued[r][i].req = log[i]
    BY <1>1 DEF ExecutedInv
  <2>1. CASE k = 1 \/ k = t
    <3>1. issued'[r] = issued[r]
      BY <1>10, <2>1
    <3>2. Len(issued'[r]) <= Len(log)
      BY <1>1, <1>3, <1>12
    <3> QED
      BY <2>0, <3>1, <3>2
  <2>2. CASE k # 1 /\ k # t
    <3> DEFINE e == [op_id |-> t, req |-> log[t]]
    <3>1. issued'[r] = Append(issued[r], e) /\ t = Len(issued[r]) + 1 /\ e.op_id = t /\ e.req = log[t]
      BY <1>3, <1>4, <1>11, <2>2, <1>1
    <3> HIDE DEF e
    <3>2. \A i \in 1..Len(issued'[r]) : issued'[r][i] = IF i = t THEN e ELSE issued[r][i]
      BY <1>1, <3>1
    <3> QED
      BY <1>1, <1>3, <1>12, <2>0, <3>1, <3>2
  <2> QED
    BY <2>1, <2>2
<1>14. ExecutedInv'
  <2> SUFFICES ASSUME NEW m \in Replicas
               PROVE  /\ \/ DOMAIN stored'[m] = {} /\ Len(issued'[m]) = 0
                         \/ DOMAIN stored'[m] = {Len(issued'[m]) + 1}
                      /\ Len(issued'[m]) <= Len(log')
                      /\ \A i \in 1..Len(issued'[m]) :
                           issued'[m][i].op_id = i /\ issued'[m][i].req = log'[i]
    BY DEF ExecutedInv
  <2>1. CASE m = r
    BY <1>3, <1>9, <1>12, <1>13, <2>1
  <2>2. CASE m # r
    <3>1. issued'[m] = issued[m] /\ stored'[m] = stored[m] /\ log' = log
      BY <1>7, <1>8, <1>9, <2>2 DEF Nodes
    <3> QED
      BY <3>1 DEF ExecutedInv
  <2> QED
    BY <2>1, <2>2
<1>15. ChainInv'
  <2> SUFFICES ASSUME NEW m \in alive, NEW i \in 0..Len(logs'[m])
               PROVE  /\ Id(m, i)' <= current_op_id' /\ (i # 0 => Id(m, i)' # 0)
                      /\ \/ FollowingId(m, i)' = Id(m, i)'
                         \/ /\ FollowingId(m, i)' = Id(m, i)' + 1
                            /\ Id(m, i)' # 0 => Req(m, i)' = log'[Id(m, i)']
    BY DEF ChainInv
  <2>1. CASE m = r
    <3>1. /\ Len(logs'[r]) = Len(logs[r]) - 1 /\ Len(logs[r]) \in Nat /\ i + 1 \in 1..Len(logs[r])
          /\ \A j \in 1..Len(logs'[r]) : logs'[r][j] = logs[r][j + 1]
      BY <1>1, <1>9, <2>1
    <3>2. Top(r)' = k
      <4>1. DOMAIN stored'[r] # {} /\ Len(issued'[r]) + 1 = k
        BY <1>3, <1>12
      <4> QED
        BY <4>1 DEF Top
    <3>3. Id(r, i)' = Id(r, i + 1) /\ Req(r, i)' = Req(r, i + 1)
      <4>1. CASE i = 0
        <5>1. Id(r, 1) = k /\ Req(r, 1) = q
          BY <1>2 DEF Id, Req, k, q
        <5>2. Id(r, i)' = k /\ Req(r, i)' = q
          BY <1>12, <3>2, <4>1 DEF Id, Req
        <5> QED
          BY <4>1, <5>1, <5>2
      <4>2. CASE i # 0
        BY <2>1, <3>1, <4>2 DEF Id, Req
      <4> QED
        BY <4>1, <4>2
    <3>4. FollowingId(r, i)' = FollowingId(r, i + 1)
      <4>1. CASE i = Len(logs'[r])
        BY <1>9, <3>1, <4>1 DEF FollowingId
      <4>2. CASE i # Len(logs'[r])
        <5>1. i + 1 \in 1..Len(logs'[r]) /\ i + 1 # Len(logs[r])
          BY <2>1, <3>1, <4>2
        <5> QED
          BY <3>1, <4>2, <5>1 DEF FollowingId
      <4> QED
        BY <4>1, <4>2
    <3>5. i + 1 \in 0..Len(logs[r]) /\ i + 1 # 0
      BY <3>1
    <3> QED
      BY <1>9, <2>1, <3>3, <3>4, <3>5 DEF ChainInv
  <2>2. CASE m # r
    <3>1. m \in Replicas /\ m \in Nodes
      BY DEF MembersInv, Nodes
    <3>2. /\ issued'[m] = issued[m] /\ stored'[m] = stored[m] /\ logs'[m] = logs[m]
          /\ UNCHANGED <<current_op_id, log>>
      BY <1>7, <1>8, <1>9, <2>2, <3>1
    <3>3. /\ Id(m, i)' = Id(m, i) /\ Req(m, i)' = Req(m, i)
          /\ FollowingId(m, i)' = FollowingId(m, i)
      BY <3>2 DEF Id, Req, Top, FollowingId
    <3> QED
      BY <3>2, <3>3 DEF ChainInv
  <2> QED
    BY <2>1, <2>2
<1> QED
  BY <1>14, <1>15

-----------------------------------------------------------------------------
\* The invariant of the protocol with crashes holds in every reachable state.
THEOREM FInvariance == FSpec => []FInv
<1>1. FInit => FInv
  <2> SUFFICES ASSUME FInit PROVE FInv
    OBVIOUS
  <2>1. TypeOK
    BY InitType DEF FInit
  <2>2. /\ alive = Replicas /\ cluster = Nodes /\ Len(log) = 0 /\ current_op_id = 1
        /\ \A r \in Replicas : /\ logs[r] = <<>> /\ DOMAIN stored[r] = {} /\ Len(issued[r]) = 0
                               /\ Len(logs[r]) = 0
    BY DEF FInit, Init, EmptyMap, Nodes
  <2>3. MembersInv
    BY <2>2 DEF MembersInv, Nodes
  <2>4. ExecutedInv
    BY <2>2 DEF ExecutedInv
  <2>5. ChainInv
    BY <2>2 DEF ChainInv, Id, Req, Top, FollowingId
  <2> QED
    BY <2>1, <2>3, <2>4, <2>5 DEF FInv
<1>2. FInv /\ [FNext]_fvars => FInv'
  <2> SUFFICES ASSUME FInv, [FNext]_fvars PROVE FInv'
    OBVIOUS
  <2> USE DEF FInv
  <2>1. TypeOK'
    BY FTypeStep DEF MembersInv
  <2>2. /\ alive \subseteq Replicas /\ Leader \notin Replicas /\ issued \in [Nodes -> Seq(Entry)]
        /\ Replicas \subseteq Nodes /\ Leader \in Nodes /\ current_op_id \in Nat
        /\ log \in Seq(Requests) /\ Len(log) = current_op_id - 1 /\ alive \subseteq cluster
    BY LeaderAssumption DEF MembersInv, TypeOK, Nodes
  <2>3. ASSUME UNCHANGED <<stored, log, current_op_id, logs>>, alive' \subseteq alive,
               alive' \subseteq cluster', \A r \in Replicas : issued'[r] = issued[r]
        PROVE  FInv'
    BY <2>1, <2>2, <2>3, ExecutedFrame, ChainFrame DEF MembersInv
  <2>4. CASE UNCHANGED fvars
    BY <2>2, <2>3, <2>4 DEF fvars, vars, leaderVars, replicaVars, dbVars, history
  <2>5. ASSUME NEW q \in Requests, NEW n \in {Leader} \cup alive, Submit(q, n), UNCHANGED alive
        PROVE  FInv'
    BY <2>2, <2>3, <2>5 DEF Submit, leaderVars, replicaVars, dbVars, history
  <2>6. ASSUME NEW q \in Requests, HandleRequest(q), UNCHANGED alive PROVE FInv'
    <3>1. /\ UNCHANGED <<stored, issued, cluster>> /\ log' = Append(log, q)
          /\ current_op_id' = current_op_id + 1
      BY <2>6 DEF HandleRequest, NextOpId, dbVars
    <3>2. \A r \in alive : logs'[r] = Append(logs[r], [op_id |-> current_op_id, req |-> q])
      BY <2>2, <2>6 DEF HandleRequest
    <3>3. ChainInv'
      <4> DEFINE S == alive
      <4>1. \A r \in alive : logs'[r] = IF r \in S
               THEN Append(logs[r], [op_id |-> current_op_id, req |-> q]) ELSE logs[r]
        BY <3>2
      <4> QED
        BY <2>6, <3>1, <4>1, BroadcastChain
    <3>4. /\ Len(log') = Len(log) + 1
          /\ \A i \in 1..Len(log) : log'[i] = log[i]
      BY <2>2, <3>1
    <3>5. ExecutedInv'
      <4> SUFFICES ASSUME NEW r \in Replicas
                   PROVE  /\ Len(issued[r]) <= Len(log')
                          /\ \A i \in 1..Len(issued[r]) : log'[i] = log[i]
        BY <3>1 DEF ExecutedInv
      <4>1. Len(issued[r]) <= Len(log) /\ Len(issued[r]) \in Nat
        BY <2>2 DEF ExecutedInv
      <4> QED
        BY <2>2, <3>4, <4>1
    <3>6. MembersInv'
      BY <2>2, <2>6, <3>1, <3>4 DEF MembersInv
    <3> QED
      BY <2>1, <3>3, <3>5, <3>6
  <2>7. ASSUME NEW r \in Replicas, HandleAck(r), UNCHANGED alive PROVE FInv'
    <3>1. \A m \in Replicas : issued'[m] = issued[m]
      BY <2>2, <2>7 DEF HandleAck
    <3> QED
      BY <2>2, <2>3, <2>7, <3>1 DEF HandleAck, replicaVars
  <2>8. ASSUME NEW i \in 1..Len(issued[Leader]), LeaderResult(i), UNCHANGED alive PROVE FInv'
    BY <2>2, <2>3, <2>8 DEF LeaderResult, replicaVars, history
  <2>9. ASSUME NEW q \in Requests, HandleRequestAlone(q) PROVE FInv'
    <3>1. \A m \in Replicas : issued'[m] = issued[m]
      BY <2>2, <2>9 DEF HandleRequestAlone
    <3> QED
      BY <2>2, <2>3, <2>9, <3>1 DEF HandleRequestAlone, replicaVars, history
  <2>10. ASSUME NEW r \in alive, NEW q \in Requests, ForwardRequest(r, q), UNCHANGED alive
         PROVE  FInv'
    BY <2>2, <2>3, <2>10 DEF ForwardRequest, leaderVars, replicaVars, dbVars, history
  <2>11. ASSUME NEW r \in alive, HandleLog(r), UNCHANGED alive PROVE FInv'
    <3>1. MembersInv'
      BY <2>11 DEF HandleLog, MembersInv, leaderVars, history
    <3> QED
      BY <2>1, <2>11, <3>1, FHandleLogStep
  <2>12. ASSUME NEW r \in alive, NEW i \in 1..Len(issued[r]), ReplicaResult(r, i), UNCHANGED alive
         PROVE  FInv'
    BY <2>2, <2>3, <2>12 DEF ReplicaResult, leaderVars, history
  <2>13. ASSUME NEW r \in Replicas, Crash(r) PROVE FInv'
    <3>1. /\ UNCHANGED <<stored, issued, log, current_op_id, cluster>> /\ alive' = alive \ {r}
          /\ \A m \in Replicas : m # r => logs'[m] = logs[m]
      BY <2>13 DEF Crash, leaderVars, dbVars, history, TypeOK
    <3>2. ExecutedInv' /\ ChainInv'
      BY <2>2, <3>1, ExecutedFrame, ChainFrame
    <3> QED
      BY <2>1, <3>1, <3>2 DEF MembersInv
  <2>14. ASSUME NEW r \in Replicas, ConnectionLost(r) PROVE FInv'
    BY <2>2, <2>3, <2>14 DEF ConnectionLost, replicaVars, dbVars, history
  <2>15. ASSUME NEW r \in Replicas, NEW q \in Requests, HandleRequestFails(q, r) PROVE FInv'
    <3>1. UNCHANGED <<stored, issued, log, current_op_id, alive>>
      BY <2>15 DEF HandleRequestFails, dbVars, history
    <3>2. PICK S \in SUBSET (alive \cap cluster) :
            logs' = [p \in Replicas |->
                       IF p \in S THEN Append(logs[p], [op_id |-> current_op_id, req |-> q])
                                  ELSE logs[p]]
      BY <2>15 DEF HandleRequestFails
    <3>3. ChainInv'
      BY <2>2, <3>1, <3>2, BroadcastChain
    <3>4. alive \subseteq cluster'
      BY <2>2, <2>15 DEF HandleRequestFails
    <3> QED
      BY <2>1, <2>2, <3>1, <3>3, <3>4, ExecutedFrame DEF MembersInv
  <2> QED
    BY <2>4, <2>5, <2>6, <2>7, <2>8, <2>9, <2>10, <2>11, <2>12, <2>13, <2>14, <2>15
    DEF FNext, LeaderStep, ReplicaStep
<1> QED
  BY <1>1, <1>2, PTL DEF FSpec

\* A replica executes operations in the order of their ids, none twice, whatever
\* broadcasts are aborted and ids used again.
THEOREM FInOrder == FSpec => []ExecutesInOrder
<1>1. FInv => ExecutesInOrder
  BY DEF FInv, ExecutedInv, ExecutesInOrder
<1> QED
  BY <1>1, FInvariance, PTL

\* Two replicas that execute an operation execute the same request under its id.
THEOREM FAgreement == FSpec => []ReplicasAgree
<1>1. FInv => ReplicasAgree
  BY DEF FInv, ExecutedInv, ReplicasAgree
<1> QED
  BY <1>1, FInvariance, PTL
=============================================================================
