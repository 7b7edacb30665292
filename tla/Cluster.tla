------------------------------- MODULE Cluster -------------------------------
(***************************************************************************)
(* The life of a cluster: nodes that start and join (Join, ClusterView,    *)
(* ClusterUpdate), crash, are cut off and come back (OFFLINE mode), and     *)
(* change roles while requests are replicated.  It composes the election   *)
(* of Election with the handlers of Leader and Replica for the other       *)
(* messages and with the database of every node, of which it keeps the     *)
(* charges of one card, in the order in which they are applied.            *)
(*                                                                         *)
(* A request is a charge of a pump of one of the nodes.  A send fails with *)
(* ConnectionLostWith when the stream has ended and with ConnectionRefused *)
(* when the other node does not listen; the operator ? ends the handler.   *)
(***************************************************************************)
EXTENDS Election, FiniteSetsExt, SequencesExt

CONSTANT Requests   \* the charges

\* In a scenario a leader and its replicas form a cluster, joiners are started
\* later, requests are made, and nodes crash and are cut off so often; connections do
\* not cross (see Election).
ASSUME PlansAssumption ==
  /\ 0 \notin Nodes
  /\ \A s \in Scenarios :
       /\ s.leader \in s.members /\ ~s.crossing
       /\ s.joiners \subseteq Nodes \ s.members
       /\ s.requests \subseteq Requests
       /\ s.offline \in Nat

VARIABLES
  current_op_id,  \* current_op_id[n]: the id of the next operation of leader n
  operations,     \* operations[n]: id -> the operation n has stored
  db,             \* db[n]: the commands that the database of n has yet to execute
  asked,          \* asked[n]: the snapshot that the router of n collects
  events,         \* events[n]: the results that n has yet to handle
  state,          \* state[n]: the charges the card of n holds, or NoActors
  offline_queue,  \* offline_queue[n]: the charges accepted OFFLINE
  offline,        \* how often a node has been cut off
  \* histories
  submitted,      \* the requests that pumps have made
  answered,       \* the requests that pumps have got an answer to
  before,         \* before[n]: the requests answered when n asked to join
  recounted       \* the requests that were pending when the rule for their Acks changed

data    == <<current_op_id, operations, db, asked, events, state, offline_queue>>
env     == <<plan, offline>>
history == <<submitted, answered, before>>
allVars == <<vars, data, offline, history, recounted>>

-----------------------------------------------------------------------------
NoActors   == <<"no actors">>
NoSnapshot == [addr |-> 0, state |-> NoActors]
Replaced   == -1  \* the id 0 of a pending snapshot is that of a ReplaceDatabase by now
Empty      == [i \in {} |-> 0]
Insert(f, k, v) == [j \in DOMAIN f \cup {k} |-> IF j = k THEN v ELSE f[j]]

LogMsg(id, op)                == [type |-> "Log", id |-> id, op |-> op]
AckMsg(id)                    == [type |-> "Ack", id |-> id]
RequestMsg(op, addr)          == [type |-> "Request", op |-> op, addr |-> addr]
ResponseMsg(op)               == [type |-> "Response", op |-> op]
JoinMsg(addr)                 == [type |-> "Join", addr |-> addr]
ViewMsg(members, ldr, snap)   == [type |-> "ClusterView", members |-> members,
                                  leader |-> ldr, state |-> snap]
UpdateMsg(member)             == [type |-> "ClusterUpdate", member |-> member]

ChargeCmd(id, op)  == [type |-> "Charge", id |-> id, op |-> op]
GetCmd(addr)       == [type |-> "GetDatabase", addr |-> addr]
ReplaceCmd(snap)   == [type |-> "ReplaceDatabase", state |-> snap]

\* Leader::start, once the replicas have joined; the joiners are yet to be started.
CInit ==
  /\ plan \in Scenarios
  /\ role = [n \in Nodes |-> IF n = plan.leader THEN "leader"
                             ELSE IF n \in plan.members THEN "replica" ELSE "down"]
  /\ cluster = [n \in Nodes |-> IF n \in plan.members THEN plan.members ELSE {}]
  /\ conn = {{plan.leader, n} : n \in plan.members \ {plan.leader}}
  /\ leader_addr = [n \in Nodes |-> plan.leader]
  /\ election = [n \in Nodes |-> FALSE]
  /\ chan = [m \in Nodes |-> [n \in Nodes |-> <<>>]]
  /\ stale = {} /\ dials = {} /\ crossed = FALSE
  /\ backlog = [m \in Nodes |-> [n \in Nodes |-> <<>>]]
  /\ current_op_id = [n \in Nodes |-> 1]
  /\ operations = [n \in Nodes |-> Empty]
  /\ db = [n \in Nodes |-> <<>>]
  /\ asked = [n \in Nodes |-> NoSnapshot]
  /\ events = [n \in Nodes |-> <<>>]
  /\ state = [n \in Nodes |-> NoActors]
  /\ offline_queue = [n \in Nodes |-> <<>>]
  /\ offline = 0
  /\ submitted = {} /\ answered = {} /\ recounted = {}
  /\ before = [n \in Nodes |-> {}]

-----------------------------------------------------------------------------
(* The steps of the election, with the change of role *)

Leads(n)   == role[n] \in {"leader", "leader_off"}
Started(n) == role[n] \in {"leader", "replica", "leader_off", "replica_off"}

\* into_leader and into_replica: what is stored is discarded, and the highest id
\* that a replica has stored is its next one.
RoleChange(n, ops) ==
  /\ current_op_id' = [current_op_id EXCEPT ![n] =
       IF Leads(n)' /\ ~Leads(n) THEN Max(DOMAIN ops \cup {1}) ELSE @]
  /\ operations' = [operations EXCEPT ![n] = IF Leads(n)' = Leads(n) THEN ops ELSE Empty]

ElectionStep(n) ==
  /\ \/ \E m \in Nodes : \/ HandleElection(m, n) \/ HandleElectionOk(m, n)
                         \/ LeaderHandlesCoordinator(m, n) \/ ReplicaHandlesCoordinator(m, n)
                         \/ HandleConnectionLost(m, n)
     \/ HandleElectionTimeout(n)
  /\ RoleChange(n, operations[n])
  /\ UNCHANGED <<db, asked, events, state, offline_queue, env, history>>

\* handle_election_timeout while OFFLINE: every announcement fails with
\* ConnectionLost, and a replica is promoted.
OfflineTimeout(n) ==
  /\ Started(n) /\ ~Running(n)
  /\ election[n]
  /\ election' = [election EXCEPT ![n] = FALSE]
  /\ role' = [role EXCEPT ![n] = "leader_off"]
  /\ RoleChange(n, operations[n])
  /\ UNCHANGED <<leader_addr, cluster, net>>
  /\ UNCHANGED <<db, asked, events, state, offline_queue, env, history>>

-----------------------------------------------------------------------------
(* Sending *)

Send(p, msg)  == [q \in Nodes |-> IF q = p THEN <<msg>> ELSE <<>>]
Cast(ps, msg) == [q \in Nodes |-> IF q \in ps THEN <<msg>> ELSE <<>>]
Fails(n, p)   == <<n, p>> \in stale \/ ~Running(p)

\* Node n has taken a message from m and has sent out[p] to every p; the send to
\* failed, unless that is Nobody, ended the handler.  Node::run answers
\* ConnectionLostWith with handle_connection_lost_with.
Ends(m, n, members, out, failed) ==
  LET lost   == <<n, failed>> \in stale
      left   == IF lost THEN members \ {failed} ELSE members
      elects == lost /\ role[n] = "replica" /\ leader_addr[n] = failed
  IN  /\ cluster' = [cluster EXCEPT ![n] = left]
      /\ \/ elects /\ StartElection(n, left)
         \/ ~elects /\ UNCHANGED <<election, role>>
      /\ Transfer(m, n, [p \in Nodes |-> out[p] \o (IF elects THEN Calls(n, left)[p] ELSE <<>>)])
      /\ UNCHANGED leader_addr

\* One message of n, to p.
SendsTo(m, n, p, msg) ==
  Ends(m, n, cluster[n], Send(p, msg), IF Fails(n, p) THEN p ELSE Nobody)

\* A loop that sends to ps, in the order of a HashMap, and ends at a send that fails.
Broadcasts(m, n, members, ps, msg, complete) ==
  LET failing == {p \in ps : Fails(n, p)}
  IN  \/ /\ failing = {} /\ complete
         /\ Ends(m, n, members, Cast(ps, msg), Nobody)
      \/ /\ failing # {} /\ ~complete
         /\ \E p \in failing, reached \in SUBSET (ps \ failing) :
              Ends(m, n, members, Cast(reached \cup {p}, msg), p)

Execute(n, cmd) == db' = [db EXCEPT ![n] = Append(@, cmd)]

-----------------------------------------------------------------------------
(* Requests and their replication *)

\* Leader::handle_request: a leader that is alone executes at once and keeps its
\* id; another one sends the operation to its replicas.
LeaderRequest(m, n, op, addr) ==
  LET id == current_op_id[n]
  IN  /\ role[n] = "leader"
      /\ operations' = [operations EXCEPT ![n] =
           Insert(@, id, [op |-> op, addr |-> addr, acks |-> 0])]
      /\ \/ /\ Cardinality(cluster[n]) = 1
            /\ Execute(n, ChargeCmd(id, op))
            /\ Ends(m, n, cluster[n], Silent, Nobody)
            /\ UNCHANGED current_op_id
         \/ /\ Cardinality(cluster[n]) # 1
            /\ \E complete \in BOOLEAN :
                 /\ Broadcasts(m, n, cluster[n], cluster[n] \ {n}, LogMsg(id, op), complete)
                 /\ current_op_id' = [current_op_id EXCEPT ![n] = IF complete THEN @ + 1 ELSE @]
            /\ UNCHANGED db

\* Replica::handle_request: to the leader.
ReplicaRequest(m, n, op, addr) ==
  /\ role[n] = "replica"
  /\ SendsTo(m, n, leader_addr[n], RequestMsg(op, addr))
  /\ RoleChange(n, operations[n])
  /\ UNCHANGED db

\* Faulty variant: the pump is not told that its charge is accepted.
QueueUnanswered(n, q) ==
  /\ offline_queue' = [offline_queue EXCEPT ![n] = Append(@, q)]
  /\ UNCHANGED answered

Queue(n, q) ==
  /\ offline_queue' = [offline_queue EXCEPT ![n] = Append(@, q)]
  /\ answered' = answered \cup {q}

\* handle_charge_request: OFFLINE the charge is accepted and queued.
Charge(n, q) ==
  /\ q \in plan.requests \ submitted
  /\ submitted' = submitted \cup {q}
  /\ \/ /\ \/ LeaderRequest(Nobody, n, [req |-> q, replay |-> FALSE], n)
           \/ ReplicaRequest(Nobody, n, [req |-> q, replay |-> FALSE], n)
        /\ UNCHANGED <<offline_queue, answered>>
     \/ /\ Started(n) /\ ~Running(n)
        /\ Queue(n, q)
        /\ UNCHANGED <<vars, current_op_id, operations, db>>
  /\ UNCHANGED <<asked, events, state, env, before>>

HandleRequest(m, n) ==
  /\ Receives(m, n, "Request")
  /\ LET msg == Head(chan[m][n])
     IN  LeaderRequest(m, n, msg.op, msg.addr) \/ ReplicaRequest(m, n, msg.op, msg.addr)
  /\ UNCHANGED <<asked, events, state, offline_queue, env, history>>

\* Replica::handle_log and commit_operation
HandleLog(m, n) ==
  /\ Receives(m, n, "Log")
  /\ role[n] = "replica"
  /\ LET id  == Head(chan[m][n]).id
         ops == Insert(operations[n], id, Head(chan[m][n]).op)
     IN  \/ /\ id = 1
            /\ SendsTo(m, n, leader_addr[n], AckMsg(1))
            /\ RoleChange(n, ops)
            /\ UNCHANGED db
         \/ /\ id > 1
            /\ Ends(m, n, cluster[n], Silent, Nobody)
            /\ RoleChange(n, Restrict(ops, DOMAIN ops \ {id - 1}))
            /\ \/ id - 1 \in DOMAIN ops /\ Execute(n, ChargeCmd(id - 1, ops[id - 1]))
               \/ id - 1 \notin DOMAIN ops /\ UNCHANGED db
  /\ UNCHANGED <<asked, events, state, offline_queue, env, history>>


\* Leader::handle_ack compares the number of acks with the present cluster.
Enough(acks, members) == acks = Cardinality(members) \div 2 \/ Cardinality(members) = 2

HandleAck(m, n) ==
  /\ Receives(m, n, "Ack")
  /\ role[n] = "leader"
  /\ LET id == Head(chan[m][n]).id
     IN  \/ /\ id \in DOMAIN operations[n]
            /\ operations' = [operations EXCEPT ![n][id].acks = @ + 1]
            /\ \/ /\ Enough(operations[n][id].acks + 1, cluster[n])
                  /\ Execute(n, ChargeCmd(id, operations[n][id].op))
               \/ /\ ~Enough(operations[n][id].acks + 1, cluster[n])
                  /\ UNCHANGED db
         \/ /\ id \notin DOMAIN operations[n]
            /\ UNCHANGED <<operations, db>>
  /\ Ends(m, n, cluster[n], Silent, Nobody)
  /\ UNCHANGED <<current_op_id, asked, events, state, offline_queue, env, history>>

\* Replica::handle_response: the answer to a charge that was queued is dropped.
HandleResponse(m, n) ==
  /\ Receives(m, n, "Response")
  /\ role[n] = "replica"
  /\ LET op == Head(chan[m][n]).op
     IN  answered' = IF op.replay THEN answered ELSE answered \cup {op.req}
  /\ Ends(m, n, cluster[n], Silent, Nobody)
  /\ UNCHANGED <<data, env, submitted, before>>

-----------------------------------------------------------------------------
(* Membership *)

\* Replica::start, with the address of the leader.
Start(n) ==
  /\ n \in plan.joiners
  /\ role[n] = "down"
  /\ \E l \in Nodes :
       /\ role[l] = "leader"
       /\ leader_addr' = [leader_addr EXCEPT ![n] = l]
       /\ cluster' = [cluster EXCEPT ![n] = {l}]
       /\ Transfer(Nobody, n, Send(l, JoinMsg(n)))
  /\ role' = [role EXCEPT ![n] = "replica"]
  /\ before' = [before EXCEPT ![n] = answered]
  /\ UNCHANGED <<election, data, env, submitted, answered>>


Told(n, members, addr) == members \ {n, addr}

\* Leader::handle_join: the snapshot is requested, the node is a member, and the
\* other members are told; Replica::handle_join: to the leader.
HandleJoin(m, n) ==
  /\ Receives(m, n, "Join")
  /\ LET addr    == Head(chan[m][n]).addr
         members == cluster[n] \cup {addr}
     IN  \/ /\ role[n] = "leader"
            /\ Execute(n, GetCmd(addr))
            /\ \E complete \in BOOLEAN :
                 Broadcasts(m, n, members, Told(n, members, addr), UpdateMsg(addr), complete)
            /\ UNCHANGED <<current_op_id, operations>>
         \/ /\ role[n] = "replica"
            /\ SendsTo(m, n, leader_addr[n], JoinMsg(addr))
            /\ RoleChange(n, operations[n])
            /\ UNCHANGED db
  /\ UNCHANGED <<asked, events, state, offline_queue, env, history>>

\* handle_cluster_update: a leader ignores it.
HandleClusterUpdate(m, n) ==
  /\ Receives(m, n, "ClusterUpdate")
  /\ Ends(m, n, IF role[n] = "leader" THEN cluster[n]
                ELSE cluster[n] \cup {Head(chan[m][n]).member}, Silent, Nobody)
  /\ UNCHANGED <<data, env, history>>

\* Faulty variant: the snapshot of the view is not applied.
InstallMembers(n, view) ==
  /\ cluster' = [cluster EXCEPT ![n] = view.members]
  /\ UNCHANGED db

Install(n, view) ==
  /\ cluster' = [cluster EXCEPT ![n] = view.members]
  /\ Execute(n, ReplaceCmd(view.state))

\* handle_cluster_view: the database is replaced and the members are those of
\* the view; what is stored stays.  A leader, and a replica with a lower id than
\* the leader's, starts an election, whose change of role is discarded.
HandleClusterView(m, n) ==
  /\ Receives(m, n, "ClusterView")
  /\ LET view   == Head(chan[m][n])
         elects == role[n] = "leader" \/ view.leader > n
     IN  /\ Install(n, view)
         /\ leader_addr' = [leader_addr EXCEPT ![n] = IF role[n] = "replica" THEN view.leader ELSE @]
         /\ election' = [election EXCEPT ![n] = IF elects THEN Waits(n, view.members) ELSE @]
         /\ Transfer(m, n, IF elects THEN Calls(n, view.members) ELSE Silent)
  /\ UNCHANGED <<role, current_op_id, operations, asked, events, state, offline_queue, env, history>>

-----------------------------------------------------------------------------
(* OFFLINE mode *)

\* handle_disconnect_node: the streams end, and their other ends notice.  What n
\* has received stays in its channel until it is back.
Disconnect(n) ==
  /\ Running(n)
  /\ offline < plan.offline
  /\ offline' = offline + 1
  /\ role' = [role EXCEPT ![n] = IF @ = "leader" THEN "leader_off" ELSE "replica_off"]
  /\ \E sent \in Cuts(chan[n]), got \in Cuts([y \in Nodes |-> chan[y][n]]) :
       chan' = [x \in Nodes |-> [y \in Nodes |->
         IF y = n THEN SubSeq(chan[x][n], 1, got[x])
         ELSE IF x # n THEN chan[x][y]
         ELSE SubSeq(chan[n][y], 1, sent[y])
                \o (IF {n, y} \in conn /\ Running(y) THEN <<LostMsg>> ELSE <<>>)]]
  /\ stale' = stale \cup UNION {{<<n, y>>, <<y, n>>} : y \in {z \in Nodes : {n, z} \in conn}}
  /\ conn' = {c \in conn : n \notin c}
  /\ UNCHANGED <<dials, backlog, crossed, leader_addr, cluster, election, data, history, plan>>

\* handle_connect_node: members are asked, in the order of a HashMap, until a
\* Join gets through at the first attempt.  When it fails it is sent again, but
\* that one does not end the loop; a replica gives up when it fails too.
Connect(n) ==
  /\ Started(n) /\ ~Running(n)
  /\ role' = [role EXCEPT ![n] = IF @ = "leader_off" THEN "leader" ELSE "replica"]
  /\ LET others == cluster[n] \ {n}
         again  == {p \in others : <<n, p>> \in stale /\ Running(p)}
         first  == {p \in others : <<n, p>> \notin stale /\ Running(p)}
         ending == IF Leads(n) THEN first ELSE others \ again
     IN  \E asks \in SUBSET others :
           /\ Cardinality(asks \cap ending) <= 1
           /\ asks \cap ending = {} => asks = others
           /\ Transfer(Nobody, n, [p \in Nodes |->
                IF p \notin asks THEN <<>>
                ELSE IF <<n, p>> \in stale THEN <<JoinMsg(n), JoinMsg(n)>> ELSE <<JoinMsg(n)>>])
  /\ before' = [before EXCEPT ![n] = answered]
  /\ UNCHANGED <<leader_addr, cluster, election, data, env, submitted, answered>>

-----------------------------------------------------------------------------
(* The database: charges in order; GetDatabase and ReplaceDatabase may overtake *)
(* the charges that are in progress *)

Emit(n, event) == events' = [events EXCEPT ![n] = Append(@, event)]
Held(n)        == IF state[n] = NoActors THEN <<>> ELSE state[n]

DbCharge(n) ==
  /\ db[n] # <<>>
  /\ LET cmd == Head(db[n])
     IN  /\ cmd.type = "Charge"
         /\ state' = [state EXCEPT ![n] = Append(Held(n), cmd.op.req)]
         /\ Emit(n, [type |-> "Charge", id |-> cmd.id])
  /\ db' = [db EXCEPT ![n] = Tail(@)]
  /\ UNCHANGED <<vars, current_op_id, operations, asked, offline_queue, env, history>>

\* The first command that is no charge, once the charges before it have started.
Overtakes(n, i, type) ==
  /\ i \in DOMAIN db[n]
  /\ db[n][i].type = type
  /\ \A j \in 1..i-1 : db[n][j].type = "Charge"

\* GetDatabase: without actors the answer is empty.  A snapshot that is being
\* collected is given up, but its fragments may be taken for those of this one.
DbGet(n) ==
  /\ \E i \in 1..Len(db[n]) :
       /\ Overtakes(n, i, "GetDatabase")
       /\ db' = [db EXCEPT ![n] = RemoveAt(@, i)]
       /\ \/ /\ i = 1 /\ state[n] = NoActors
             /\ Emit(n, [type |-> "GetDatabase", addr |-> db[n][i].addr, state |-> NoActors])
             /\ UNCHANGED asked
          \/ /\ i > 1 \/ state[n] # NoActors
             /\ \E s \in {Held(n)} \cup (IF asked[n] = NoSnapshot THEN {} ELSE {asked[n].state}) :
                  asked' = [asked EXCEPT ![n] = [addr |-> db[n][i].addr, state |-> s]]
             /\ UNCHANGED events
  /\ UNCHANGED <<vars, current_op_id, operations, state, offline_queue, env, history>>

\* try_complete_db_snapshot: the event is for the operation now stored under id 0.
DbCollect(n) ==
  /\ asked[n] # NoSnapshot
  /\ Emit(n, IF asked[n].addr = Replaced THEN [type |-> "ReplaceDatabase"]
             ELSE [type |-> "GetDatabase", addr |-> asked[n].addr, state |-> asked[n].state])
  /\ asked' = [asked EXCEPT ![n] = NoSnapshot]
  /\ UNCHANGED <<vars, current_op_id, operations, db, state, offline_queue, env, history>>

\* ReplaceDatabase: the card of the snapshot drops its current charge and queue.
DbReplace(n) ==
  /\ \E i \in 1..Len(db[n]) :
       /\ Overtakes(n, i, "ReplaceDatabase")
       /\ \/ /\ db[n][i].state = NoActors
             /\ db' = [db EXCEPT ![n] = RemoveAt(@, i)]
             /\ UNCHANGED state
          \/ /\ db[n][i].state # NoActors
             /\ db' = [db EXCEPT ![n] = SubSeq(@, i + 1, Len(@))]
             /\ state' = [state EXCEPT ![n] = db[n][i].state]
  /\ asked' = [asked EXCEPT ![n] = IF @ = NoSnapshot THEN @ ELSE [@ EXCEPT !.addr = Replaced]]
  /\ Emit(n, [type |-> "ReplaceDatabase"])
  /\ UNCHANGED <<vars, current_op_id, operations, offline_queue, env, history>>

-----------------------------------------------------------------------------
(* The results.  handle_actor_event only prints the errors of its sends. *)

Result(n, type) == Started(n) /\ events[n] # <<>> /\ Head(events[n]).type = type

Sends(n, out) ==
  IF Running(n) THEN Transfer(Nobody, n, out) ELSE UNCHANGED net

LeaderChargeResult(n) ==
  /\ Leads(n) /\ Result(n, "Charge")
  /\ LET id == Head(events[n]).id
     IN  /\ id \in DOMAIN operations[n]
         /\ operations' = [operations EXCEPT ![n] = Restrict(@, DOMAIN @ \ {id})]
         /\ LET done == operations[n][id]
            IN  \/ /\ done.addr = n
                   /\ answered' = answered \cup {done.op.req}
                   /\ Sends(n, Silent)
                \/ /\ done.addr # n
                   /\ Sends(n, Send(done.addr, ResponseMsg(done.op)))
                   /\ UNCHANGED answered
  /\ UNCHANGED <<current_op_id, db, asked, state, offline_queue, submitted, before>>

\* The view is sent again when the first send fails.  A node that connects to
\* itself drops one end of the stream, and the other end with it.
LeaderViewResult(n) ==
  /\ Leads(n) /\ Result(n, "GetDatabase")
  /\ LET addr == Head(events[n]).addr
         view == ViewMsg(cluster[n], n, Head(events[n]).state)
     IN  \/ /\ addr # n
            /\ Sends(n, [p \in Nodes |-> IF p # addr THEN <<>>
                           ELSE IF <<n, p>> \in stale THEN <<view, view>> ELSE <<view>>])
         \/ /\ addr = n
            /\ \E got \in {<<>>, <<view>>} : Sends(n, [Silent EXCEPT ![n] = got \o <<LostMsg>>])
  /\ UNCHANGED <<current_op_id, operations, db, asked, state, offline_queue, history>>

LeaderReplaceResult(n) ==
  /\ Leads(n) /\ Result(n, "ReplaceDatabase")
  /\ UNCHANGED net
  /\ UNCHANGED <<current_op_id, operations, db, asked, state, offline_queue, history>>

\* Replica::handle_operation_result: an Ack of the next operation, whatever the
\* operation was (the id of GetDatabase is 0).
ReplicaResult(n) ==
  /\ ~Leads(n)
  /\ \E type \in {"Charge", "GetDatabase"} :
       /\ Result(n, type)
       /\ LET id == IF type = "Charge" THEN Head(events[n]).id ELSE 0
          IN  Sends(n, Send(leader_addr[n], AckMsg(id + 1)))
  /\ UNCHANGED <<current_op_id, operations, db, asked, state, offline_queue, history>>

\* After ReplaceDatabase the queue of the OFFLINE time is sent to the leader; a
\* charge whose send fails is gone, the ones behind it stay.
ReplicaReplay(n) ==
  /\ ~Leads(n) /\ Result(n, "ReplaceDatabase")
  /\ LET queue == offline_queue[n]
         msgs  == [i \in DOMAIN queue |-> RequestMsg([req |-> queue[i], replay |-> TRUE], n)]
         fails == ~Running(n) \/ Fails(n, leader_addr[n])
     IN  \/ /\ queue # <<>> /\ fails
            /\ offline_queue' = [offline_queue EXCEPT ![n] = Tail(@)]
            /\ Sends(n, Send(leader_addr[n], Head(msgs)))
         \/ /\ queue = <<>> \/ ~fails
            /\ offline_queue' = [offline_queue EXCEPT ![n] = <<>>]
            /\ Sends(n, [Silent EXCEPT ![leader_addr[n]] = msgs])
  /\ UNCHANGED <<current_op_id, operations, db, asked, state, history>>

HandleResult(n) ==
  /\ \/ LeaderChargeResult(n) \/ LeaderViewResult(n) \/ LeaderReplaceResult(n)
     \/ ReplicaResult(n) \/ ReplicaReplay(n)
  /\ events' = [events EXCEPT ![n] = Tail(@)]
  /\ UNCHANGED <<role, leader_addr, cluster, election, env>>

-----------------------------------------------------------------------------
(* The end of a node *)

Wipe(n) ==
  /\ current_op_id' = [current_op_id EXCEPT ![n] = 1]
  /\ operations' = [operations EXCEPT ![n] = Empty]
  /\ db' = [db EXCEPT ![n] = <<>>]
  /\ asked' = [asked EXCEPT ![n] = NoSnapshot]
  /\ events' = [events EXCEPT ![n] = <<>>]
  /\ state' = [state EXCEPT ![n] = NoActors]
  /\ offline_queue' = [offline_queue EXCEPT ![n] = <<>>]
  /\ UNCHANGED <<env, history>>

CCrash(n) ==
  /\ Crash(n)
  /\ Wipe(n)

\* Messages that a role does not expect, todo!(): Log and Response at a leader,
\* Ack at a replica; and the panic of Replica::handle_coordinator.
MessagePanic(m, n) ==
  /\ \/ Panic(m, n)
     \/ /\ \/ role[n] = "leader" /\ (Receives(m, n, "Log") \/ Receives(m, n, "Response"))
           \/ role[n] = "replica" /\ Receives(m, n, "Ack")
        /\ Stops(n, "panicked")
  /\ Wipe(n)

\* "leader received the result of an unexisting operation"
ResultPanic(n) ==
  /\ Leads(n) /\ Result(n, "Charge")
  /\ Head(events[n]).id \notin DOMAIN operations[n]
  /\ Stops(n, "panicked")
  /\ Wipe(n)

Handle(m, n) ==
  \/ HandleRequest(m, n) \/ HandleLog(m, n) \/ HandleAck(m, n) \/ HandleResponse(m, n)
  \/ HandleJoin(m, n) \/ HandleClusterUpdate(m, n) \/ HandleClusterView(m, n)
  \/ MessagePanic(m, n)

Database(n) == DbCharge(n) \/ DbGet(n) \/ DbCollect(n) \/ DbReplace(n)

\* What a node does by itself; the rest is done to it.
Step(n) ==
  \/ ElectionStep(n) \/ OfflineTimeout(n)
  \/ \E m \in Nodes : Handle(m, n)
  \/ Database(n)
  \/ HandleResult(n) \/ ResultPanic(n)

\* Node n leads, and the change of its members changes which of the Acks of the
\* members it had execute an operation.
Recounts(n) ==
  /\ role[n] = "leader"
  /\ \E acks \in 1..Cardinality(cluster[n]) - 1 :
       Enough(acks, cluster[n]) # Enough(acks, cluster'[n])

Recount ==
  recounted' = recounted \cup
    UNION {{operations[n][id].op.req : id \in DOMAIN operations[n]} : n \in {p \in Nodes : Recounts(p)}}

CNext ==
  /\ \E n \in Nodes :
       \/ Step(n)
       \/ \E q \in Requests : Charge(n, q)
       \/ Start(n) \/ Disconnect(n) \/ Connect(n) \/ CCrash(n)
  /\ Recount

CSpec == CInit /\ [][CNext]_allVars

-----------------------------------------------------------------------------
(* Properties *)

Count(q, charges) == Cardinality({i \in DOMAIN charges : charges[i] = q})

\* Nothing is on its way or in progress, and every node that was cut off is back.
Quiet ==
  /\ \A m, n \in Nodes : chan[m][n] = <<>>
  /\ \A n \in Nodes :
       /\ db[n] = <<>> /\ events[n] = <<>> /\ asked[n] = NoSnapshot
       /\ ~election[n]
       /\ Started(n) => Running(n)

\* Nothing has gone wrong, and the first leader still leads; it was not alone with
\* two requests, to which Leader::handle_request gives one id.
Undisturbed ==
  /\ plan.members # {plan.leader} \/ Cardinality(plan.requests) <= 1
  /\ offline = 0
  /\ \A n \in Nodes : role[n] \notin {"crashed", "panicked"}
  /\ role[plan.leader] = "leader"

\* Types of the state.
CTypeOK ==
  /\ role \in [Nodes -> {"down", "leader", "replica", "leader_off", "replica_off",
                         "crashed", "panicked"}]
  /\ leader_addr \in [Nodes -> Nodes]
  /\ cluster \in [Nodes -> SUBSET Nodes]
  /\ current_op_id \in [Nodes -> Nat \ {0}]
  /\ \A n \in Nodes :
       /\ DOMAIN operations[n] \subseteq Nat \ {0}
       /\ ToSet(Held(n)) \subseteq submitted
       /\ ToSet(offline_queue[n]) \subseteq answered
  /\ answered \subseteq submitted

\* Once a node has joined it holds every charge that had been answered when it
\* asked to join, once: the snapshot of handle_join and the Logs that the leader
\* sends from then on neither miss nor repeat one (handle_cluster_view).
JoinerHasAnswered ==
  Undisturbed =>
    \A n \in Nodes :
      n \in cluster[n] /\ (\A i \in DOMAIN db[n] : db[n][i].type # "ReplaceDatabase") =>
        \A q \in before[n] : Count(q, Held(n)) = 1


\* All the nodes that run agree on the members, and at most one of them leads.
Converged ==
  /\ OneLeads
  /\ \A m, n \in Nodes : Running(m) /\ Running(n) => cluster[m] = cluster[n]



(* What the repository says of itself, and the code does not do *)

\* A leader gets the result of an operation only while it is pending
\* (handle_operation_result: "leader received the result of an unexisting operation").
ResultsExpected ==
  \A n \in Nodes : Leads(n) /\ Result(n, "Charge") => Head(events[n]).id \in DOMAIN operations[n]

\* When another leader was elected while a node was cut off, the node is back and all is
\* quiet, the nodes agree on the members and on one leader (handle_connect_node,
\* handle_join).
ReturnConverges ==
  Quiet /\ (\E n \in Nodes \ {plan.leader} : role[n] = "leader") => Converged

\* A node that has asked to join has got a view when all is quiet (Replica::start,
\* the GetDatabase of handle_join).
JoinersGetView == Quiet => \A n \in plan.joiners : Running(n) => n \in cluster[n]

\* When all is quiet a charge that was accepted OFFLINE has been replayed: the leader
\* holds every charge that was answered (handle_connect_node).
OfflineReplayed ==
  Quiet => \A n \in Nodes : role[n] = "leader" => answered \subseteq ToSet(Held(n))

\* When nodes only join, requests are redirected to whoever leads, and each of them
\* is answered when all is quiet (Replica::handle_request, handle_cluster_view).
RequestsRedirected == Quiet => submitted = answered

\* When a node crashes the one that leads from then on has applied every charge
\* that was answered (Leader::from_existing: "Old committed ops are already present
\* in the actor system"), or is about to.
LeaderHoldsAnswered ==
  \A n \in Nodes :
    role[n] = "leader" =>
      \A q \in answered : q \in ToSet(Held(n)) \/ \E i \in DOMAIN db[n] : db[n][i].op.req = q
=============================================================================
