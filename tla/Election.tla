------------------------------ MODULE Election ------------------------------
(***************************************************************************)
(* The election of a leader (Bully) among the nodes of a formed cluster:   *)
(* the handlers of Leader and Replica for Election, ElectionOk and         *)
(* Coordinator, the election timer, the loss of a connection and the       *)
(* change of role in run_node_runtime.  A node is its id.  Nodes crash and *)
(* do not come back; any of them may be the leader at first, since the     *)
(* first leader is the one that was started as such.                       *)
(*                                                                         *)
(* A message to a node that has crashed is lost (the errors of send are    *)
(* only printed).  A node learns of a crash through the end of a stream:   *)
(* it has one with its leader and with whom it exchanged messages.  In a   *)
(* scenario with crossing, a node accepts a connection later than its peer *)
(* makes it, and its acceptor replaces the handler of the peer that it has *)
(* by then: nodes that connect to each other lose both streams.            *)
(***************************************************************************)
EXTENDS Integers, Sequences, FiniteSets

CONSTANTS Nodes,     \* the ids of the nodes
          Scenarios  \* the clusters, and what may happen to them

\* The members of a cluster, which of them may lead at first, how many crash, whether
\* the 2 s of the timer suffice for an answer of a node that runs, and whether
\* connections may cross.
ASSUME ScenariosAssumption ==
  /\ Nodes \subseteq Nat /\ IsFiniteSet(Nodes)
  /\ \A s \in Scenarios :
       s.members \in SUBSET Nodes /\ s.first \in SUBSET s.members /\ s.crashes \in Nat /\ s.timely \in BOOLEAN
       /\ s.crossing \in BOOLEAN

VARIABLES
  plan,         \* the scenario
  role,         \* role[n]: "leader", "replica", "down", "crashed" or "panicked"
  leader_addr,  \* leader_addr[n]: the leader that replica n follows
  cluster,      \* cluster[n]: the members that n knows
  election,     \* election[n]: election_in_progress, with its timer
  chan,         \* chan[m][n]: the messages from m to n, and the end of the stream
  conn,         \* the pairs of nodes that have a stream
  stale,        \* <<m, n>>: m still holds the handler of a stream with n that ended
  dials,        \* <<m, n>>: m has connected to n, whose acceptor has yet to take it up
  backlog,      \* backlog[m][n]: the messages of m on that connection
  crossed       \* history: an acceptor has replaced the handler of another stream

net  == <<chan, conn, stale, dials, backlog, crossed>>
vars == <<plan, role, leader_addr, cluster, election, net>>

-----------------------------------------------------------------------------
Running(n) == role[n] \in {"leader", "replica"}

ElectionMsg(n)    == [type |-> "Election", id |-> n]
ElectionOkMsg(n)  == [type |-> "ElectionOk", id |-> n]
CoordinatorMsg(n) == [type |-> "Coordinator", id |-> n]
LostMsg           == [type |-> "ConnectionLost"]
ElectionMessage   == [type : {"Election", "ElectionOk", "Coordinator"}, id : Nodes] \cup {LostMsg}

Init ==
  /\ plan \in Scenarios
  /\ \E l \in plan.first :
       /\ role = [n \in Nodes |-> IF n = l THEN "leader"
                                 ELSE IF n \in plan.members THEN "replica" ELSE "down"]
       /\ leader_addr = [n \in Nodes |-> l]
       /\ conn = {{l, n} : n \in plan.members \ {l}}
  /\ cluster = [n \in Nodes |-> IF n \in plan.members THEN plan.members ELSE {}]
  /\ election = [n \in Nodes |-> FALSE]
  /\ chan = [m \in Nodes |-> [n \in Nodes |-> <<>>]]
  /\ stale = {} /\ dials = {} /\ crossed = FALSE
  /\ backlog = [m \in Nodes |-> [n \in Nodes |-> <<>>]]

\* Nobody: a step that takes no message
Nobody == -1

\* What Connection::send gets through to y of the messages of n: the first one
\* finds that the handler of a stream that ended is gone, and is lost.
Accepted(n, y, msgs) ==
  IF msgs # <<>> /\ <<n, y>> \in stale THEN Tail(msgs) ELSE msgs

\* Node n takes the first message from m and sends out[p] to every p.  Without a
\* stream it connects; the other end accepts at once or, with crossing, later.
Transfer(m, n, out) ==
  LET reached == {y \in Nodes : Running(y) /\ Accepted(n, y, out[y]) # <<>>}
      dialled == {y \in reached : plan.crossing /\ y # n /\ {n, y} \notin conn}
  IN  /\ chan' = [x \in Nodes |-> [y \in Nodes |->
           (IF x = m /\ y = n THEN Tail(chan[x][y]) ELSE chan[x][y])
             \o (IF x = n /\ y \in reached \ dialled THEN Accepted(n, y, out[y]) ELSE <<>>)]]
      /\ backlog' = [x \in Nodes |-> [y \in Nodes |->
           backlog[x][y] \o (IF x = n /\ y \in dialled THEN Accepted(n, y, out[y]) ELSE <<>>)]]
      /\ conn' = conn \cup {{n, y} : y \in reached \ (dialled \cup {n})}
      /\ dials' = dials \cup {<<n, y>> : y \in dialled}
      /\ stale' = stale \ ({<<n, y>> : y \in {z \in Nodes : out[z] # <<>>}}
                            \cup {<<y, n>> : y \in reached \ dialled})
      /\ UNCHANGED crossed

Silent == [p \in Nodes |-> <<>>]

\* Faulty variants: anounce_coordinator does not skip the node itself, or sends
\* to the members that start_election sends to.
AnnounceToItself(n, members) ==
  [p \in Nodes |-> IF p \in members THEN <<CoordinatorMsg(n)>> ELSE <<>>]
AnnounceToHigher(n, members) ==
  [p \in Nodes |-> IF p \in members /\ p > n THEN <<CoordinatorMsg(n)>> ELSE <<>>]

\* anounce_coordinator
Announce(n, members) ==
  [p \in Nodes |-> IF p \in members \ {n} THEN <<CoordinatorMsg(n)>> ELSE <<>>]

\* Faulty variants: the ids are compared the wrong way round; the election does
\* not wait for an answer.
Lower(n, members) == {p \in members : p < n}
NeverWaits(n, members) == election[n]

\* start_election, by a node that knows these members: what it sends, and
\* whether it waits for an answer or is the leader.
Higher(n, members) == {p \in members : p > n}
Calls(n, members) ==
  IF election[n] THEN Silent
  ELSE IF Higher(n, members) # {}
       THEN [p \in Nodes |-> IF p \in Higher(n, members) THEN <<ElectionMsg(n)>> ELSE <<>>]
       ELSE Announce(n, members)
Waits(n, members) == election[n] \/ Higher(n, members) # {}

\* handle_coordinator for itself, into_leader: a replica that wins is promoted.
StartElection(n, members) ==
  /\ election' = [election EXCEPT ![n] = Waits(n, members)]
  /\ role' = [role EXCEPT ![n] = IF Waits(n, members) THEN @ ELSE "leader"]

-----------------------------------------------------------------------------
Receives(m, n, type) ==
  /\ Running(n)
  /\ chan[m][n] # <<>>
  /\ Head(chan[m][n]).type = type

\* handle_election: a node with a higher id answers and starts an election.
HandleElection(m, n) ==
  /\ Receives(m, n, "Election")
  /\ IF n > m
     THEN /\ StartElection(n, cluster[n])
          /\ Transfer(m, n, [p \in Nodes |->
               (IF p = m THEN <<ElectionOkMsg(n)>> ELSE <<>>) \o Calls(n, cluster[n])[p]])
     ELSE /\ Transfer(m, n, Silent)
          /\ UNCHANGED <<election, role>>
  /\ UNCHANGED <<plan, leader_addr, cluster>>

\* handle_election_ok: the timer is stopped.
HandleElectionOk(m, n) ==
  /\ Receives(m, n, "ElectionOk")
  /\ election' = [election EXCEPT ![n] = FALSE]
  /\ Transfer(m, n, Silent)
  /\ UNCHANGED <<plan, role, leader_addr, cluster>>

\* Leader::handle_coordinator: a leader with a lower id becomes a replica
\* (into_replica).
LeaderHandlesCoordinator(m, n) ==
  /\ Receives(m, n, "Coordinator")
  /\ role[n] = "leader"
  /\ election' = [election EXCEPT ![n] = FALSE]
  /\ \/ /\ m >= n
        /\ role' = [role EXCEPT ![n] = "replica"]
        /\ leader_addr' = [leader_addr EXCEPT ![n] = m]
     \/ /\ m < n
        /\ UNCHANGED <<role, leader_addr>>
  /\ Transfer(m, n, Silent)
  /\ UNCHANGED <<plan, cluster>>

\* Replica::handle_coordinator
ReplicaHandlesCoordinator(m, n) ==
  /\ Receives(m, n, "Coordinator")
  /\ role[n] = "replica"
  /\ m > n
  /\ election' = [election EXCEPT ![n] = FALSE]
  /\ leader_addr' = [leader_addr EXCEPT ![n] = m]
  /\ Transfer(m, n, Silent)
  /\ UNCHANGED <<plan, role, cluster>>

\* handle_connection_lost_with: the member is removed; a replica whose leader it
\* was starts an election.
HandleConnectionLost(m, n) ==
  /\ Receives(m, n, "ConnectionLost")
  /\ cluster' = [cluster EXCEPT ![n] = @ \ {m}]
  /\ \/ /\ role[n] = "replica" /\ leader_addr[n] = m
        /\ StartElection(n, cluster[n] \ {m})
        /\ Transfer(m, n, Calls(n, cluster[n] \ {m}))
     \/ /\ role[n] = "leader" \/ leader_addr[n] # m
        /\ Transfer(m, n, Silent)
        /\ UNCHANGED <<election, role>>
  /\ UNCHANGED <<plan, leader_addr>>

\* A node that runs has yet to answer the election of n, or its answer is on its way.
AnswerPending(n) ==
  \E p \in Nodes, streams \in {chan, backlog} :
    \/ \E i \in DOMAIN streams[n][p] : streams[n][p][i] = ElectionMsg(n)
    \/ \E i \in DOMAIN streams[p][n] : streams[p][n][i] = ElectionOkMsg(p)

\* handle_election_timeout, 2 s after the start of the election: announce; a
\* replica is promoted.
HandleElectionTimeout(n) ==
  /\ Running(n)
  /\ election[n]
  /\ plan.timely => ~AnswerPending(n)
  /\ election' = [election EXCEPT ![n] = FALSE]
  /\ role' = [role EXCEPT ![n] = "leader"]
  /\ Transfer(Nobody, n, Announce(n, cluster[n]))
  /\ UNCHANGED <<plan, leader_addr, cluster>>

\* How much of each queue is through when its stream ends: any part of what is on
\* its way, and all that has been received, the end of an earlier stream included.
Through(queue) == {k \in 0..Len(queue) : \A i \in k+1..Len(queue) : queue[i] # LostMsg}
Cuts(queues) ==
  LET longest == CHOOSE k \in {Len(queues[p]) : p \in Nodes} : \A p \in Nodes : Len(queues[p]) <= k
  IN  {k \in [Nodes -> 0..longest] : \A p \in Nodes : k[p] \in Through(queues[p])}

\* Nodes n and y have a stream, or one of them has connected to the other.
Linked(n, y) == {n, y} \in conn \/ <<n, y>> \in dials \/ <<y, n>> \in dials

\* Node n stops: what is on its way to it is lost, and so is the end of what its
\* handlers have yet to write; its peers see the end of its streams.
Stops(n, how) ==
  /\ role' = [role EXCEPT ![n] = how]
  /\ election' = [election EXCEPT ![n] = FALSE]
  /\ \E written \in Cuts(chan[n]), queued \in Cuts(backlog[n]) :
       chan' = [x \in Nodes |-> [y \in Nodes |->
         IF y = n THEN <<>>
         ELSE IF x # n THEN chan[x][y]
         ELSE SubSeq(chan[n][y], 1, written[y]) \o SubSeq(backlog[n][y], 1, queued[y])
                \o (IF Linked(n, y) /\ Running(y) THEN <<LostMsg>> ELSE <<>>)]]
  /\ conn' = {c \in conn : n \notin c}
  /\ stale' = {p \in stale : p[1] # n} \cup {<<y, n>> : y \in {z \in Nodes : Linked(n, z)}}
  /\ dials' = {p \in dials : n \notin {p[1], p[2]}}
  /\ backlog' = [x \in Nodes |-> [y \in Nodes |-> IF n \in {x, y} THEN <<>> ELSE backlog[x][y]]]
  /\ UNCHANGED <<plan, leader_addr, cluster, crossed>>

Crash(n) ==
  /\ Running(n)
  /\ Cardinality({p \in Nodes : role[p] = "crashed"}) < plan.crashes
  /\ Stops(n, "crashed")

\* Replica::handle_coordinator: panic!("leader_id should not be less than self")
Panic(m, n) ==
  /\ Receives(m, n, "Coordinator")
  /\ role[n] = "replica"
  /\ m < n
  /\ Stops(n, "panicked")

-----------------------------------------------------------------------------
(* Acceptor::run of node n: add_handler_from replaces the handler of m *)

\* Node n has no handler of m that is in use.
Accept(n, m) ==
  /\ <<m, n>> \in dials /\ <<n, m>> \notin dials /\ {m, n} \notin conn
  /\ chan' = [chan EXCEPT ![m][n] = @ \o backlog[m][n]]
  /\ backlog' = [backlog EXCEPT ![m][n] = <<>>]
  /\ dials' = dials \ {<<m, n>>}
  /\ conn' = conn \cup {{m, n}}
  /\ stale' = stale \ {<<n, m>>}
  /\ UNCHANGED <<plan, role, leader_addr, cluster, election, crossed>>

\* Its own connection to m is the one that is dropped: m will accept a stream that
\* ends after what has been written.
AcceptInstead(n, m) ==
  /\ <<m, n>> \in dials /\ <<n, m>> \in dials
  /\ \E written \in Through(backlog[n][m]) :
       backlog' = [backlog EXCEPT ![m][n] = <<>>,
                                  ![n][m] = Append(SubSeq(@, 1, written), LostMsg)]
  /\ chan' = [chan EXCEPT ![m][n] = @ \o backlog[m][n]]
  /\ dials' = dials \ {<<m, n>>}
  /\ conn' = conn \cup {{m, n}}
  /\ stale' = stale \ {<<n, m>>}
  /\ crossed' = TRUE
  /\ UNCHANGED <<plan, role, leader_addr, cluster, election>>

\* Then m takes up the stream that ended in place of the one in use: both of them
\* see the end of a stream with a node that runs.
AcceptEnded(n, m) ==
  /\ <<m, n>> \in dials /\ {m, n} \in conn
  /\ \E read \in Through(chan[m][n]), written \in Through(chan[n][m]) :
       chan' = [chan EXCEPT ![m][n] = SubSeq(@, 1, read) \o backlog[m][n],
                            ![n][m] = Append(SubSeq(@, 1, written), LostMsg)]
  /\ backlog' = [backlog EXCEPT ![m][n] = <<>>]
  /\ dials' = dials \ {<<m, n>>}
  /\ conn' = conn \ {{m, n}}
  /\ stale' = stale \cup {<<m, n>>, <<n, m>>}
  /\ crossed' = TRUE
  /\ UNCHANGED <<plan, role, leader_addr, cluster, election>>

Accepts(n, m) == Accept(n, m) \/ AcceptInstead(n, m) \/ AcceptEnded(n, m)

-----------------------------------------------------------------------------
Receive(m, n) ==
  \/ HandleElection(m, n)
  \/ HandleElectionOk(m, n)
  \/ LeaderHandlesCoordinator(m, n)
  \/ ReplicaHandlesCoordinator(m, n)
  \/ HandleConnectionLost(m, n)
  \/ Panic(m, n)

Next ==
  \/ \E m, n \in Nodes : Receive(m, n) \/ Accepts(n, m)
  \/ \E n \in Nodes : HandleElectionTimeout(n) \/ Crash(n)

Spec == Init /\ [][Next]_vars

\* Node::run goes on while there is a message to handle or a timer has run out, and
\* Acceptor::run while there is a connection to accept.
FairSpec ==
  /\ Spec
  /\ \A n \in Nodes : /\ WF_vars((\E m \in Nodes : Receive(m, n)) \/ HandleElectionTimeout(n))
                     /\ WF_vars(\E m \in Nodes : Accepts(n, m))

-----------------------------------------------------------------------------
(* Properties *)

MessageOf(m) == {ElectionMsg(m), ElectionOkMsg(m), CoordinatorMsg(m), LostMsg}

\* Types of the state.
TypeOK ==
  /\ plan \in Scenarios
  /\ role \in [Nodes -> {"leader", "replica", "down", "crashed", "panicked"}]
  /\ leader_addr \in [Nodes -> Nodes]
  /\ cluster \in [Nodes -> SUBSET Nodes]
  /\ election \in [Nodes -> BOOLEAN]
  /\ chan \in [Nodes -> [Nodes -> Seq(ElectionMessage)]]
  /\ backlog \in [Nodes -> [Nodes -> Seq(ElectionMessage)]]
  /\ \A m, n \in Nodes :
       /\ \A i \in 1..Len(chan[m][n]) : chan[m][n][i] \in MessageOf(m)
       /\ \A i \in 1..Len(backlog[m][n]) : backlog[m][n][i] \in MessageOf(m)
  /\ \A n \in Nodes : chan[n][n] = <<>>
  /\ \A c \in conn : \E m, n \in Nodes : m # n /\ c = {m, n}
  /\ stale \subseteq Nodes \X Nodes
  /\ \A p \in dials : \E m, n \in Nodes : m # n /\ p = <<m, n>>
  /\ crossed \in BOOLEAN

\* No replica hears of a leader with a lower id than its own
\* (Replica::handle_coordinator: "leader_id should not be less than self"), as long
\* as answers come in time and no acceptor drops a stream that is in use.
NoPanic == plan.timely /\ ~crossed => \A n \in Nodes : role[n] # "panicked"

\* No two nodes that run lead at the same time, as long as answers come in time and
\* no acceptor drops a stream that is in use (start_election,
\* handle_election_timeout and handle_coordinator).
OneLeads  == \A m, n \in Nodes : role[m] = "leader" /\ role[n] = "leader" => m = n
OneLeader == plan.timely /\ ~crossed => OneLeads

\* The election is over: a node leads and the other nodes that run follow it; it
\* has led from the start or is the highest of them.
Elected ==
  \E l \in Nodes :
    /\ role[l] = "leader"
    /\ \A n \in Nodes \ {l} : Running(n) => role[n] = "replica" /\ leader_addr[n] = l
    /\ leader_addr[l] = l \/ \A n \in Nodes : Running(n) => n <= l

\* In the end the election is over, when at most one node crashes, answers come in
\* time and no acceptor drops a stream that is in use: start_election,
\* handle_election and handle_coordinator of all the others lead to one result.
ElectedAfterOneCrash ==
  <>[](plan.timely /\ ~crossed /\ Cardinality({n \in Nodes : role[n] = "crashed"}) <= 1
         => Elected)

(* What the repository says of itself, and the code does not do *)

\* In the end the election is over, whoever crashes and when (README: "until
\* finally the highest available ID node becomes leader").
LeaderElected == <>[](Elected \/ \A n \in Nodes : ~Running(n))

\* Nothing is on its way and nobody waits.
Settled ==
  /\ dials = {}
  /\ \A m, n \in Nodes : chan[m][n] = <<>>
  /\ \A n \in Nodes : ~election[n]

\* When all is settled, a node that has been elected is the highest that runs, whoever
\* connected to whom (README: "leadership always falls to the strongest (highest ID)
\* node that remains active").
StrongestLeads ==
  Settled => \A n \in Nodes :
    role[n] = "leader" => leader_addr[n] = n \/ \A p \in Nodes : Running(p) => p <= n

\* When all is settled, a node that leads has heard of every other one that does, and
\* the lower one follows the higher one (Leader::handle_coordinator: "If someone with
\* ID >= mine announces leadership, demote to replica.").
OneLeaderRemains == Settled => OneLeads
=============================================================================
