--------------------------- MODULE StationClient ---------------------------
(***************************************************************************)
(* A service station outside the cluster: the station simulator (station.rs *)
(* of common), a task that reads commands and runs the pumps, and the node *)
(* client (node_client.rs) that forwards charges to the cluster or, when   *)
(* it is OFFLINE or no node can be reached, accepts them itself and sends  *)
(* them later.  The two tasks talk through two bounded channels; each of   *)
(* them waits in send while the channel is full, and then takes nothing    *)
(* from the other channel.  The cluster answers each request it gets once, *)
(* in any order, or never.                                                 *)
(***************************************************************************)
EXTENDS Integers, Sequences, FiniteSets, Functions

CONSTANTS Pumps,         \* the pumps of the station
          MaxCharges,    \* how many charges the operator enters
          StationIds,    \* the request ids that the station may draw
          FirstReplayId, \* the first id of a replayed charge, 1000000
          NumNodes,      \* known_nodes.len()
          Capacity,      \* the capacity of each of the channels, 128
          MaxCommands    \* how many times the operator enters connect or disconnect

ASSUME PumpsAssumption    == Pumps # {} /\ IsFiniteSet(Pumps)
ASSUME IdsAssumption      == StationIds \subseteq Nat \ {0} /\ FirstReplayId \in Nat \ {0}
ASSUME NumNodesAssumption == NumNodes \in Nat \ {0}
ASSUME CapacityAssumption == Capacity \in Nat \ {0}
ASSUME BoundsAssumption   == MaxCharges \in Nat /\ MaxCommands \in Nat

VARIABLES
  \* run_station_simulator
  in_flight_by_pump,     \* the request id a pump is busy with, or Idle
  requests,              \* request id -> PumpRequest
  command,               \* the message the station is sending: at most one
  stopped,               \* the simulator has returned
  \* the channels
  to_node, to_station,
  \* struct NodeClient
  online,
  offline_queue,         \* the charges accepted without the cluster
  still_pending,         \* those that flush_offline_queue has tried in vain
  active_online_requests,
  next_replay_req_id,
  reply,                 \* the message the client is sending: at most one
  flushing,              \* after reply, the client is in flush_offline_queue
  ended,                 \* run has returned
  \* the cluster
  cluster_requests,      \* the requests that were sent and have no answer
  responses,             \* the answers on their way
  \* history variables: no action reads them but entered and commands, the bounds
  entered, commands,     \* the number of charges, and of mode changes, entered
  delivered,             \* delivered[q]: how often q was sent to the cluster
  results                \* what the pumps were told

stationVars == <<in_flight_by_pump, requests, command, stopped>>
clientVars  == <<online, offline_queue, still_pending, active_online_requests,
                 next_replay_req_id, flushing, ended>>
clusterVars == <<cluster_requests, responses>>
history     == <<entered, commands, delivered, results>>
vars == <<stationVars, to_node, to_station, clientVars, reply, clusterVars, history>>

-----------------------------------------------------------------------------
\* A charge is its number in the order of entry.
Charges == 1..MaxCharges

Idle == 0
ChargeRequest(id, q) == [type |-> "ChargeRequest", request_id |-> id, charge |-> q]
\* of: the charge that the result is about; the station does not see it.
ChargeResult(id, allowed, q) ==
  [type |-> "ChargeResult", request_id |-> id, allowed |-> allowed, of |-> q]
Mode(name) == [type |-> name]        \* DisconnectNode, ConnectNode
Debug      == [type |-> "Debug"]

StationToNodeMsg ==
  [type : {"ChargeRequest"}, request_id : StationIds, charge : Charges]
    \cup {Mode(name) : name \in {"DisconnectNode", "ConnectNode"}}
NodeToStationMsg ==
  [type : {"ChargeResult"}, request_id : StationIds, allowed : BOOLEAN, of : Charges]
    \cup {Debug}

Init ==
  /\ in_flight_by_pump = [p \in Pumps |-> Idle]
  /\ requests = [id \in {} |-> id]
  /\ command = <<>> /\ reply = <<>>
  /\ stopped = FALSE /\ ended = FALSE /\ flushing = FALSE
  /\ to_node = <<>> /\ to_station = <<>>
  /\ online = TRUE
  /\ offline_queue = <<>> /\ still_pending = <<>>
  /\ active_online_requests = {}
  /\ next_replay_req_id = FirstReplayId
  /\ cluster_requests = {} /\ responses = {}
  /\ entered = 0 /\ commands = 0
  /\ delivered = [q \in Charges |-> 0] /\ results = {}

\* Faulty variant: the capacity is off by one.
RoomForOneMore(channel) == Len(channel) <= Capacity

\* The send of a bounded channel waits until there is room.
Room(channel) == Len(channel) < Capacity

-----------------------------------------------------------------------------
(* The station. *)

\* Faulty variant: the id is not tested.
AnyId == StationIds

IsIdle(p) == in_flight_by_pump[p] = Idle
FreshIds  == {id \in StationIds \ DOMAIN requests :
                \A p \in Pumps : in_flight_by_pump[p] # id}

\* handle_user_command: an idle pump gets an id that is not in use.  The command
\* for a busy pump is refused and changes nothing.
EnterCharge(p) ==
  /\ ~stopped /\ command = <<>>
  /\ entered < MaxCharges
  /\ IsIdle(p)
  /\ entered' = entered + 1
  /\ \E id \in FreshIds :
       /\ requests' = [k \in DOMAIN requests \cup {id} |->
                         IF k = id THEN [pump |-> p, charge |-> entered'] ELSE requests[k]]
       /\ in_flight_by_pump' = [in_flight_by_pump EXCEPT ![p] = id]
       /\ command' = <<ChargeRequest(id, entered')>>
  /\ UNCHANGED <<stopped, to_node, to_station, clientVars, reply, clusterVars,
                 commands, delivered, results>>

\* The commands connect and disconnect.
EnterMode(name) ==
  /\ ~stopped /\ command = <<>>
  /\ commands < MaxCommands
  /\ command' = <<Mode(name)>>
  /\ commands' = commands + 1
  /\ UNCHANGED <<in_flight_by_pump, requests, stopped, to_node, to_station, clientVars,
                 reply, clusterVars, entered, delivered, results>>

\* to_node_tx.send(msg).await
SendCommand ==
  /\ ~stopped /\ command # <<>>
  /\ Room(to_node)
  /\ to_node' = to_node \o command
  /\ command' = <<>>
  /\ UNCHANGED <<in_flight_by_pump, requests, stopped, to_station, clientVars, reply,
                 clusterVars, history>>

\* handle_node_event: the result of a known request frees its pump.
HandleNodeEvent ==
  /\ ~stopped /\ command = <<>>
  /\ to_station # <<>>
  /\ to_station' = Tail(to_station)
  /\ LET m == Head(to_station)
     IN  \/ /\ m.type = "ChargeResult" /\ m.request_id \in DOMAIN requests
            /\ LET req == requests[m.request_id]
               IN  /\ in_flight_by_pump' = [in_flight_by_pump EXCEPT ![req.pump] = Idle]
                   /\ results' = results \cup {[charge |-> req.charge, of |-> m.of,
                                                  allowed |-> m.allowed]}
            /\ requests' = [k \in DOMAIN requests \ {m.request_id} |-> requests[k]]
         \/ /\ m.type = "ChargeResult" => m.request_id \notin DOMAIN requests
            /\ UNCHANGED <<in_flight_by_pump, requests, results>>
  /\ UNCHANGED <<command, stopped, to_node, clientVars, reply, clusterVars,
                 entered, commands, delivered>>

\* quit, or the end of stdin.  The client still takes what is in its channel.
Quit ==
  /\ ~stopped /\ command = <<>>
  /\ stopped' = TRUE
  /\ UNCHANGED <<in_flight_by_pump, requests, command, to_node, to_station, clientVars,
                 reply, clusterVars, history>>

-----------------------------------------------------------------------------
(* The node client. *)

\* The client is at the select! of run.
Ready == ~ended /\ ~flushing /\ reply = <<>>

\* The client takes the next message of the station.
Takes(type) ==
  /\ Ready
  /\ to_node # <<>>
  /\ Head(to_node).type = type
  /\ to_node' = Tail(to_node)

\* enqueue_offline_charge: OFFLINE, or ONLINE when every known node has failed
\* (forward_online_charge).  The pump is told that the charge is accepted.
EnqueueOfflineCharge ==
  /\ Takes("ChargeRequest")
  /\ LET m == Head(to_node)
     IN  /\ offline_queue' = Append(offline_queue, m.charge)
         /\ reply' = <<ChargeResult(m.request_id, TRUE, m.charge)>>
  /\ UNCHANGED <<stationVars, to_station, online, still_pending, active_online_requests,
                 next_replay_req_id, flushing, ended, clusterVars, history>>

\* Faulty variant: the request is not tracked.
Untracked(id) == active_online_requests

Tracked(id) == active_online_requests \cup {id}

\* forward_online_charge: one of the known nodes has taken the request.
ForwardOnlineCharge ==
  /\ online
  /\ Takes("ChargeRequest")
  /\ LET m == Head(to_node)
     IN  /\ cluster_requests' = cluster_requests \cup
              {[req_id |-> m.request_id, charge |-> m.charge, offline |-> FALSE]}
         /\ active_online_requests' = Tracked(m.request_id)
         /\ delivered' = [delivered EXCEPT ![m.charge] = @ + 1]
  /\ UNCHANGED <<stationVars, to_station, online, offline_queue, still_pending,
                 next_replay_req_id, reply, flushing, ended, responses, entered, commands, results>>

DisconnectNode ==
  /\ Takes("DisconnectNode")
  /\ online' = FALSE
  /\ reply' = <<Debug>>
  /\ UNCHANGED <<stationVars, to_station, offline_queue, still_pending,
                 active_online_requests, next_replay_req_id, flushing, ended, clusterVars,
                 history>>

ConnectNode ==
  /\ Takes("ConnectNode")
  /\ online' = TRUE
  /\ reply' = <<Debug>>
  /\ flushing' = TRUE
  /\ UNCHANGED <<stationVars, to_station, offline_queue, still_pending,
                 active_online_requests, next_replay_req_id, ended, clusterVars, history>>

\* Faulty variants: a charge that could not be sent is dropped; one that was sent
\* is kept.
KeepNone(q, tries) == still_pending
KeepAll(q, tries)  == Append(still_pending, q)

\* A charge that no known node has taken (tries = 0) is kept.
Keep(q, tries) == IF tries = 0 THEN Append(still_pending, q) ELSE still_pending

\* The client is in flush_offline_queue, once the reply to ConnectNode is sent.
Flushing == ~ended /\ flushing /\ reply = <<>>

\* flush_offline_queue, for the next charge of the queue: the known nodes are tried
\* in their order, every try with an id of its own.  tries: the node that takes the
\* charge, 0 if none does.
ReplayCharge ==
  /\ Flushing
  /\ offline_queue # <<>>
  /\ offline_queue' = Tail(offline_queue)
  /\ LET q == Head(offline_queue)
     IN  \E tries \in 0..NumNodes :
           /\ still_pending' = Keep(q, tries)
           /\ next_replay_req_id' =
                next_replay_req_id + (IF tries = 0 THEN NumNodes ELSE tries)
           /\ cluster_requests' = cluster_requests \cup
                (IF tries = 0 THEN {}
                 ELSE {[req_id |-> next_replay_req_id + tries - 1, charge |-> q, offline |-> TRUE]})
           /\ delivered' = [delivered EXCEPT ![q] = @ + (IF tries = 0 THEN 0 ELSE 1)]
  /\ UNCHANGED <<stationVars, to_node, to_station, online, active_online_requests, reply,
                 flushing, ended, responses, entered, commands, results>>

\* The end of flush_offline_queue: what could not be sent is the queue again.
RestorePending ==
  /\ Flushing
  /\ offline_queue = <<>>
  /\ offline_queue' = still_pending
  /\ still_pending' = <<>>
  /\ flushing' = FALSE
  /\ UNCHANGED <<stationVars, to_node, to_station, online, active_online_requests,
                 next_replay_req_id, reply, ended, clusterVars, history>>

\* handle_node_msg and handle_response_from_node: the answer to a request that was
\* forwarded goes to the station, the one to a replayed charge is ignored.
HandleResponse(m) ==
  /\ Ready
  /\ m \in responses
  /\ responses' = responses \ {m}
  /\ active_online_requests' = active_online_requests \ {m.req_id}
  /\ reply' = IF m.req_id \in active_online_requests
              THEN <<ChargeResult(m.req_id, m.allowed, m.charge)>> ELSE <<>>
  /\ UNCHANGED <<stationVars, to_node, to_station, online, offline_queue, still_pending,
                 next_replay_req_id, flushing, ended, cluster_requests, history>>

\* station.send(msg).await
SendReply ==
  /\ ~stopped /\ ~ended /\ reply # <<>>
  /\ Room(to_station)
  /\ to_station' = to_station \o reply
  /\ reply' = <<>>
  /\ UNCHANGED <<stationVars, to_node, clientVars, clusterVars, history>>

\* The simulator has returned and the send fails.  The error of a ChargeResult
\* ends run, that of a Debug is ignored.
SendReplyFails ==
  /\ stopped /\ ~ended /\ reply # <<>>
  /\ ended' = (Head(reply).type = "ChargeResult")
  /\ reply' = <<>>
  /\ UNCHANGED <<stationVars, to_node, to_station, online, offline_queue, still_pending,
                 active_online_requests, next_replay_req_id, flushing, clusterVars,
                 history>>

\* run returns, and what it has queued is lost.  The Station is dropped, and its
\* task with it.
Return ==
  /\ ended' = TRUE /\ stopped' = TRUE
  /\ UNCHANGED <<in_flight_by_pump, requests, command, to_node, to_station, online,
                 offline_queue, still_pending, active_online_requests, next_replay_req_id,
                 reply, flushing, clusterVars, history>>

\* recv returns None: the simulator has returned, and its channel is empty.
StationClosed == Ready /\ stopped /\ to_node = <<>> /\ Return

\* The answer to a RoleQuery cannot be sent: the error ends run.
RoleQueryFails == Ready /\ Return

-----------------------------------------------------------------------------
\* The cluster decides a charge; one of an offline station is always accepted.
Answer(m) ==
  /\ m \in cluster_requests
  /\ cluster_requests' = cluster_requests \ {m}
  /\ \E ok \in (IF m.offline THEN {TRUE} ELSE BOOLEAN) :
       responses' = responses \cup
         {[req_id |-> m.req_id, charge |-> m.charge, allowed |-> ok]}
  /\ UNCHANGED <<stationVars, to_node, to_station, clientVars, reply, history>>

ClientStep ==
  \/ EnqueueOfflineCharge \/ ForwardOnlineCharge
  \/ DisconnectNode \/ ConnectNode \/ ReplayCharge \/ RestorePending
  \/ SendReply \/ SendReplyFails

Next ==
  \/ \E p \in Pumps : EnterCharge(p)
  \/ \E name \in {"DisconnectNode", "ConnectNode"} : EnterMode(name)
  \/ SendCommand \/ HandleNodeEvent \/ Quit
  \/ ClientStep \/ StationClosed \/ RoleQueryFails
  \/ \E m \in responses : HandleResponse(m)
  \/ \E m \in cluster_requests : Answer(m)

Spec == Init /\ [][Next]_vars

\* Both tasks run, and the cluster answers.  Nobody has to enter anything.
FairSpec ==
  /\ Spec
  /\ WF_vars(SendCommand) /\ WF_vars(HandleNodeEvent)
  /\ WF_vars(ClientStep)
  /\ WF_vars(\E m \in responses : HandleResponse(m))
  /\ WF_vars(\E m \in cluster_requests : Answer(m))

-----------------------------------------------------------------------------
(* Properties *)

\* Types of the state.
TypeOK ==
  /\ in_flight_by_pump \in [Pumps -> StationIds \cup {Idle}]
  /\ DOMAIN requests \subseteq StationIds
  /\ \A id \in DOMAIN requests : requests[id] \in [pump : Pumps, charge : Charges]
  /\ entered \in 0..MaxCharges /\ commands \in 0..MaxCommands
  /\ command \in Seq(StationToNodeMsg) /\ Len(command) <= 1
  /\ to_node \in Seq(StationToNodeMsg) /\ Len(to_node) <= Capacity
  /\ reply \in Seq(NodeToStationMsg) /\ Len(reply) <= 1
  /\ to_station \in Seq(NodeToStationMsg) /\ Len(to_station) <= Capacity
  /\ {online, stopped, flushing, ended} \subseteq BOOLEAN
  /\ offline_queue \in Seq(Charges) /\ still_pending \in Seq(Charges)
  /\ delivered \in [Charges -> Nat]
  /\ active_online_requests \subseteq StationIds
  /\ next_replay_req_id \in Nat
  /\ cluster_requests \subseteq [req_id : Nat, charge : Charges, offline : BOOLEAN]
  /\ responses \subseteq [req_id : Nat, charge : Charges, allowed : BOOLEAN]
  /\ results \subseteq [charge : Charges, of : Charges, allowed : BOOLEAN]

\* A pump is told the result of its own charge, although results of forwarded and
\* of replayed charges come back in any order and ids are used again
\* (handle_node_msg, active_online_requests).
OwnAnswer == \A m \in results : m.charge = m.of

\* The charges that wait to be replayed, in their order
Queued == still_pending \o offline_queue

\* No charge reaches the cluster twice, or is there and still to be sent, however
\* sends fail and the modes change: it leaves the queue when it is sent
\* (forward_online_charge, flush_offline_queue).
ChargedOnce ==
  /\ IsInjective(Queued)
  /\ \A q \in Charges : delivered[q] <= (IF q \in Range(Queued) THEN 0 ELSE 1)

\* A charge that a pump was told is accepted is known to the cluster or waits in
\* the queue to be replayed, while the client runs (enqueue_offline_charge,
\* flush_offline_queue).
NoChargeForgotten ==
  ~ended => \A m \in results : m.allowed =>
    delivered[m.charge] > 0 \/ m.charge \in Range(Queued)

\* The places where request id of the station may be, on its way to the result.
Carries(s, id) ==
  {i \in DOMAIN s : s[i].type \in {"ChargeRequest", "ChargeResult"} /\ s[i].request_id = id}
Places(id) ==
  {<<"command", i>> : i \in Carries(command, id)}
    \cup {<<"to_node", i>> : i \in Carries(to_node, id)}
    \cup {<<"reply", i>> : i \in Carries(reply, id)}
    \cup {<<"to_station", i>> : i \in Carries(to_station, id)}
    \cup {<<"cluster_requests", m>> : m \in {r \in cluster_requests : r.req_id = id}}
    \cup {<<"responses", m>> : m \in {r \in responses : r.req_id = id}}

\* While the station runs, a busy pump waits for something that is on its way: its
\* request, or the answer, is in exactly one place between station, client and
\* cluster, and the client will pass the answer on (in_flight_by_pump,
\* active_online_requests).
BusyPumpIsServed ==
  ~stopped => \A p \in Pumps : in_flight_by_pump[p] # Idle =>
    LET id == in_flight_by_pump[p]
    IN  /\ id \in DOMAIN requests /\ requests[id].pump = p
        /\ \E place \in Places(id) : Places(id) = {place}
        /\ (\E m \in cluster_requests \cup responses : m.req_id = id)
             <=> id \in active_online_requests

\* Each of the two tasks waits in send for a place in the channel that the other one
\* does not read, because it waits in send as well.
Standoff ==
  /\ command # <<>> /\ ~Room(to_node)
  /\ reply # <<>> /\ ~Room(to_station)

\* Every charge that is entered gets its result, unless the station is stopped or
\* the two tasks have come to wait for each other; nothing else is in the way of an
\* answer (handle_user_command, handle_response_from_node).
EveryChargeAnswered ==
  \A q \in Charges :
    q <= entered ~> (stopped \/ Standoff \/ \E m \in results : m.charge = q)

\* What the client sends to the simulator is delivered, or the send fails because the
\* simulator has returned (Station::send).
SendReturns == reply # <<>> ~> reply = <<>>
=============================================================================
