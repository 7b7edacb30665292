-------------------------- MODULE StationInvariant --------------------------
(***************************************************************************)
(* The inductive invariants of StationClient: where a charge is on its way *)
(* to the cluster, and where a request is on its way to its result.        *)
(***************************************************************************)
EXTENDS StationClient

\* One of the elements of sequence s is in M; at most one is.
In(s, M)        == \E i \in DOMAIN s : s[i] \in M
AtMostOne(s, M) == \A i, j \in DOMAIN s : s[i] \in M /\ s[j] \in M => i = j

-----------------------------------------------------------------------------
\* The messages that ask for charge q, and those that tell that it is accepted
Asks(q)    == {m \in StationToNodeMsg : m.type = "ChargeRequest" /\ m.charge = q}
Accepts(q) == {m \in NodeToStationMsg : m.type = "ChargeResult" /\ m.allowed /\ m.of = q}

\* A charge is in one place at most: with the station, on its way to the client, in
\* one of the queues, or with the cluster; one that was not entered is nowhere.
ChargeInv ==
  /\ ~flushing => still_pending = <<>>
  /\ \A q \in Charges :
       /\ AtMostOne(to_node, Asks(q))
       /\ AtMostOne(still_pending, {q}) /\ AtMostOne(offline_queue, {q})
       /\ delivered[q] <= 1
       /\ In(command, Asks(q)) => ~In(to_node, Asks(q))
       /\ In(command, Asks(q)) \/ In(to_node, Asks(q)) =>
            ~In(still_pending, {q}) /\ ~In(offline_queue, {q}) /\ delivered[q] = 0
       /\ In(still_pending, {q}) => ~In(offline_queue, {q}) /\ delivered[q] = 0
       /\ In(offline_queue, {q}) => delivered[q] = 0
       /\ q > entered => /\ ~In(command, Asks(q)) /\ ~In(to_node, Asks(q))
                         /\ ~In(still_pending, {q}) /\ ~In(offline_queue, {q})
                         /\ delivered[q] = 0

\* A charge that was accepted is with the cluster or in one of the queues.
Known(q) == delivered[q] > 0 \/ In(still_pending, {q}) \/ In(offline_queue, {q})

AcceptedInv ==
  /\ \A m \in cluster_requests \cup responses : delivered[m.charge] > 0
  /\ \A q \in Charges : In(reply, Accepts(q)) \/ In(to_station, Accepts(q)) => Known(q)
  /\ \A m \in results : m.allowed => Known(m.of)

-----------------------------------------------------------------------------
\* The ids of the station are lower than those of replayed charges.
Separated == \A id \in StationIds : id < FirstReplayId

\* The messages about request id of the station
About(id) == {m \in StationToNodeMsg \cup NodeToStationMsg :
                m.type \in {"ChargeRequest", "ChargeResult"} /\ m.request_id = id}

\* One of the records of set S is about request id.
Held(S, id) == \E m \in S : m.req_id = id

\* Message m of the station or of the client is about the charge of a request that
\* the station knows.
Right(m) ==
  /\ m.type = "ChargeRequest" =>
       m.request_id \in DOMAIN requests /\ requests[m.request_id].charge = m.charge
  /\ m.type = "ChargeResult" =>
       m.request_id \in DOMAIN requests /\ requests[m.request_id].charge = m.of

RightInv ==
  /\ \A m \in Range(command) \cup Range(to_node) \cup Range(reply) \cup Range(to_station) : Right(m)
  /\ \A m \in cluster_requests \cup responses : m.req_id \in StationIds =>
       m.req_id \in DOMAIN requests /\ requests[m.req_id].charge = m.charge

\* A request is in one place at most, on its way to the result.
PlaceInv ==
  \A id \in StationIds :
    /\ AtMostOne(to_node, About(id)) /\ AtMostOne(to_station, About(id))
    /\ \A m, r \in cluster_requests : m.req_id = id /\ r.req_id = id => m = r
    /\ \A m, r \in responses : m.req_id = id /\ r.req_id = id => m = r
    /\ In(command, About(id)) =>
         /\ ~In(to_node, About(id)) /\ ~Held(cluster_requests, id) /\ ~Held(responses, id)
         /\ ~In(reply, About(id)) /\ ~In(to_station, About(id))
    /\ In(to_node, About(id)) =>
         /\ ~Held(cluster_requests, id) /\ ~Held(responses, id)
         /\ ~In(reply, About(id)) /\ ~In(to_station, About(id))
    /\ Held(cluster_requests, id) =>
         ~Held(responses, id) /\ ~In(reply, About(id)) /\ ~In(to_station, About(id))
    /\ Held(responses, id) => ~In(reply, About(id)) /\ ~In(to_station, About(id))
    /\ In(reply, About(id)) => ~In(to_station, About(id))

\* The client passes on the answers to the requests that the cluster has; the
\* requests of the busy pumps are somewhere.
ServedInv ==
  /\ next_replay_req_id >= FirstReplayId
  /\ \A id \in StationIds :
       id \in active_online_requests <=> Held(cluster_requests, id) \/ Held(responses, id)
  /\ \A p \in Pumps : in_flight_by_pump[p] # Idle =>
       /\ in_flight_by_pump[p] \in DOMAIN requests
       /\ requests[in_flight_by_pump[p]].pump = p
  /\ ~stopped => \A id \in DOMAIN requests :
       \/ In(command, About(id)) \/ In(to_node, About(id)) \/ In(reply, About(id))
       \/ In(to_station, About(id)) \/ Held(cluster_requests, id) \/ Held(responses, id)

\* The inductive invariants: without and with ids that are apart.
QueueInv == TypeOK /\ ChargeInv /\ AcceptedInv
SInv     == QueueInv /\ RightInv /\ PlaceInv /\ ServedInv /\ OwnAnswer
=============================================================================
