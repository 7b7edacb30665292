--------------------------- MODULE StationProofs ---------------------------
(***************************************************************************)
(* Theorems about StationClient for any number of pumps, charges, nodes    *)
(* and mode changes, and channels of any capacity.                         *)
(***************************************************************************)
EXTENDS StationInvariant, TLAPS

-----------------------------------------------------------------------------
(* Sequences *)

\* What an element that is appended adds.
LEMMA InAppend ==
  ASSUME NEW T, NEW s \in Seq(T), NEW e \in T
  PROVE  /\ Append(s, e) \in Seq(T) /\ Len(Append(s, e)) = Len(s) + 1
         /\ Range(Append(s, e)) = Range(s) \cup {e}
         /\ \A M : In(Append(s, e), M) <=> In(s, M) \/ e \in M
         /\ \A M : AtMostOne(s, M) /\ ~(e \in M /\ In(s, M)) => AtMostOne(Append(s, e), M)
<1> DEFINE t == Append(s, e)
<1>1. /\ t \in Seq(T) /\ Len(t) = Len(s) + 1 /\ DOMAIN t = 1..(Len(s) + 1)
      /\ DOMAIN s = 1..Len(s) /\ Len(s) \in Nat
      /\ t[Len(s) + 1] = e /\ \A i \in 1..Len(s) : t[i] = s[i]
  OBVIOUS
<1> HIDE DEF t
<1>2. Range(t) = Range(s) \cup {e}
  <2>1. \A i \in DOMAIN t : i \in DOMAIN s \/ i = Len(s) + 1
    BY <1>1
  <2>2. DOMAIN s \subseteq DOMAIN t /\ Len(s) + 1 \in DOMAIN t
    BY <1>1
  <2> QED
    BY <1>1, <2>1, <2>2 DEF Range
<1>3. ASSUME NEW M PROVE In(t, M) <=> In(s, M) \/ e \in M
  <2>1. In(t, M) <=> Range(t) \cap M # {}
    BY DEF In, Range
  <2>2. In(s, M) <=> Range(s) \cap M # {}
    BY DEF In, Range
  <2> QED
    BY <1>2, <2>1, <2>2
<1>4. ASSUME NEW M, AtMostOne(s, M), ~(e \in M /\ In(s, M)) PROVE AtMostOne(t, M)
  <2> SUFFICES ASSUME NEW i \in DOMAIN t, NEW j \in DOMAIN t, t[i] \in M, t[j] \in M
               PROVE  i = j
    BY DEF AtMostOne
  <2>1. i \in DOMAIN s /\ j \in DOMAIN s => i = j
    BY <1>1, <1>4 DEF AtMostOne
  <2>2. i \in DOMAIN s /\ j \notin DOMAIN s => FALSE
    BY <1>1, <1>4 DEF In
  <2>3. i \notin DOMAIN s /\ j \in DOMAIN s => FALSE
    BY <1>1, <1>4 DEF In
  <2>4. i \notin DOMAIN s /\ j \notin DOMAIN s => i = j
    BY <1>1
  <2> QED
    BY <2>1, <2>2, <2>3, <2>4
<1> QED
  BY <1>1, <1>2, <1>3, <1>4 DEF t

\* What is left when the first element is taken.
LEMMA InTail ==
  ASSUME NEW T, NEW s \in Seq(T), s # <<>>
  PROVE  /\ Tail(s) \in Seq(T) /\ Len(Tail(s)) = Len(s) - 1
         /\ Head(s) \in T /\ Head(s) \in Range(s) /\ Range(Tail(s)) \subseteq Range(s)
         /\ \A M : In(s, M) <=> Head(s) \in M \/ In(Tail(s), M)
         /\ \A M : AtMostOne(s, M) =>
              AtMostOne(Tail(s), M) /\ ~(Head(s) \in M /\ In(Tail(s), M))
<1> DEFINE t == Tail(s)
<1>1. /\ t \in Seq(T) /\ Len(t) = Len(s) - 1 /\ DOMAIN t = 1..(Len(s) - 1)
      /\ DOMAIN s = 1..Len(s) /\ Len(s) \in Nat \ {0}
      /\ Head(s) = s[1] /\ Head(s) \in T /\ \A i \in 1..(Len(s) - 1) : t[i] = s[i + 1]
  OBVIOUS
<1> HIDE DEF t
<1>2. /\ \A i \in DOMAIN t : i + 1 \in DOMAIN s /\ t[i] = s[i + 1]
      /\ 1 \in DOMAIN s
      /\ \A i \in DOMAIN s : i = 1 \/ (i - 1 \in DOMAIN t /\ t[i - 1] = s[i])
  BY <1>1
<1>3. Head(s) \in Range(s) /\ Range(t) \subseteq Range(s)
  BY <1>1, <1>2 DEF Range
<1>4. ASSUME NEW M PROVE In(s, M) <=> Head(s) \in M \/ In(t, M)
  BY <1>1, <1>2 DEF In
<1>5. ASSUME NEW M, AtMostOne(s, M) PROVE AtMostOne(t, M)
  <2> SUFFICES ASSUME NEW i \in DOMAIN t, NEW j \in DOMAIN t, t[i] \in M, t[j] \in M
               PROVE  i = j
    BY DEF AtMostOne
  <2>1. i + 1 = j + 1
    BY <1>2, <1>5 DEF AtMostOne
  <2> QED
    BY <1>1, <2>1
<1>6. ASSUME NEW M, AtMostOne(s, M), Head(s) \in M, In(t, M) PROVE FALSE
  <2>1. PICK i \in DOMAIN t : t[i] \in M
    BY <1>6 DEF In
  <2>2. i + 1 = 1
    BY <1>1, <1>2, <1>6, <2>1 DEF AtMostOne
  <2> QED
    BY <1>1, <2>2
<1> QED
  BY <1>1, <1>3, <1>4, <1>5, <1>6 DEF t

\* The message that a task is sending, and what it adds to the channel
LEMMA InSingle ==
  ASSUME NEW T, NEW s \in Seq(T), s # <<>>, Len(s) <= 1, NEW t \in Seq(T)
  PROVE  /\ Head(s) \in T /\ t \o s = Append(t, Head(s)) /\ Range(s) = {Head(s)}
         /\ \A M : In(s, M) <=> Head(s) \in M
<1>1. Len(s) = 1 /\ Head(s) = s[1] /\ Head(s) \in T
  <2>1. Len(s) \in Nat \ {0} /\ Head(s) = s[1] /\ Head(s) \in T
    OBVIOUS
  <2>2. \A k \in Nat \ {0} : k <= 1 => k = 1
    OBVIOUS
  <2> QED
    BY <2>1, <2>2, Zenon
<1>2. DOMAIN s = {1}
  BY <1>1
<1>3. t \o s = Append(t, Head(s))
  <2> DEFINE u == t \o s
             v == Append(t, Head(s))
  <2>1. /\ u \in Seq(T) /\ Len(u) = Len(t) + 1 /\ Len(t) \in Nat
        /\ \A i \in 1..(Len(t) + 1) : u[i] = IF i <= Len(t) THEN t[i] ELSE s[i - Len(t)]
    <3>1. /\ t \o s \in Seq(T) /\ Len(t \o s) = Len(t) + Len(s) /\ Len(t) \in Nat
          /\ \A i \in 1..(Len(t) + Len(s)) :
               (t \o s)[i] = IF i <= Len(t) THEN t[i] ELSE s[i - Len(t)]
      OBVIOUS
    <3> QED
      BY <1>1, <3>1
  <2>2. /\ v \in Seq(T) /\ Len(v) = Len(t) + 1
        /\ \A i \in 1..(Len(t) + 1) : v[i] = IF i <= Len(t) THEN t[i] ELSE s[1]
    BY <1>1
  <2> HIDE DEF u, v
  <2>3. \A i \in 1..(Len(t) + 1) : u[i] = v[i]
    <3> SUFFICES ASSUME NEW i \in 1..(Len(t) + 1) PROVE u[i] = v[i]
      OBVIOUS
    <3>1. i <= Len(t) \/ i - Len(t) = 1
      BY <2>1
    <3> QED
      BY <2>1, <2>2, <3>1
  <2>4. u = v
    BY <2>1, <2>2, <2>3
  <2> QED
    BY <2>4 DEF u, v
<1> QED
  BY <1>1, <1>2, <1>3 DEF Range, In

\* A task starts to send.
LEMMA InOne ==
  ASSUME NEW T, NEW e \in T
  PROVE  /\ <<e>> \in Seq(T) /\ Len(<<e>>) = 1 /\ Head(<<e>>) = e
         /\ Range(<<e>>) = {e} /\ \A M : In(<<e>>, M) <=> e \in M
  BY DEF Range, In

\* Nothing is in the empty sequence.
LEMMA InNone ==
  ASSUME NEW T
  PROVE  <<>> \in Seq(T) /\ Len(<<>>) = 0 /\ Range(<<>>) = {} /\ \A M : ~In(<<>>, M) /\ AtMostOne(<<>>, M)
  BY DEF Range, In, AtMostOne

-----------------------------------------------------------------------------
(* Messages *)

\* The messages have the types of the channels that they are sent to.
LEMMA MessageTypes ==
  /\ \A id \in StationIds, q \in Charges : ChargeRequest(id, q) \in StationToNodeMsg
  /\ \A name \in {"DisconnectNode", "ConnectNode"} : Mode(name) \in StationToNodeMsg
  /\ \A id \in StationIds, q \in Charges, ok \in BOOLEAN :
       ChargeResult(id, ok, q) \in NodeToStationMsg
  /\ Debug \in NodeToStationMsg
  BY DEF ChargeRequest, ChargeResult, StationToNodeMsg, NodeToStationMsg, Mode, Debug

\* What the fields of a message are.
LEMMA MessageFields ==
  /\ \A m \in StationToNodeMsg :
       /\ m.type \in {"ChargeRequest", "DisconnectNode", "ConnectNode"}
       /\ m.type = "ChargeRequest" => m.request_id \in StationIds /\ m.charge \in Charges
  /\ \A m \in NodeToStationMsg :
       /\ m.type \in {"ChargeResult", "Debug"}
       /\ m.type = "ChargeResult" =>
            m.request_id \in StationIds /\ m.of \in Charges /\ m.allowed \in BOOLEAN
  BY DEF StationToNodeMsg, NodeToStationMsg, Mode, Debug

\* The client takes the next message of the station.
LEMMA TakesType ==
  ASSUME TypeOK, NEW type, Takes(type)
  PROVE  /\ to_node \in Seq(StationToNodeMsg) /\ to_node # <<>> /\ to_node' = Tail(to_node)
         /\ to_node' \in Seq(StationToNodeMsg) /\ Len(to_node') <= Capacity
         /\ Head(to_node) \in StationToNodeMsg /\ Head(to_node).type = type
         /\ type = "ChargeRequest" =>
              Head(to_node).request_id \in StationIds /\ Head(to_node).charge \in Charges
         /\ ~ended /\ ~flushing /\ reply = <<>>
<1>1. /\ to_node \in Seq(StationToNodeMsg) /\ Len(to_node) <= Capacity
      /\ to_node # <<>> /\ to_node' = Tail(to_node) /\ Head(to_node).type = type
      /\ ~ended /\ ~flushing /\ reply = <<>>
  BY DEF TypeOK, Takes, Ready
<1>2. /\ Tail(to_node) \in Seq(StationToNodeMsg) /\ Len(Tail(to_node)) = Len(to_node) - 1
      /\ Head(to_node) \in StationToNodeMsg
  BY <1>1, InTail
<1>3. Len(to_node) \in Nat /\ Capacity \in Nat
  BY <1>1, CapacityAssumption
<1>4. Len(to_node') <= Capacity
  BY <1>1, <1>2, <1>3
<1> QED
  BY <1>1, <1>2, <1>4, MessageFields

\* A message that is sent joins the channel, which does not grow over its capacity.
LEMMA SendType ==
  ASSUME NEW T, NEW channel \in Seq(T), NEW s \in Seq(T), s # <<>>, Len(s) <= 1, Room(channel)
  PROVE  channel \o s \in Seq(T) /\ Len(channel \o s) <= Capacity
<1>1. channel \o s = Append(channel, Head(s)) /\ Head(s) \in T
  BY InSingle
<1>2. Append(channel, Head(s)) \in Seq(T) /\ Len(Append(channel, Head(s))) = Len(channel) + 1
  BY <1>1, InAppend
<1>3. Len(channel) \in Nat /\ Capacity \in Nat /\ Len(channel) < Capacity
  BY CapacityAssumption DEF Room
<1> QED
  BY <1>1, <1>2, <1>3

-----------------------------------------------------------------------------
(* Types *)

\* EnterCharge keeps the types.
LEMMA EnterChargeType ==
  ASSUME TypeOK, NEW p \in Pumps, EnterCharge(p)
  PROVE  TypeOK'
<1>1. PICK id \in FreshIds :
        /\ requests' = [k \in DOMAIN requests \cup {id} |->
                          IF k = id THEN [pump |-> p, charge |-> entered'] ELSE requests[k]]
        /\ in_flight_by_pump' = [in_flight_by_pump EXCEPT ![p] = id]
        /\ command' = <<ChargeRequest(id, entered')>>
  BY DEF EnterCharge
<1>2. id \in StationIds
  BY DEF FreshIds
<1>3. entered' \in 0..MaxCharges /\ entered' \in Charges
  BY BoundsAssumption DEF EnterCharge, TypeOK, Charges
<1>4. command' \in Seq(StationToNodeMsg) /\ Len(command') <= 1
  BY <1>1, <1>2, <1>3, MessageTypes, InOne
<1>5. /\ DOMAIN requests' \subseteq StationIds
      /\ \A k \in DOMAIN requests' : requests'[k] \in [pump : Pumps, charge : Charges]
  BY <1>1, <1>2, <1>3 DEF TypeOK
<1>6. in_flight_by_pump' \in [Pumps -> StationIds \cup {Idle}]
  BY <1>1, <1>2 DEF TypeOK
<1> QED
  BY <1>3, <1>4, <1>5, <1>6 DEF TypeOK, EnterCharge, clientVars, clusterVars

\* EnterMode and SendCommand keep the types.
LEMMA CommandType ==
  ASSUME TypeOK, SendCommand \/ \E name \in {"DisconnectNode", "ConnectNode"} : EnterMode(name)
  PROVE  TypeOK'
<1>1. CASE SendCommand
  <2>1. to_node' \in Seq(StationToNodeMsg) /\ Len(to_node') <= Capacity
    BY <1>1, SendType DEF SendCommand, TypeOK
  <2> QED
    BY <1>1, <2>1 DEF TypeOK, SendCommand, clientVars, clusterVars, history
<1>2. ASSUME NEW name \in {"DisconnectNode", "ConnectNode"}, EnterMode(name) PROVE TypeOK'
  <2>1. command' \in Seq(StationToNodeMsg) /\ Len(command') <= 1
    BY <1>2, MessageTypes, InOne DEF EnterMode
  <2>2. commands' \in 0..MaxCommands
    BY <1>2, BoundsAssumption DEF EnterMode, TypeOK
  <2> QED
    BY <1>2, <2>1, <2>2 DEF TypeOK, EnterMode, clientVars, clusterVars
<1> QED
  BY <1>1, <1>2

\* HandleNodeEvent keeps the types.
LEMMA HandleNodeEventType ==
  ASSUME TypeOK, HandleNodeEvent
  PROVE  TypeOK'
<1> DEFINE m == Head(to_station)
<1>1. /\ to_station \in Seq(NodeToStationMsg) /\ Len(to_station) <= Capacity
      /\ to_station # <<>> /\ to_station' = Tail(to_station)
  BY DEF TypeOK, HandleNodeEvent
<1>2. /\ to_station' \in Seq(NodeToStationMsg) /\ Len(to_station') = Len(to_station) - 1
      /\ m \in NodeToStationMsg
  BY <1>1, InTail
<1>3. Len(to_station') <= Capacity
  <2>1. Len(to_station) \in Nat /\ Capacity \in Nat
    BY <1>1, CapacityAssumption
  <2> QED
    BY <1>1, <1>2, <2>1
<1>4. /\ in_flight_by_pump' \in [Pumps -> StationIds \cup {Idle}]
      /\ DOMAIN requests' \subseteq StationIds
      /\ \A id \in DOMAIN requests' : requests'[id] \in [pump : Pumps, charge : Charges]
      /\ results' \subseteq [charge : Charges, of : Charges, allowed : BOOLEAN]
  <2>1. CASE m.type = "ChargeResult" /\ m.request_id \in DOMAIN requests
    <3>1. /\ in_flight_by_pump' = [in_flight_by_pump EXCEPT ![requests[m.request_id].pump] = Idle]
          /\ results' = results \cup {[charge |-> requests[m.request_id].charge, of |-> m.of,
                                        allowed |-> m.allowed]}
          /\ requests' = [k \in DOMAIN requests \ {m.request_id} |-> requests[k]]
      BY <2>1 DEF HandleNodeEvent
    <3>2. m.of \in Charges /\ m.allowed \in BOOLEAN
      BY <1>2, <2>1, MessageFields
    <3>3. requests[m.request_id].charge \in Charges
      BY <2>1 DEF TypeOK
    <3>4. results' \subseteq [charge : Charges, of : Charges, allowed : BOOLEAN]
      BY <3>1, <3>2, <3>3 DEF TypeOK
    <3> QED
      BY <3>1, <3>4 DEF TypeOK
  <2>2. CASE ~(m.type = "ChargeResult" /\ m.request_id \in DOMAIN requests)
    <3>1. in_flight_by_pump' = in_flight_by_pump /\ results' = results /\ requests' = requests
      BY <2>2 DEF HandleNodeEvent
    <3> QED
      BY <3>1 DEF TypeOK
  <2> QED
    BY <2>1, <2>2
<1> QED
  BY <1>2, <1>3, <1>4 DEF TypeOK, HandleNodeEvent, clientVars, clusterVars

\* EnqueueOfflineCharge keeps the types.
LEMMA EnqueueOfflineChargeType ==
  ASSUME TypeOK, EnqueueOfflineCharge
  PROVE  TypeOK'
<1> DEFINE m == Head(to_node)
<1>1. /\ to_node' \in Seq(StationToNodeMsg) /\ Len(to_node') <= Capacity
      /\ m.request_id \in StationIds /\ m.charge \in Charges
  BY TakesType DEF EnqueueOfflineCharge
<1>2. /\ offline_queue' = Append(offline_queue, m.charge)
      /\ reply' = <<ChargeResult(m.request_id, TRUE, m.charge)>>
  BY DEF EnqueueOfflineCharge
<1> HIDE DEF m
<1>3. reply' \in Seq(NodeToStationMsg) /\ Len(reply') <= 1
  <2> DEFINE e == ChargeResult(m.request_id, TRUE, m.charge)
  <2>1. e \in NodeToStationMsg
    BY <1>1, MessageTypes
  <2>2. reply' = <<e>>
    BY <1>2
  <2> HIDE DEF e
  <2> QED
    BY <2>1, <2>2, InOne
<1>4. offline_queue' \in Seq(Charges)
  BY <1>1, <1>2, InAppend DEF TypeOK
<1> QED
  BY <1>1, <1>3, <1>4 DEF TypeOK, EnqueueOfflineCharge, stationVars, clusterVars, history

\* ForwardOnlineCharge keeps the types.
LEMMA ForwardOnlineChargeType ==
  ASSUME TypeOK, ForwardOnlineCharge
  PROVE  TypeOK'
<1> DEFINE m == Head(to_node)
<1>1. /\ to_node' \in Seq(StationToNodeMsg) /\ Len(to_node') <= Capacity
      /\ m.request_id \in StationIds /\ m.charge \in Charges
  BY TakesType DEF ForwardOnlineCharge
<1>2. /\ cluster_requests' = cluster_requests \cup
           {[req_id |-> m.request_id, charge |-> m.charge, offline |-> FALSE]}
      /\ active_online_requests' = active_online_requests \cup {m.request_id}
      /\ delivered' = [delivered EXCEPT ![m.charge] = @ + 1]
  BY DEF ForwardOnlineCharge, Tracked
<1> HIDE DEF m
<1>3. active_online_requests' \subseteq StationIds /\ delivered' \in [Charges -> Nat]
  BY <1>1, <1>2 DEF TypeOK
<1>4. cluster_requests' \subseteq [req_id : Nat, charge : Charges, offline : BOOLEAN]
  <2>1. m.request_id \in Nat
    BY <1>1, IdsAssumption
  <2>2. [req_id |-> m.request_id, charge |-> m.charge, offline |-> FALSE]
          \in [req_id : Nat, charge : Charges, offline : BOOLEAN]
    BY <1>1, <2>1
  <2>3. cluster_requests \subseteq [req_id : Nat, charge : Charges, offline : BOOLEAN]
    BY DEF TypeOK
  <2> QED
    BY <1>2, <2>2, <2>3
<1> QED
  BY <1>1, <1>3, <1>4 DEF TypeOK, ForwardOnlineCharge, stationVars

\* DisconnectNode and ConnectNode keep the types.
LEMMA ModeType ==
  ASSUME TypeOK, DisconnectNode \/ ConnectNode
  PROVE  TypeOK'
<1>1. to_node' \in Seq(StationToNodeMsg) /\ Len(to_node') <= Capacity
  BY TakesType DEF DisconnectNode, ConnectNode
<1>2. reply' = <<Debug>> /\ {online', flushing'} \subseteq BOOLEAN
  BY DEF DisconnectNode, ConnectNode, TypeOK
<1>3. reply' \in Seq(NodeToStationMsg) /\ Len(reply') <= 1
  BY <1>2, MessageTypes, InOne
<1> QED
  BY <1>1, <1>2, <1>3 DEF TypeOK, DisconnectNode, ConnectNode, stationVars, clusterVars, history

\* ReplayCharge keeps the types.
LEMMA ReplayChargeType ==
  ASSUME TypeOK, ReplayCharge
  PROVE  TypeOK'
<1> DEFINE q == Head(offline_queue)
<1>1. PICK tries \in 0..NumNodes :
        /\ still_pending' = Keep(q, tries)
        /\ next_replay_req_id' = next_replay_req_id + (IF tries = 0 THEN NumNodes ELSE tries)
        /\ cluster_requests' = cluster_requests \cup
             (IF tries = 0 THEN {}
              ELSE {[req_id |-> next_replay_req_id + tries - 1, charge |-> q, offline |-> TRUE]})
        /\ delivered' = [delivered EXCEPT ![q] = @ + (IF tries = 0 THEN 0 ELSE 1)]
  BY DEF ReplayCharge
<1>2. offline_queue \in Seq(Charges) /\ offline_queue # <<>> /\ offline_queue' = Tail(offline_queue)
  BY DEF TypeOK, ReplayCharge
<1>3. offline_queue' \in Seq(Charges) /\ q \in Charges
  BY <1>2, InTail
<1> HIDE DEF q
<1>4. still_pending' \in Seq(Charges)
  BY <1>1, <1>3, InAppend DEF TypeOK, Keep
<1>5. NumNodes \in Nat /\ next_replay_req_id \in Nat
  BY NumNodesAssumption DEF TypeOK
<1>6. next_replay_req_id' \in Nat /\ (tries # 0 => next_replay_req_id + tries - 1 \in Nat)
  BY <1>1, <1>5
<1>7. cluster_requests' \subseteq [req_id : Nat, charge : Charges, offline : BOOLEAN]
  <2>1. cluster_requests \subseteq [req_id : Nat, charge : Charges, offline : BOOLEAN]
    BY DEF TypeOK
  <2>2. CASE tries = 0
    BY <1>1, <2>1, <2>2
  <2>3. CASE tries # 0
    <3>1. [req_id |-> next_replay_req_id + tries - 1, charge |-> q, offline |-> TRUE]
            \in [req_id : Nat, charge : Charges, offline : BOOLEAN]
      BY <1>3, <1>6, <2>3
    <3>2. cluster_requests' = cluster_requests \cup
            {[req_id |-> next_replay_req_id + tries - 1, charge |-> q, offline |-> TRUE]}
      BY <1>1, <2>3
    <3> QED
      BY <2>1, <3>1, <3>2
  <2> QED
    BY <2>2, <2>3
<1>8. delivered' \in [Charges -> Nat]
  BY <1>1, <1>3 DEF TypeOK
<1> QED
  BY <1>3, <1>4, <1>6, <1>7, <1>8 DEF TypeOK, ReplayCharge, stationVars

\* HandleResponse and Answer keep the types.
LEMMA ResponseType ==
  ASSUME TypeOK, (\E m \in responses : HandleResponse(m)) \/ (\E m \in cluster_requests : Answer(m))
  PROVE  TypeOK'
<1>1. ASSUME NEW m \in responses, HandleResponse(m) PROVE TypeOK'
  <2>1. m.charge \in Charges /\ m.allowed \in BOOLEAN
    BY DEF TypeOK
  <2>2. reply' = IF m.req_id \in active_online_requests
                 THEN <<ChargeResult(m.req_id, m.allowed, m.charge)>> ELSE <<>>
    BY <1>1 DEF HandleResponse
  <2>3. reply' \in Seq(NodeToStationMsg) /\ Len(reply') <= 1
    <3>1. CASE m.req_id \in active_online_requests
      <4>1. m.req_id \in StationIds
        BY <3>1 DEF TypeOK
      <4> QED
        BY <2>1, <2>2, <3>1, <4>1, MessageTypes, InOne
    <3>2. CASE m.req_id \notin active_online_requests
      BY <2>2, <3>2
    <3> QED
      BY <3>1, <3>2
  <2> QED
    BY <1>1, <2>3 DEF TypeOK, HandleResponse, stationVars, history
<1>2. ASSUME NEW m \in cluster_requests, Answer(m) PROVE TypeOK'
  <2>1. PICK ok \in BOOLEAN : responses' = responses \cup
          {[req_id |-> m.req_id, charge |-> m.charge, allowed |-> ok]}
    BY <1>2 DEF Answer
  <2>2. m.req_id \in Nat /\ m.charge \in Charges
    BY DEF TypeOK
  <2>3. responses' \subseteq [req_id : Nat, charge : Charges, allowed : BOOLEAN]
    BY <2>1, <2>2 DEF TypeOK
  <2> QED
    BY <1>2, <2>3 DEF TypeOK, Answer, stationVars, clientVars, history
<1> QED
  BY <1>1, <1>2

\* Every step keeps the types.
LEMMA STypeStep ==
  ASSUME TypeOK, [Next]_vars
  PROVE  TypeOK'
<1>1. CASE SendReply
  <2>1. to_station' \in Seq(NodeToStationMsg) /\ Len(to_station') <= Capacity
    BY <1>1, SendType DEF SendReply, TypeOK
  <2> QED
    BY <1>1, <2>1 DEF TypeOK, SendReply, stationVars, clientVars, clusterVars, history
<1>2. CASE SendReplyFails
  BY <1>2 DEF TypeOK, SendReplyFails, stationVars, clusterVars, history
<1>3. CASE StationClosed \/ RoleQueryFails
  BY <1>3 DEF TypeOK, StationClosed, RoleQueryFails, Return, clusterVars, history
<1>4. CASE RestorePending
  BY <1>4 DEF TypeOK, RestorePending, stationVars, clusterVars, history
<1>5. CASE Quit
  BY <1>5 DEF TypeOK, Quit, clientVars, clusterVars, history
<1>6. CASE UNCHANGED vars
  BY <1>6 DEF TypeOK, vars, stationVars, clientVars, clusterVars, history
<1> QED
  BY <1>1, <1>2, <1>3, <1>4, <1>5, <1>6, EnterChargeType, CommandType, HandleNodeEventType,
     EnqueueOfflineChargeType, ForwardOnlineChargeType, ModeType, ReplayChargeType, ResponseType
     DEF Next, ClientStep

-----------------------------------------------------------------------------
(* The charges *)

\* Which messages ask for a charge, and which tell that it is accepted.
LEMMA AsksLemma ==
  ASSUME NEW q \in Charges
  PROVE  /\ \A m \in StationToNodeMsg : m \in Asks(q) <=> m.type = "ChargeRequest" /\ m.charge = q
         /\ \A id \in StationIds, c \in Charges : ChargeRequest(id, c) \in Asks(q) <=> c = q
         /\ \A name \in {"DisconnectNode", "ConnectNode"} : Mode(name) \notin Asks(q)
<1>1. \A m \in StationToNodeMsg : m \in Asks(q) <=> m.type = "ChargeRequest" /\ m.charge = q
  BY DEF Asks
<1>2. ASSUME NEW id \in StationIds, NEW c \in Charges
      PROVE  ChargeRequest(id, c) \in Asks(q) <=> c = q
  <2>1. ChargeRequest(id, c).type = "ChargeRequest" /\ ChargeRequest(id, c).charge = c
    BY DEF ChargeRequest
  <2> QED
    BY <1>1, <2>1, MessageTypes
<1>3. ASSUME NEW name \in {"DisconnectNode", "ConnectNode"} PROVE Mode(name) \notin Asks(q)
  <2>1. Mode(name).type = name
    BY DEF Mode
  <2> QED
    BY <2>1 DEF Asks
<1> QED
  BY <1>1, <1>2, <1>3

\* EnterCharge: the new charge is nowhere else.
LEMMA EnterChargeCharges ==
  ASSUME TypeOK, ChargeInv, NEW p \in Pumps, EnterCharge(p)
  PROVE  ChargeInv'
<1>1. PICK id \in FreshIds : command' = <<ChargeRequest(id, entered')>>
  BY DEF EnterCharge
<1>2. id \in StationIds
  BY DEF FreshIds
<1>3. entered' = entered + 1 /\ entered' \in Charges /\ entered \in Nat
  BY BoundsAssumption DEF EnterCharge, TypeOK, Charges
<1>4. ASSUME NEW q \in Charges PROVE In(command', Asks(q)) <=> q = entered'
  BY <1>1, <1>2, <1>3, MessageTypes, InOne, AsksLemma
<1>5. /\ to_node' = to_node /\ still_pending' = still_pending /\ offline_queue' = offline_queue
      /\ delivered' = delivered /\ flushing' = flushing /\ command = <<>>
  BY DEF EnterCharge, clientVars
<1>6. \A q \in Charges : q \in Nat
  BY DEF Charges
<1>7. entered' > entered /\ \A q \in Charges : q > entered' => q > entered /\ q # entered'
  BY <1>3, <1>6
<1> QED
  BY <1>3, <1>4, <1>5, <1>7 DEF ChargeInv

\* EnterMode and SendCommand: the charge goes with its message.
LEMMA CommandCharges ==
  ASSUME TypeOK, ChargeInv,
         SendCommand \/ \E name \in {"DisconnectNode", "ConnectNode"} : EnterMode(name)
  PROVE  ChargeInv'
<1>1. CASE SendCommand
  <2>1. /\ to_node' = to_node \o command /\ command' = <<>> /\ command # <<>>
        /\ still_pending' = still_pending /\ offline_queue' = offline_queue
        /\ delivered' = delivered /\ flushing' = flushing /\ entered' = entered
    BY <1>1 DEF SendCommand, clientVars, history
  <2>2. /\ to_node \in Seq(StationToNodeMsg) /\ command \in Seq(StationToNodeMsg)
        /\ Len(command) <= 1
    BY DEF TypeOK
  <2>3. /\ to_node' = Append(to_node, Head(command)) /\ Head(command) \in StationToNodeMsg
        /\ \A M : In(command, M) <=> Head(command) \in M
    BY <2>1, <2>2, InSingle
  <2>4. /\ \A M : In(to_node', M) <=> In(to_node, M) \/ In(command, M)
        /\ \A M : AtMostOne(to_node, M) /\ ~(In(command, M) /\ In(to_node, M)) =>
             AtMostOne(to_node', M)
    BY <2>2, <2>3, InAppend
  <2>5. \A M : ~In(command', M)
    BY <2>1, InNone
  <2> QED
    BY <2>1, <2>4, <2>5 DEF ChargeInv
<1>2. ASSUME NEW name \in {"DisconnectNode", "ConnectNode"}, EnterMode(name) PROVE ChargeInv'
  <2>1. /\ command' = <<Mode(name)>>
        /\ still_pending' = still_pending /\ offline_queue' = offline_queue
        /\ delivered' = delivered /\ flushing' = flushing /\ entered' = entered
        /\ to_node' = to_node
    BY <1>2 DEF EnterMode, clientVars
  <2>2. \A q \in Charges : ~In(command', Asks(q))
    BY <2>1, MessageTypes, InOne, AsksLemma
  <2> QED
    BY <2>1, <2>2 DEF ChargeInv
<1> QED
  BY <1>1, <1>2

\* The client takes the next message of the station: a charge is no longer in the
\* channel, and was in no queue.
LEMMA TakesCharges ==
  ASSUME TypeOK, ChargeInv, NEW type, Takes(type)
  PROVE  /\ \A q \in Charges :
              /\ AtMostOne(to_node', Asks(q))
              /\ In(to_node', Asks(q)) <=>
                   In(to_node, Asks(q)) /\ ~(type = "ChargeRequest" /\ Head(to_node).charge = q)
         /\ type = "ChargeRequest" =>
              LET q == Head(to_node).charge
              IN  /\ q \in Charges /\ In(to_node, Asks(q)) /\ ~In(command, Asks(q))
                  /\ ~In(still_pending, {q}) /\ ~In(offline_queue, {q}) /\ delivered[q] = 0
<1>1. /\ to_node \in Seq(StationToNodeMsg) /\ to_node # <<>> /\ to_node' = Tail(to_node)
      /\ Head(to_node) \in StationToNodeMsg /\ Head(to_node).type = type
      /\ type = "ChargeRequest" => Head(to_node).charge \in Charges
  BY TakesType
<1>2. /\ \A M : In(to_node, M) <=> Head(to_node) \in M \/ In(to_node', M)
      /\ \A M : AtMostOne(to_node, M) =>
           AtMostOne(to_node', M) /\ ~(Head(to_node) \in M /\ In(to_node', M))
  BY <1>1, InTail
<1>3. \A q \in Charges :
        Head(to_node) \in Asks(q) <=> type = "ChargeRequest" /\ Head(to_node).charge = q
  BY <1>1, AsksLemma
<1> QED
  BY <1>1, <1>2, <1>3 DEF ChargeInv

\* EnqueueOfflineCharge and ForwardOnlineCharge: the charge goes from the channel to
\* the queue or to the cluster.
LEMMA TakenCharges ==
  ASSUME TypeOK, ChargeInv, EnqueueOfflineCharge \/ ForwardOnlineCharge
  PROVE  ChargeInv'
<1> DEFINE c == Head(to_node).charge
<1>1. /\ \A q \in Charges :
           /\ AtMostOne(to_node', Asks(q))
           /\ In(to_node', Asks(q)) <=> In(to_node, Asks(q)) /\ c # q
      /\ c \in Charges /\ In(to_node, Asks(c)) /\ ~In(command, Asks(c))
      /\ ~In(still_pending, {c}) /\ ~In(offline_queue, {c}) /\ delivered[c] = 0
  BY TakesCharges DEF EnqueueOfflineCharge, ForwardOnlineCharge
<1>2. /\ command' = command /\ still_pending' = still_pending
      /\ flushing' = flushing /\ entered' = entered
  BY DEF EnqueueOfflineCharge, ForwardOnlineCharge, stationVars, history
<1>3. ~(c > entered)
  BY <1>1 DEF ChargeInv
<1>4. CASE EnqueueOfflineCharge
  <2>1. offline_queue' = Append(offline_queue, c) /\ delivered' = delivered
    BY <1>4 DEF EnqueueOfflineCharge, history
  <2>2. offline_queue \in Seq(Charges)
    BY DEF TypeOK
  <2> HIDE DEF c
  <2>3. /\ \A q : In(offline_queue', {q}) <=> In(offline_queue, {q}) \/ c = q
        /\ \A q : AtMostOne(offline_queue, {q}) /\ ~(c = q /\ In(offline_queue, {q})) =>
             AtMostOne(offline_queue', {q})
    BY <1>1, <2>1, <2>2, InAppend
  <2> QED
    BY <1>1, <1>2, <1>3, <2>1, <2>3 DEF ChargeInv
<1>5. CASE ForwardOnlineCharge
  <2>1. offline_queue' = offline_queue /\ delivered' = [delivered EXCEPT ![c] = @ + 1]
    BY <1>5 DEF ForwardOnlineCharge
  <2>2. delivered \in [Charges -> Nat]
    BY DEF TypeOK
  <2> HIDE DEF c
  <2>3. delivered'[c] = 1 /\ \A q \in Charges \ {c} : delivered'[q] = delivered[q]
    BY <1>1, <2>1, <2>2
  <2> QED
    BY <1>1, <1>2, <1>3, <2>1, <2>3 DEF ChargeInv
<1> QED
  BY <1>4, <1>5

\* DisconnectNode and ConnectNode: no charge moves.
LEMMA ModeCharges ==
  ASSUME TypeOK, ChargeInv, DisconnectNode \/ ConnectNode
  PROVE  ChargeInv'
<1>1. /\ \A q \in Charges :
           /\ AtMostOne(to_node', Asks(q))
           /\ In(to_node', Asks(q)) <=> In(to_node, Asks(q))
      /\ ~flushing
  BY TakesCharges DEF DisconnectNode, ConnectNode, Takes, Ready
<1>2. /\ command' = command /\ still_pending' = still_pending /\ offline_queue' = offline_queue
      /\ entered' = entered /\ delivered' = delivered
  BY DEF DisconnectNode, ConnectNode, stationVars, history
<1> QED
  BY <1>1, <1>2 DEF ChargeInv

\* ReplayCharge: the charge goes to the cluster, or to those that are still pending.
LEMMA ReplayCharges ==
  ASSUME TypeOK, ChargeInv, ReplayCharge
  PROVE  ChargeInv' /\ \A q \in Charges : Known(q) => Known(q)'
<1> DEFINE c == Head(offline_queue)
<1>1. PICK tries \in 0..NumNodes :
        /\ still_pending' = Keep(c, tries)
        /\ delivered' = [delivered EXCEPT ![c] = @ + (IF tries = 0 THEN 0 ELSE 1)]
  BY DEF ReplayCharge
<1>2. /\ offline_queue \in Seq(Charges) /\ offline_queue # <<>> /\ offline_queue' = Tail(offline_queue)
      /\ still_pending \in Seq(Charges) /\ delivered \in [Charges -> Nat]
  BY DEF TypeOK, ReplayCharge
<1>3. c \in Charges
  BY <1>2, InTail
<1>4. /\ \A q : In(offline_queue, {q}) <=> c = q \/ In(offline_queue', {q})
      /\ \A q : AtMostOne(offline_queue, {q}) =>
           AtMostOne(offline_queue', {q}) /\ ~(c = q /\ In(offline_queue', {q}))
  BY <1>2, InTail
<1>5. /\ command' = command /\ to_node' = to_node /\ flushing' = flushing /\ flushing
      /\ entered' = entered
  BY DEF ReplayCharge, Flushing, stationVars
<1> HIDE DEF c
<1>6. /\ ~In(command, Asks(c)) /\ ~In(to_node, Asks(c)) /\ ~In(still_pending, {c})
      /\ delivered[c] = 0 /\ ~(c > entered) /\ ~In(offline_queue', {c})
  BY <1>3, <1>4 DEF ChargeInv
<1>7. CASE tries = 0
  <2>1. still_pending' = Append(still_pending, c)
    BY <1>1, <1>7 DEF Keep
  <2>2. \A q \in Charges : delivered'[q] = delivered[q]
    BY <1>1, <1>2, <1>3, <1>7
  <2>3. /\ \A q : In(still_pending', {q}) <=> In(still_pending, {q}) \/ c = q
        /\ \A q : AtMostOne(still_pending, {q}) /\ ~(c = q /\ In(still_pending, {q})) =>
             AtMostOne(still_pending', {q})
    BY <1>2, <1>3, <2>1, InAppend
  <2>4. ChargeInv'
    BY <1>4, <1>5, <1>6, <2>2, <2>3 DEF ChargeInv
  <2>5. \A q \in Charges : Known(q) => Known(q)'
    BY <1>4, <2>2, <2>3 DEF Known
  <2> QED
    BY <2>4, <2>5
<1>8. CASE tries # 0
  <2>1. still_pending' = still_pending
    BY <1>1, <1>8 DEF Keep
  <2>2. delivered'[c] = 1 /\ \A q \in Charges \ {c} : delivered'[q] = delivered[q]
    BY <1>1, <1>2, <1>3, <1>6, <1>8
  <2>3. ChargeInv'
    <3>1. ~flushing' => still_pending' = <<>>
      BY <1>5
    <3> SUFFICES ASSUME NEW q \in Charges
                 PROVE  /\ AtMostOne(to_node', Asks(q))
                        /\ AtMostOne(still_pending', {q}) /\ AtMostOne(offline_queue', {q})
                        /\ delivered'[q] <= 1
                        /\ In(command', Asks(q)) => ~In(to_node', Asks(q))
                        /\ In(command', Asks(q)) \/ In(to_node', Asks(q)) =>
                             /\ ~In(still_pending', {q}) /\ ~In(offline_queue', {q})
                             /\ delivered'[q] = 0
                        /\ In(still_pending', {q}) =>
                             ~In(offline_queue', {q}) /\ delivered'[q] = 0
                        /\ In(offline_queue', {q}) => delivered'[q] = 0
                        /\ q > entered' =>
                             /\ ~In(command', Asks(q)) /\ ~In(to_node', Asks(q))
                             /\ ~In(still_pending', {q}) /\ ~In(offline_queue', {q})
                             /\ delivered'[q] = 0
      BY <3>1 DEF ChargeInv
    <3>2. CASE q = c
      BY <1>4, <1>5, <1>6, <2>1, <2>2, <3>2 DEF ChargeInv
    <3>3. CASE q # c
      <4>1. delivered'[q] = delivered[q]
        BY <2>2, <3>3
      <4> QED
        BY <1>4, <1>5, <2>1, <3>3, <4>1 DEF ChargeInv
    <3> QED
      BY <3>2, <3>3
  <2>4. \A q \in Charges : Known(q) => Known(q)'
    BY <1>4, <2>1, <2>2 DEF Known
  <2> QED
    BY <2>3, <2>4
<1> QED
  BY <1>7, <1>8

\* RestorePending: the charges that are still pending are the queue.
LEMMA RestoreCharges ==
  ASSUME TypeOK, ChargeInv, RestorePending
  PROVE  ChargeInv' /\ \A q \in Charges : Known(q) => Known(q)'
<1>1. /\ offline_queue = <<>> /\ offline_queue' = still_pending /\ still_pending' = <<>>
      /\ command' = command /\ to_node' = to_node /\ entered' = entered /\ delivered' = delivered
  BY DEF RestorePending, stationVars, history
<1>2. \A M : ~In(offline_queue, M) /\ ~In(still_pending', M) /\ AtMostOne(still_pending', M)
  BY <1>1, InNone
<1>3. ChargeInv'
  BY <1>1, <1>2 DEF ChargeInv
<1>4. \A q \in Charges : Known(q) => Known(q)'
  BY <1>1, <1>2 DEF Known
<1> QED
  BY <1>3, <1>4

\* Which messages tell that a charge is accepted.
LEMMA AcceptsLemma ==
  ASSUME NEW q \in Charges
  PROVE  /\ \A m \in NodeToStationMsg :
              m \in Accepts(q) <=> m.type = "ChargeResult" /\ m.allowed /\ m.of = q
         /\ \A id \in StationIds, ok \in BOOLEAN, c \in Charges :
              ChargeResult(id, ok, c) \in Accepts(q) <=> ok /\ c = q
         /\ Debug \notin Accepts(q)
<1>1. \A m \in NodeToStationMsg :
        m \in Accepts(q) <=> m.type = "ChargeResult" /\ m.allowed /\ m.of = q
  BY DEF Accepts
<1>2. ASSUME NEW id \in StationIds, NEW ok \in BOOLEAN, NEW c \in Charges
      PROVE  ChargeResult(id, ok, c) \in Accepts(q) <=> ok /\ c = q
  <2>1. /\ ChargeResult(id, ok, c).type = "ChargeResult" /\ ChargeResult(id, ok, c).of = c
        /\ ChargeResult(id, ok, c).allowed = ok
    BY DEF ChargeResult
  <2>2. ChargeResult(id, ok, c) \in NodeToStationMsg
    BY MessageTypes
  <2> QED
    BY <1>1, <2>1, <2>2
<1>3. Debug \notin Accepts(q)
  <2>1. Debug.type = "Debug"
    BY DEF Debug
  <2> QED
    BY <2>1 DEF Accepts
<1> QED
  BY <1>1, <1>2, <1>3

\* A charge that is known stays known.
LEMMA KnownStep ==
  ASSUME TypeOK, ChargeInv, [Next]_vars
  PROVE  /\ \A q \in Charges : delivered[q] > 0 => delivered'[q] > 0
         /\ \A q \in Charges : Known(q) => Known(q)'
<1>1. CASE EnqueueOfflineCharge
  <2>1. Head(to_node).charge \in Charges
    BY <1>1, TakesType DEF EnqueueOfflineCharge
  <2>2. /\ offline_queue' = Append(offline_queue, Head(to_node).charge)
        /\ delivered' = delivered /\ still_pending' = still_pending
    BY <1>1 DEF EnqueueOfflineCharge, history
  <2>3. \A M : In(offline_queue, M) => In(offline_queue', M)
    BY <2>1, <2>2, InAppend DEF TypeOK
  <2> QED
    BY <2>2, <2>3 DEF Known
<1>2. CASE ForwardOnlineCharge
  <2>1. Head(to_node).charge \in Charges /\ delivered \in [Charges -> Nat]
    BY <1>2, TakesType DEF ForwardOnlineCharge, TypeOK
  <2>2. /\ delivered' = [delivered EXCEPT ![Head(to_node).charge] = @ + 1]
        /\ offline_queue' = offline_queue /\ still_pending' = still_pending
    BY <1>2 DEF ForwardOnlineCharge
  <2>3. \A q \in Charges : delivered[q] > 0 => delivered'[q] > 0
    BY <2>1, <2>2
  <2> QED
    BY <2>2, <2>3 DEF Known
<1>3. CASE ReplayCharge
  <2>1. PICK tries \in 0..NumNodes :
          delivered' = [delivered EXCEPT ![Head(offline_queue)] = @ + (IF tries = 0 THEN 0 ELSE 1)]
    BY <1>3 DEF ReplayCharge
  <2>2. delivered \in [Charges -> Nat]
    BY DEF TypeOK
  <2>3. \A q \in Charges : delivered[q] > 0 => delivered'[q] > 0
    BY <2>1, <2>2
  <2> QED
    BY <1>3, <2>3, ReplayCharges
<1>4. CASE RestorePending
  BY <1>4, RestoreCharges DEF RestorePending, history
<1>5. CASE UNCHANGED <<delivered, still_pending, offline_queue>>
  BY <1>5 DEF Known
<1> QED
  BY <1>1, <1>2, <1>3, <1>4, <1>5
     DEF Next, ClientStep, vars, stationVars, clientVars, clusterVars, history, EnterCharge,
         EnterMode, SendCommand, HandleNodeEvent, Quit, DisconnectNode, ConnectNode,
         HandleResponse, SendReply, SendReplyFails, StationClosed, RoleQueryFails, Return, Answer

\* What the client sends and the station hears is about charges that are known:
\* the steps of the client and of the cluster.
LEMMA AcceptedStep ==
  ASSUME TypeOK, ChargeInv, AcceptedInv, [Next]_vars
  PROVE  AcceptedInv'
<1>1. /\ \A q \in Charges : delivered[q] > 0 => delivered'[q] > 0
      /\ \A q \in Charges : Known(q) => Known(q)'
  BY KnownStep
<1>2. /\ \A m \in cluster_requests \cup responses : m.charge \in Charges
      /\ \A m \in results : m.of \in Charges
      /\ reply \in Seq(NodeToStationMsg) /\ Len(reply) <= 1 /\ to_station \in Seq(NodeToStationMsg)
  BY DEF TypeOK
\* It suffices that what is new is about charges that are known.
<1>3. ASSUME /\ \A m \in cluster_requests' \cup responses' :
                  m \in cluster_requests \cup responses \/ delivered'[m.charge] > 0
             /\ \A q \in Charges : In(reply', Accepts(q)) \/ In(to_station', Accepts(q)) =>
                  In(reply, Accepts(q)) \/ In(to_station, Accepts(q)) \/ Known(q)'
             /\ \A m \in results' : m \in results \/ (m.allowed => Known(m.of)')
      PROVE  AcceptedInv'
  <2>1. \A m \in cluster_requests' \cup responses' : delivered'[m.charge] > 0
    BY <1>1, <1>2, <1>3 DEF AcceptedInv
  <2>2. \A q \in Charges : In(reply', Accepts(q)) \/ In(to_station', Accepts(q)) => Known(q)'
    BY <1>1, <1>3 DEF AcceptedInv
  <2>3. \A m \in results' : m.allowed => Known(m.of)'
    BY <1>1, <1>2, <1>3 DEF AcceptedInv
  <2> QED
    BY <2>1, <2>2, <2>3 DEF AcceptedInv
<1>4. CASE HandleNodeEvent
  <2> DEFINE m == Head(to_station)
  <2>1. /\ to_station # <<>> /\ to_station' = Tail(to_station) /\ reply' = reply
        /\ cluster_requests' = cluster_requests /\ responses' = responses
        /\ \A r \in results' : r \in results \/
             /\ m.type = "ChargeResult"
             /\ r = [charge |-> requests[m.request_id].charge, of |-> m.of, allowed |-> m.allowed]
    BY <1>4 DEF HandleNodeEvent, clusterVars
  <2>2. /\ m \in NodeToStationMsg
        /\ \A M : In(to_station, M) <=> m \in M \/ In(to_station', M)
    BY <1>2, <2>1, InTail
  <2>3. m.type = "ChargeResult" /\ m.allowed => m.of \in Charges /\ Known(m.of)
    <3> SUFFICES ASSUME m.type = "ChargeResult", m.allowed PROVE m.of \in Charges /\ Known(m.of)
      OBVIOUS
    <3>1. m.of \in Charges
      BY <2>2, MessageFields
    <3>2. m \in Accepts(m.of)
      BY <2>2, <3>1, AcceptsLemma
    <3> QED
      BY <2>2, <3>1, <3>2 DEF AcceptedInv
  <2>4. \A r \in results' : r \in results \/ (r.allowed => Known(r.of)')
    BY <1>1, <2>1, <2>3
  <2> QED
    BY <1>3, <2>1, <2>2, <2>4
<1>5. CASE EnqueueOfflineCharge
  <2> DEFINE m == Head(to_node)
             e == ChargeResult(m.request_id, TRUE, m.charge)
  <2>1. m.request_id \in StationIds /\ m.charge \in Charges
    BY <1>5, TakesType DEF EnqueueOfflineCharge
  <2>2. /\ offline_queue' = Append(offline_queue, m.charge) /\ reply' = <<e>>
        /\ cluster_requests' = cluster_requests /\ responses' = responses
        /\ results' = results /\ to_station' = to_station
    BY <1>5 DEF EnqueueOfflineCharge, clusterVars, history
  <2>3. e \in NodeToStationMsg /\ \A q \in Charges : e \in Accepts(q) <=> m.charge = q
    BY <2>1, MessageTypes, AcceptsLemma
  <2> HIDE DEF e, m
  <2>4. \A q \in Charges : In(reply', Accepts(q)) <=> m.charge = q
    BY <2>2, <2>3, InOne
  <2>5. In(offline_queue', {m.charge})
    <3>1. offline_queue \in Seq(Charges)
      BY DEF TypeOK
    <3> QED
      BY <2>1, <2>2, <3>1, InAppend
  <2>6. \A q \in Charges : In(reply', Accepts(q)) => Known(q)'
    BY <2>4, <2>5 DEF Known
  <2> QED
    BY <1>3, <2>2, <2>6
<1>6. CASE ForwardOnlineCharge
  <2> DEFINE m == Head(to_node)
  <2>1. m.charge \in Charges /\ delivered \in [Charges -> Nat]
    BY <1>6, TakesType DEF ForwardOnlineCharge, TypeOK
  <2>2. /\ cluster_requests' = cluster_requests \cup
             {[req_id |-> m.request_id, charge |-> m.charge, offline |-> FALSE]}
        /\ delivered' = [delivered EXCEPT ![m.charge] = @ + 1]
        /\ reply' = reply /\ to_station' = to_station /\ responses' = responses /\ results' = results
    BY <1>6 DEF ForwardOnlineCharge
  <2>3. delivered'[m.charge] > 0
    BY <2>1, <2>2
  <2> QED
    BY <1>3, <2>2, <2>3
<1>7. CASE DisconnectNode \/ ConnectNode
  <2>1. /\ reply' = <<Debug>> /\ to_station' = to_station /\ results' = results
        /\ cluster_requests' = cluster_requests /\ responses' = responses
    BY <1>7 DEF DisconnectNode, ConnectNode, clusterVars, history
  <2>2. \A q \in Charges : ~In(reply', Accepts(q))
    BY <2>1, MessageTypes, AcceptsLemma, InOne
  <2> QED
    BY <1>3, <2>1, <2>2
<1>8. CASE ReplayCharge
  <2> DEFINE c == Head(offline_queue)
  <2>1. PICK tries \in 0..NumNodes :
          /\ cluster_requests' = cluster_requests \cup
               (IF tries = 0 THEN {}
                ELSE {[req_id |-> next_replay_req_id + tries - 1, charge |-> c, offline |-> TRUE]})
          /\ delivered' = [delivered EXCEPT ![c] = @ + (IF tries = 0 THEN 0 ELSE 1)]
    BY <1>8 DEF ReplayCharge
  <2>2. c \in Charges /\ delivered \in [Charges -> Nat]
    BY <1>8, InTail DEF ReplayCharge, TypeOK
  <2>3. reply' = reply /\ to_station' = to_station /\ responses' = responses /\ results' = results
    BY <1>8 DEF ReplayCharge
  <2>4. tries # 0 => delivered'[c] > 0
    BY <2>1, <2>2
  <2>5. \A m \in cluster_requests' : m \in cluster_requests \/ (tries # 0 /\ m.charge = c)
    BY <2>1
  <2> HIDE DEF c
  <2> QED
    BY <1>3, <2>3, <2>4, <2>5
<1>9. ASSUME NEW m \in responses, HandleResponse(m) PROVE AcceptedInv'
  <2>1. m.charge \in Charges /\ m.allowed \in BOOLEAN /\ delivered[m.charge] > 0
    BY DEF TypeOK, AcceptedInv
  <2>2. /\ responses' \subseteq responses /\ cluster_requests' = cluster_requests
        /\ reply' = IF m.req_id \in active_online_requests
                    THEN <<ChargeResult(m.req_id, m.allowed, m.charge)>> ELSE <<>>
        /\ to_station' = to_station /\ results' = results
    BY <1>9 DEF HandleResponse, history
  <2>3. \A q \in Charges : In(reply', Accepts(q)) => m.charge = q
    <3>1. CASE m.req_id \in active_online_requests
      <4>1. m.req_id \in StationIds
        BY <3>1 DEF TypeOK
      <4>2. reply' = <<ChargeResult(m.req_id, m.allowed, m.charge)>>
        BY <2>2, <3>1
      <4> QED
        BY <2>1, <4>1, <4>2, MessageTypes, AcceptsLemma, InOne
    <3>2. CASE m.req_id \notin active_online_requests
      BY <2>2, <3>2, InNone
    <3> QED
      BY <3>1, <3>2
  <2>4. Known(m.charge)'
    BY <1>1, <2>1 DEF Known
  <2> QED
    BY <1>3, <2>2, <2>3, <2>4
<1>10. ASSUME NEW m \in cluster_requests, Answer(m) PROVE AcceptedInv'
  <2>1. PICK ok \in BOOLEAN : responses' = responses \cup
          {[req_id |-> m.req_id, charge |-> m.charge, allowed |-> ok]}
    BY <1>10 DEF Answer
  <2>2. /\ cluster_requests' \subseteq cluster_requests
        /\ reply' = reply /\ to_station' = to_station /\ results' = results
    BY <1>10 DEF Answer, history
  <2>3. delivered'[m.charge] > 0
    BY <1>1, <1>2 DEF AcceptedInv
  <2> QED
    BY <1>3, <2>1, <2>2, <2>3
<1>11. CASE SendReply
  <2>1. /\ reply # <<>> /\ to_station' = to_station \o reply /\ reply' = <<>>
        /\ cluster_requests' = cluster_requests /\ responses' = responses /\ results' = results
    BY <1>11 DEF SendReply, clusterVars, history
  <2>2. /\ to_station' = Append(to_station, Head(reply)) /\ Head(reply) \in NodeToStationMsg
        /\ \A M : In(reply, M) <=> Head(reply) \in M
    BY <1>2, <2>1, InSingle
  <2>3. \A M : In(to_station', M) <=> In(to_station, M) \/ In(reply, M)
    BY <1>2, <2>2, InAppend
  <2>4. \A M : ~In(reply', M)
    BY <2>1, InNone
  <2> QED
    BY <1>3, <2>1, <2>3, <2>4
<1>12. CASE SendReplyFails
  <2>1. /\ reply' = <<>> /\ to_station' = to_station
        /\ cluster_requests' = cluster_requests /\ responses' = responses /\ results' = results
    BY <1>12 DEF SendReplyFails, clusterVars, history
  <2>2. \A M : ~In(reply', M)
    BY <2>1, InNone
  <2> QED
    BY <1>3, <2>1, <2>2
<1>13. CASE UNCHANGED <<cluster_requests, responses, reply, to_station, results>>
  BY <1>3, <1>13
<1> QED
  BY <1>4, <1>5, <1>6, <1>7, <1>8, <1>9, <1>10, <1>11, <1>12, <1>13
     DEF Next, ClientStep, vars, stationVars, clientVars, clusterVars, history, EnterCharge,
         EnterMode, SendCommand, Quit, RestorePending, StationClosed, RoleQueryFails, Return

\* Every step keeps the invariant of the charges.
LEMMA QueueStep ==
  ASSUME QueueInv, [Next]_vars
  PROVE  QueueInv'
<1>1. TypeOK /\ ChargeInv /\ AcceptedInv
  BY DEF QueueInv
<1>2. ChargeInv'
  <2>1. CASE UNCHANGED <<command, to_node, still_pending, offline_queue, delivered, flushing, entered>>
    BY <1>1, <2>1 DEF ChargeInv
  <2> QED
    BY <1>1, <2>1, EnterChargeCharges, CommandCharges, TakenCharges, ModeCharges, ReplayCharges,
       RestoreCharges
       DEF Next, ClientStep, vars, stationVars, clientVars, clusterVars, history,
           HandleNodeEvent, Quit, HandleResponse, SendReply, SendReplyFails, StationClosed,
           RoleQueryFails, Return, Answer
<1> QED
  BY <1>1, <1>2, STypeStep, AcceptedStep DEF QueueInv

\* The two parts of the queue, as one sequence.
LEMMA QueuedLemma ==
  ASSUME TypeOK
  PROVE  /\ \A q : q \in Range(Queued) <=> In(still_pending, {q}) \/ In(offline_queue, {q})
         /\ (\A q \in Charges : /\ AtMostOne(still_pending, {q}) /\ AtMostOne(offline_queue, {q})
                               /\ ~(In(still_pending, {q}) /\ In(offline_queue, {q})))
              => IsInjective(Queued)
<1> DEFINE s == still_pending
           t == offline_queue
           u == s \o t
<1>1. s \in Seq(Charges) /\ t \in Seq(Charges)
  BY DEF TypeOK
<1>2. /\ u \in Seq(Charges) /\ DOMAIN u = 1..(Len(s) + Len(t))
      /\ DOMAIN s = 1..Len(s) /\ DOMAIN t = 1..Len(t) /\ Len(s) \in Nat /\ Len(t) \in Nat
      /\ \A i \in 1..(Len(s) + Len(t)) : u[i] = IF i <= Len(s) THEN s[i] ELSE t[i - Len(s)]
      /\ \A i \in DOMAIN s : s[i] \in Charges
      /\ \A i \in DOMAIN t : t[i] \in Charges
  BY <1>1
<1>3. Queued = u
  BY DEF Queued
<1> HIDE DEF s, t, u
<1>4. /\ \A i \in DOMAIN s : i \in DOMAIN u /\ u[i] = s[i]
      /\ \A i \in DOMAIN t : i + Len(s) \in DOMAIN u /\ u[i + Len(s)] = t[i]
      /\ \A i \in DOMAIN u : \/ i \in DOMAIN s /\ u[i] = s[i]
                             \/ i - Len(s) \in DOMAIN t /\ u[i] = t[i - Len(s)]
  BY <1>2
<1>5. \A q : q \in Range(u) <=> In(s, {q}) \/ In(t, {q})
  BY <1>4 DEF Range, In
<1>6. ASSUME \A q \in Charges : /\ AtMostOne(s, {q}) /\ AtMostOne(t, {q})
                               /\ ~(In(s, {q}) /\ In(t, {q}))
      PROVE  IsInjective(u)
  <2> SUFFICES ASSUME NEW i \in DOMAIN u, NEW j \in DOMAIN u, u[i] = u[j] PROVE i = j
    BY DEF IsInjective
  <2>1. CASE i \in DOMAIN s /\ j \in DOMAIN s
    BY <1>2, <1>4, <1>6, <2>1 DEF AtMostOne
  <2>2. CASE i \notin DOMAIN s /\ j \notin DOMAIN s
    <3>1. /\ i - Len(s) \in DOMAIN t /\ u[i] = t[i - Len(s)]
          /\ j - Len(s) \in DOMAIN t /\ u[j] = t[j - Len(s)]
      BY <1>4, <2>2
    <3>2. i - Len(s) = j - Len(s)
      BY <1>2, <1>6, <3>1 DEF AtMostOne
    <3> QED
      BY <1>2, <3>2
  <2>3. CASE i \in DOMAIN s /\ j \notin DOMAIN s
    <3>1. j - Len(s) \in DOMAIN t /\ t[j - Len(s)] = s[i] /\ s[i] = u[i]
      BY <1>4, <2>3
    <3> QED
      BY <1>2, <1>6, <2>3, <3>1 DEF In
  <2>4. CASE i \notin DOMAIN s /\ j \in DOMAIN s
    <3>1. i - Len(s) \in DOMAIN t /\ t[i - Len(s)] = s[j]
      BY <1>4, <2>4
    <3>2. s[j] \in Charges /\ In(s, {s[j]}) /\ In(t, {s[j]})
      BY <1>2, <2>4, <3>1 DEF In
    <3> QED
      BY <1>6, <3>2
  <2> QED
    BY <2>1, <2>2, <2>3, <2>4
<1> QED
  BY <1>3, <1>5, <1>6 DEF s, t

\* The charges are in order at first.
LEMMA QueueInit ==
  ASSUME Init
  PROVE  QueueInv
<1>1. \A M : /\ ~In(<<>>, M) /\ AtMostOne(<<>>, M)
  BY InNone
<1>2. TypeOK
  <2>1. /\ in_flight_by_pump \in [Pumps -> StationIds \cup {Idle}]
        /\ DOMAIN requests = {}
        /\ delivered \in [Charges -> Nat]
    BY DEF Init
  <2>2. /\ command = <<>> /\ reply = <<>> /\ to_node = <<>> /\ to_station = <<>>
        /\ offline_queue = <<>> /\ still_pending = <<>>
        /\ entered = 0 /\ commands = 0 /\ next_replay_req_id = FirstReplayId
        /\ active_online_requests = {} /\ cluster_requests = {} /\ responses = {} /\ results = {}
        /\ {online, stopped, flushing, ended} \subseteq BOOLEAN
    BY DEF Init
  <2>3. /\ entered \in 0..MaxCharges /\ commands \in 0..MaxCommands
        /\ next_replay_req_id \in Nat /\ 0 <= Capacity
    BY <2>2, IdsAssumption, BoundsAssumption, CapacityAssumption
  <2> QED
    BY <2>1, <2>2, <2>3 DEF TypeOK
<1>3. ChargeInv
  BY <1>1 DEF Init, ChargeInv
<1>4. AcceptedInv
  BY <1>1 DEF Init, AcceptedInv
<1> QED
  BY <1>2, <1>3, <1>4 DEF QueueInv

\* The invariant of the charges holds in every state, whatever ids are drawn.
THEOREM QueueInvariance == Spec => []QueueInv
<1>1. Init => QueueInv
  BY QueueInit
<1>2. QueueInv /\ [Next]_vars => QueueInv'
  BY QueueStep
<1> QED
  BY <1>1, <1>2, PTL DEF Spec

\* The state of the station and of the client keeps its type; no channel exceeds its
\* capacity.
THEOREM STypeCorrect == Spec => []TypeOK
<1>1. QueueInv => TypeOK
  BY DEF QueueInv
<1> QED
  BY <1>1, QueueInvariance, PTL

\* No charge reaches the cluster twice, or is there and still queued, for any number
\* of charges, nodes, failed sends and mode changes.
THEOREM ChargesOnce == Spec => []ChargedOnce
<1>1. QueueInv => ChargedOnce
  <2> SUFFICES ASSUME QueueInv PROVE ChargedOnce
    OBVIOUS
  <2>1. TypeOK /\ ChargeInv
    BY DEF QueueInv
  <2>2. /\ \A q : q \in Range(Queued) <=> In(still_pending, {q}) \/ In(offline_queue, {q})
        /\ IsInjective(Queued)
    BY <2>1, QueuedLemma DEF ChargeInv
  <2>3. ASSUME NEW q \in Charges
        PROVE  delivered[q] <= (IF q \in Range(Queued) THEN 0 ELSE 1)
    <3>1. CASE q \in Range(Queued)
      <4>1. delivered[q] = 0
        BY <2>1, <2>2, <3>1 DEF ChargeInv
      <4> QED
        BY <3>1, <4>1
    <3>2. CASE q \notin Range(Queued)
      <4>1. delivered[q] <= 1
        BY <2>1 DEF ChargeInv
      <4> QED
        BY <3>2, <4>1
    <3> QED
      BY <3>1, <3>2
  <2> QED
    BY <2>2, <2>3 DEF ChargedOnce
<1> QED
  BY <1>1, QueueInvariance, PTL

-----------------------------------------------------------------------------
(* The requests *)

\* Which messages are about a request.
LEMMA AboutLemma ==
  ASSUME NEW k \in StationIds
  PROVE  /\ \A m \in StationToNodeMsg :
              m \in About(k) <=> m.type = "ChargeRequest" /\ m.request_id = k
         /\ \A m \in NodeToStationMsg :
              m \in About(k) <=> m.type = "ChargeResult" /\ m.request_id = k
         /\ \A id \in StationIds, c \in Charges : ChargeRequest(id, c) \in About(k) <=> id = k
         /\ \A id \in StationIds, ok \in BOOLEAN, c \in Charges :
              ChargeResult(id, ok, c) \in About(k) <=> id = k
         /\ \A name \in {"DisconnectNode", "ConnectNode"} : Mode(name) \notin About(k)
         /\ Debug \notin About(k)
<1>1. \A m \in StationToNodeMsg :
        m \in About(k) <=> m.type = "ChargeRequest" /\ m.request_id = k
  BY MessageFields DEF About
<1>2. \A m \in NodeToStationMsg :
        m \in About(k) <=> m.type = "ChargeResult" /\ m.request_id = k
  BY MessageFields DEF About
<1>3. ASSUME NEW id \in StationIds, NEW c \in Charges
      PROVE  ChargeRequest(id, c) \in About(k) <=> id = k
  <2>1. ChargeRequest(id, c).type = "ChargeRequest" /\ ChargeRequest(id, c).request_id = id
    BY DEF ChargeRequest
  <2> QED
    BY <1>1, <2>1, MessageTypes
<1>4. ASSUME NEW id \in StationIds, NEW ok \in BOOLEAN, NEW c \in Charges
      PROVE  ChargeResult(id, ok, c) \in About(k) <=> id = k
  <2>1. ChargeResult(id, ok, c).type = "ChargeResult" /\ ChargeResult(id, ok, c).request_id = id
    BY DEF ChargeResult
  <2>2. ChargeResult(id, ok, c) \in NodeToStationMsg
    BY MessageTypes
  <2> QED
    BY <1>2, <2>1, <2>2
<1>5. ASSUME NEW name \in {"DisconnectNode", "ConnectNode"} PROVE Mode(name) \notin About(k)
  <2>1. Mode(name).type = name
    BY DEF Mode
  <2> QED
    BY <2>1 DEF About
<1>6. Debug \notin About(k)
  <2>1. Debug.type = "Debug"
    BY DEF Debug
  <2> QED
    BY <2>1 DEF About
<1> QED
  BY <1>1, <1>2, <1>3, <1>4, <1>5, <1>6

\* A message that is in a sequence is about a request when the sequence is.
LEMMA InRange ==
  ASSUME NEW s, NEW M
  PROVE  In(s, M) <=> \E m \in Range(s) : m \in M
  BY DEF In, Range

\* The station knows a request that is somewhere.
LEMMA PlaceKnown ==
  ASSUME TypeOK, RightInv, NEW id \in StationIds,
         \/ In(command, About(id)) \/ In(to_node, About(id)) \/ In(reply, About(id))
         \/ In(to_station, About(id)) \/ Held(cluster_requests, id) \/ Held(responses, id)
  PROVE  id \in DOMAIN requests
<1>1. ASSUME NEW m \in Range(command) \cup Range(to_node) \cup Range(reply) \cup Range(to_station),
             m \in About(id)
      PROVE  id \in DOMAIN requests
  <2>1. m.type \in {"ChargeRequest", "ChargeResult"} /\ m.request_id = id
    BY <1>1 DEF About
  <2>2. Right(m)
    BY DEF RightInv
  <2> QED
    BY <2>1, <2>2 DEF Right
<1>2. CASE Held(cluster_requests, id) \/ Held(responses, id)
  BY <1>2 DEF Held, RightInv
<1> QED
  BY <1>1, <1>2, InRange

\* While the requests of the station are the same, what is new must be right.
LEMMA RightKept ==
  ASSUME RightInv, requests' = requests,
         \A m \in Range(command') \cup Range(to_node') \cup Range(reply') \cup Range(to_station') :
           \/ m \in Range(command) \cup Range(to_node) \cup Range(reply) \cup Range(to_station)
           \/ Right(m),
         \A m \in cluster_requests' \cup responses' :
           \/ m \in cluster_requests \cup responses
           \/ m.req_id \in StationIds =>
                m.req_id \in DOMAIN requests /\ requests[m.req_id].charge = m.charge
  PROVE  RightInv'
  BY DEF RightInv, Right

\* EnterCharge: the request is new, with an id that is nowhere.
LEMMA EnterChargeIds ==
  ASSUME SInv, NEW p \in Pumps, EnterCharge(p)
  PROVE  RightInv' /\ PlaceInv' /\ ServedInv' /\ OwnAnswer'
<1>1. TypeOK /\ RightInv /\ PlaceInv /\ ServedInv /\ OwnAnswer
  BY DEF SInv, QueueInv
<1>2. PICK id \in FreshIds :
        /\ requests' = [k \in DOMAIN requests \cup {id} |->
                          IF k = id THEN [pump |-> p, charge |-> entered'] ELSE requests[k]]
        /\ in_flight_by_pump' = [in_flight_by_pump EXCEPT ![p] = id]
        /\ command' = <<ChargeRequest(id, entered')>>
  BY DEF EnterCharge
<1>3. id \in StationIds /\ id \notin DOMAIN requests
  BY DEF FreshIds
<1>4. entered' \in Charges
  BY <1>1, BoundsAssumption DEF EnterCharge, TypeOK, Charges
<1>5. /\ to_node' = to_node /\ reply' = reply /\ to_station' = to_station
      /\ cluster_requests' = cluster_requests /\ responses' = responses /\ results' = results
      /\ active_online_requests' = active_online_requests
      /\ next_replay_req_id' = next_replay_req_id /\ stopped' = stopped /\ command = <<>>
  BY DEF EnterCharge, clientVars, clusterVars
<1>6. PICK e : e = ChargeRequest(id, entered')
  OBVIOUS
<1>7. /\ e \in StationToNodeMsg /\ \A k \in StationIds : e \in About(k) <=> k = id
      /\ e.type = "ChargeRequest" /\ e.request_id = id /\ e.charge = entered'
      /\ command' = <<e>>
  BY <1>2, <1>3, <1>4, <1>6, MessageTypes, AboutLemma DEF ChargeRequest
<1>8. Range(command') = {e} /\ \A k \in StationIds : In(command', About(k)) <=> k = id
  BY <1>7, InOne
<1>9. \A k \in StationIds : ~In(command, About(k))
  BY <1>5, InNone
<1>10. /\ ~In(to_node, About(id)) /\ ~In(reply, About(id)) /\ ~In(to_station, About(id))
       /\ ~Held(cluster_requests, id) /\ ~Held(responses, id)
  BY <1>1, <1>3, PlaceKnown
<1>11. /\ DOMAIN requests' = DOMAIN requests \cup {id}
       /\ requests'[id].pump = p /\ requests'[id].charge = entered'
       /\ \A k \in DOMAIN requests : requests'[k] = requests[k]
  BY <1>2, <1>3
<1>12. RightInv'
  <2>1. ASSUME NEW m, Right(m) PROVE Right(m)'
    BY <1>11, <2>1 DEF Right
  <2>2. Right(e)'
    BY <1>7, <1>11 DEF Right
  <2>3. \A m \in Range(command') \cup Range(to_node') \cup Range(reply') \cup Range(to_station') : Right(m)'
    BY <1>1, <1>5, <1>8, <2>1, <2>2 DEF RightInv
  <2>4. \A m \in cluster_requests' \cup responses' : m.req_id \in StationIds =>
          m.req_id \in DOMAIN requests' /\ requests'[m.req_id].charge = m.charge
    BY <1>1, <1>5, <1>11 DEF RightInv
  <2> QED
    BY <2>3, <2>4 DEF RightInv
<1>13. PlaceInv'
  BY <1>1, <1>5, <1>8, <1>9, <1>10 DEF PlaceInv
<1>14. ServedInv'
  <2>1. ASSUME NEW r \in Pumps, in_flight_by_pump'[r] # Idle
        PROVE  in_flight_by_pump'[r] \in DOMAIN requests' /\ requests'[in_flight_by_pump'[r]].pump = r
    <3>1. CASE r = p
      BY <1>1, <1>2, <1>11, <3>1 DEF TypeOK
    <3>2. CASE r # p
      BY <1>1, <1>2, <1>11, <2>1, <3>2 DEF TypeOK, ServedInv
    <3> QED
      BY <3>1, <3>2
  <2>2. ASSUME ~stopped', NEW k \in DOMAIN requests'
        PROVE  \/ In(command', About(k)) \/ In(to_node', About(k)) \/ In(reply', About(k))
               \/ In(to_station', About(k)) \/ Held(cluster_requests', k) \/ Held(responses', k)
    <3>1. CASE k = id
      BY <1>3, <1>8, <3>1
    <3>2. CASE k # id
      <4>1. k \in DOMAIN requests /\ k \in StationIds
        BY <1>1, <1>11, <2>2, <3>2 DEF TypeOK
      <4> QED
        BY <1>1, <1>5, <1>9, <2>2, <4>1 DEF ServedInv
    <3> QED
      BY <3>1, <3>2
  <2> QED
    BY <1>1, <1>5, <2>1, <2>2 DEF ServedInv
<1>15. OwnAnswer'
  BY <1>1, <1>5 DEF OwnAnswer
<1> QED
  BY <1>12, <1>13, <1>14, <1>15

\* The pumps and their results are the same, and no request is lost while the station
\* runs.
LEMMA ServedKept ==
  ASSUME ServedInv, OwnAnswer, TypeOK,
         requests' = requests, in_flight_by_pump' = in_flight_by_pump, results' = results,
         next_replay_req_id' >= FirstReplayId,
         stopped => stopped',
         \A k \in StationIds :
           k \in active_online_requests' <=> Held(cluster_requests', k) \/ Held(responses', k),
         ~stopped' => \A k \in StationIds :
           \/ In(command, About(k)) \/ In(to_node, About(k)) \/ In(reply, About(k))
           \/ In(to_station, About(k)) \/ Held(cluster_requests, k) \/ Held(responses, k)
           => \/ In(command', About(k)) \/ In(to_node', About(k)) \/ In(reply', About(k))
              \/ In(to_station', About(k)) \/ Held(cluster_requests', k) \/ Held(responses', k)
  PROVE  ServedInv' /\ OwnAnswer'
<1>1. ASSUME ~stopped', NEW k \in DOMAIN requests'
      PROVE  \/ In(command', About(k)) \/ In(to_node', About(k)) \/ In(reply', About(k))
             \/ In(to_station', About(k)) \/ Held(cluster_requests', k) \/ Held(responses', k)
  <2>1. k \in DOMAIN requests /\ k \in StationIds /\ ~stopped
    BY <1>1 DEF TypeOK
  <2> QED
    BY <1>1, <2>1 DEF ServedInv
<1>2. ServedInv'
  BY <1>1 DEF ServedInv
<1>3. OwnAnswer'
  BY DEF OwnAnswer
<1> QED
  BY <1>2, <1>3

\* SendCommand and EnterMode: a request goes to the channel of the client.
LEMMA CommandIds ==
  ASSUME SInv, SendCommand \/ \E name \in {"DisconnectNode", "ConnectNode"} : EnterMode(name)
  PROVE  RightInv' /\ PlaceInv' /\ ServedInv' /\ OwnAnswer'
<1>1. TypeOK /\ RightInv /\ PlaceInv /\ ServedInv /\ OwnAnswer
  BY DEF SInv, QueueInv
<1>2. /\ reply' = reply /\ to_station' = to_station /\ requests' = requests
      /\ in_flight_by_pump' = in_flight_by_pump /\ stopped' = stopped
      /\ cluster_requests' = cluster_requests /\ responses' = responses /\ results' = results
      /\ active_online_requests' = active_online_requests
      /\ next_replay_req_id' = next_replay_req_id
  BY DEF SendCommand, EnterMode, clientVars, clusterVars, history
<1>3. next_replay_req_id' >= FirstReplayId
  BY <1>1, <1>2 DEF ServedInv
<1>4. \A k \in StationIds :
        k \in active_online_requests' <=> Held(cluster_requests', k) \/ Held(responses', k)
  BY <1>1, <1>2 DEF ServedInv
<1>5. CASE SendCommand
  <2>1. to_node' = to_node \o command /\ command' = <<>> /\ command # <<>>
    BY <1>5 DEF SendCommand
  <2>2. /\ to_node \in Seq(StationToNodeMsg) /\ command \in Seq(StationToNodeMsg)
        /\ Len(command) <= 1
    BY <1>1 DEF TypeOK
  <2>3. /\ to_node' = Append(to_node, Head(command)) /\ Head(command) \in StationToNodeMsg
        /\ Range(command) = {Head(command)}
        /\ \A M : In(command, M) <=> Head(command) \in M
    BY <2>1, <2>2, InSingle
  <2>4. /\ \A M : In(to_node', M) <=> In(to_node, M) \/ In(command, M)
        /\ \A M : AtMostOne(to_node, M) /\ ~(In(command, M) /\ In(to_node, M)) =>
             AtMostOne(to_node', M)
        /\ Range(to_node') = Range(to_node) \cup Range(command)
    BY <2>2, <2>3, InAppend
  <2>5. Range(command') = {} /\ \A M : ~In(command', M)
    BY <2>1, InNone
  <2>6. RightInv'
    BY <1>1, <1>2, <2>4, <2>5, RightKept
  <2>7. PlaceInv'
    BY <1>1, <1>2, <2>4, <2>5 DEF PlaceInv
  <2> QED
    BY <1>1, <1>2, <1>3, <1>4, <2>4, <2>6, <2>7, ServedKept
<1>6. ASSUME NEW name \in {"DisconnectNode", "ConnectNode"}, EnterMode(name)
      PROVE  RightInv' /\ PlaceInv' /\ ServedInv' /\ OwnAnswer'
  <2>1. command = <<>> /\ command' = <<Mode(name)>> /\ to_node' = to_node
    BY <1>6 DEF EnterMode
  <2>2. /\ \A k \in StationIds : ~In(command, About(k)) /\ ~In(command', About(k))
        /\ Range(command') = {Mode(name)}
    BY <2>1, MessageTypes, InOne, InNone, AboutLemma
  <2>3. Right(Mode(name))
    BY DEF Right, Mode
  <2>4. RightInv'
    BY <1>1, <1>2, <2>1, <2>2, <2>3, RightKept
  <2>5. PlaceInv'
    BY <1>1, <1>2, <2>1, <2>2 DEF PlaceInv
  <2> QED
    BY <1>1, <1>2, <1>3, <1>4, <2>1, <2>2, <2>4, <2>5, ServedKept
<1> QED
  BY <1>5, <1>6

\* SendReply and SendReplyFails: a result goes to the channel of the station, or is
\* lost when the station has stopped.
LEMMA ReplyIds ==
  ASSUME SInv, SendReply \/ SendReplyFails
  PROVE  RightInv' /\ PlaceInv' /\ ServedInv' /\ OwnAnswer'
<1>1. TypeOK /\ RightInv /\ PlaceInv /\ ServedInv /\ OwnAnswer
  BY DEF SInv, QueueInv
<1>2. /\ command' = command /\ to_node' = to_node /\ requests' = requests
      /\ in_flight_by_pump' = in_flight_by_pump /\ stopped' = stopped
      /\ cluster_requests' = cluster_requests /\ responses' = responses /\ results' = results
      /\ active_online_requests' = active_online_requests
      /\ next_replay_req_id' = next_replay_req_id
      /\ reply # <<>> /\ reply' = <<>>
  BY DEF SendReply, SendReplyFails, stationVars, clientVars, clusterVars, history
<1>3. next_replay_req_id' >= FirstReplayId
  BY <1>1, <1>2 DEF ServedInv
<1>4. \A k \in StationIds :
        k \in active_online_requests' <=> Held(cluster_requests', k) \/ Held(responses', k)
  BY <1>1, <1>2 DEF ServedInv
<1>5. Range(reply') = {} /\ \A M : ~In(reply', M)
  BY <1>2, InNone
<1>6. CASE SendReply
  <2>1. to_station' = to_station \o reply
    BY <1>6 DEF SendReply
  <2>2. /\ to_station \in Seq(NodeToStationMsg) /\ reply \in Seq(NodeToStationMsg)
        /\ Len(reply) <= 1
    BY <1>1 DEF TypeOK
  <2>3. /\ to_station' = Append(to_station, Head(reply)) /\ Head(reply) \in NodeToStationMsg
        /\ Range(reply) = {Head(reply)}
        /\ \A M : In(reply, M) <=> Head(reply) \in M
    BY <1>2, <2>1, <2>2, InSingle
  <2>4. /\ \A M : In(to_station', M) <=> In(to_station, M) \/ In(reply, M)
        /\ \A M : AtMostOne(to_station, M) /\ ~(In(reply, M) /\ In(to_station, M)) =>
             AtMostOne(to_station', M)
        /\ Range(to_station') = Range(to_station) \cup Range(reply)
    BY <2>2, <2>3, InAppend
  <2>5. RightInv'
    BY <1>1, <1>2, <1>5, <2>4, RightKept
  <2>6. PlaceInv'
    BY <1>1, <1>2, <1>5, <2>4 DEF PlaceInv
  <2> QED
    BY <1>1, <1>2, <1>3, <1>4, <2>4, <2>5, <2>6, ServedKept
<1>7. CASE SendReplyFails
  <2>1. stopped' /\ to_station' = to_station
    BY <1>2, <1>7 DEF SendReplyFails
  <2>2. RightInv'
    BY <1>1, <1>2, <1>5, <2>1, RightKept
  <2>3. PlaceInv'
    BY <1>1, <1>2, <1>5, <2>1 DEF PlaceInv
  <2> QED
    BY <1>1, <1>2, <1>3, <1>4, <2>1, <2>2, <2>3, ServedKept
<1> QED
  BY <1>6, <1>7

\* The client takes the next message of the station: a request is no longer in the
\* channel, and is nowhere else.
LEMMA TakesIds ==
  ASSUME TypeOK, RightInv, PlaceInv, NEW type, Takes(type)
  PROVE  /\ Range(to_node') \subseteq Range(to_node) /\ Head(to_node) \in Range(to_node)
         /\ reply = <<>> /\ \A k \in StationIds : ~In(reply, About(k))
         /\ \A k \in StationIds :
              /\ AtMostOne(to_node', About(k))
              /\ In(to_node', About(k)) <=>
                   In(to_node, About(k)) /\ ~(type = "ChargeRequest" /\ Head(to_node).request_id = k)
         /\ type = "ChargeRequest" =>
              LET id == Head(to_node).request_id
              IN  /\ id \in StationIds /\ Head(to_node).charge \in Charges
                  /\ id \in DOMAIN requests /\ requests[id].charge = Head(to_node).charge
                  /\ In(to_node, About(id)) /\ ~In(command, About(id))
                  /\ ~In(to_station, About(id))
                  /\ ~Held(cluster_requests, id) /\ ~Held(responses, id)
<1>1. /\ to_node \in Seq(StationToNodeMsg) /\ to_node # <<>> /\ to_node' = Tail(to_node)
      /\ Head(to_node) \in StationToNodeMsg /\ Head(to_node).type = type /\ reply = <<>>
      /\ type = "ChargeRequest" =>
           Head(to_node).request_id \in StationIds /\ Head(to_node).charge \in Charges
  BY TakesType
<1>2. /\ \A M : In(to_node, M) <=> Head(to_node) \in M \/ In(to_node', M)
      /\ \A M : AtMostOne(to_node, M) =>
           AtMostOne(to_node', M) /\ ~(Head(to_node) \in M /\ In(to_node', M))
      /\ Range(to_node') \subseteq Range(to_node) /\ Head(to_node) \in Range(to_node)
  BY <1>1, InTail
<1>3. \A k \in StationIds :
        Head(to_node) \in About(k) <=> type = "ChargeRequest" /\ Head(to_node).request_id = k
  BY <1>1, AboutLemma
<1>4. \A k \in StationIds : ~In(reply, About(k))
  BY <1>1, InNone
<1>5. Right(Head(to_node))
  BY <1>2 DEF RightInv
<1>6. type = "ChargeRequest" =>
        /\ Head(to_node).request_id \in DOMAIN requests
        /\ requests[Head(to_node).request_id].charge = Head(to_node).charge
  BY <1>1, <1>5 DEF Right
<1> QED
  BY <1>1, <1>2, <1>3, <1>4, <1>6 DEF PlaceInv

\* EnqueueOfflineCharge: the client answers the request itself.
LEMMA EnqueueOfflineChargeIds ==
  ASSUME SInv, EnqueueOfflineCharge
  PROVE  RightInv' /\ PlaceInv' /\ ServedInv' /\ OwnAnswer'
<1>1. TypeOK /\ RightInv /\ PlaceInv /\ ServedInv /\ OwnAnswer
  BY DEF SInv, QueueInv
<1>2. /\ command' = command /\ to_station' = to_station /\ requests' = requests
      /\ in_flight_by_pump' = in_flight_by_pump /\ stopped' = stopped
      /\ cluster_requests' = cluster_requests /\ responses' = responses /\ results' = results
      /\ active_online_requests' = active_online_requests
      /\ next_replay_req_id' = next_replay_req_id
      /\ reply' = <<ChargeResult(Head(to_node).request_id, TRUE, Head(to_node).charge)>>
      /\ Takes("ChargeRequest")
  BY DEF EnqueueOfflineCharge, stationVars, clusterVars, history
<1>3. PICK id, c : id = Head(to_node).request_id /\ c = Head(to_node).charge
  OBVIOUS
<1>4. /\ id \in StationIds /\ c \in Charges /\ id \in DOMAIN requests /\ requests[id].charge = c
      /\ In(to_node, About(id)) /\ ~In(command, About(id)) /\ ~In(to_station, About(id))
      /\ ~Held(cluster_requests, id) /\ ~Held(responses, id)
      /\ Range(to_node') \subseteq Range(to_node)
      /\ \A k \in StationIds :
           /\ AtMostOne(to_node', About(k)) /\ ~In(reply, About(k))
           /\ In(to_node', About(k)) <=> In(to_node, About(k)) /\ k # id
  BY <1>1, <1>2, <1>3, TakesIds
<1>5. PICK e : e = ChargeResult(id, TRUE, c)
  OBVIOUS
<1>6. /\ e \in NodeToStationMsg /\ \A k \in StationIds : e \in About(k) <=> k = id
      /\ e.type = "ChargeResult" /\ e.request_id = id /\ e.of = c /\ reply' = <<e>>
  BY <1>2, <1>3, <1>4, <1>5, MessageTypes, AboutLemma DEF ChargeResult
<1>7. Range(reply') = {e} /\ \A k \in StationIds : In(reply', About(k)) <=> k = id
  BY <1>6, InOne
<1>8. Right(e)
  BY <1>4, <1>6 DEF Right
<1>9. RightInv'
  BY <1>1, <1>2, <1>4, <1>7, <1>8, RightKept
<1>10. PlaceInv'
  BY <1>1, <1>2, <1>4, <1>7 DEF PlaceInv
<1>11. /\ next_replay_req_id' >= FirstReplayId
       /\ \A k \in StationIds :
            k \in active_online_requests' <=> Held(cluster_requests', k) \/ Held(responses', k)
  BY <1>1, <1>2 DEF ServedInv
<1> QED
  BY <1>1, <1>2, <1>4, <1>7, <1>9, <1>10, <1>11, ServedKept

\* ForwardOnlineCharge: the request goes to the cluster, and the client tracks it.
LEMMA ForwardOnlineChargeIds ==
  ASSUME SInv, ForwardOnlineCharge
  PROVE  RightInv' /\ PlaceInv' /\ ServedInv' /\ OwnAnswer'
<1>1. TypeOK /\ RightInv /\ PlaceInv /\ ServedInv /\ OwnAnswer
  BY DEF SInv, QueueInv
<1>2. PICK id, c, r : /\ id = Head(to_node).request_id /\ c = Head(to_node).charge
                      /\ r = [req_id |-> id, charge |-> c, offline |-> FALSE]
  OBVIOUS
<1>3. /\ command' = command /\ to_station' = to_station /\ requests' = requests
      /\ in_flight_by_pump' = in_flight_by_pump /\ stopped' = stopped
      /\ responses' = responses /\ results' = results /\ reply' = reply
      /\ next_replay_req_id' = next_replay_req_id
      /\ cluster_requests' = cluster_requests \cup {r}
      /\ active_online_requests' = active_online_requests \cup {id}
      /\ Takes("ChargeRequest")
  BY <1>2 DEF ForwardOnlineCharge, Tracked, stationVars
<1>4. /\ id \in StationIds /\ c \in Charges /\ id \in DOMAIN requests /\ requests[id].charge = c
      /\ In(to_node, About(id)) /\ ~In(command, About(id)) /\ ~In(to_station, About(id))
      /\ ~Held(cluster_requests, id) /\ ~Held(responses, id)
      /\ Range(to_node') \subseteq Range(to_node)
      /\ \A k \in StationIds :
           /\ AtMostOne(to_node', About(k)) /\ ~In(reply, About(k))
           /\ In(to_node', About(k)) <=> In(to_node, About(k)) /\ k # id
  BY <1>1, <1>2, <1>3, TakesIds
<1>5. r.req_id = id /\ r.charge = c
  BY <1>2
<1>6. \A k : Held(cluster_requests', k) <=> Held(cluster_requests, k) \/ k = id
  BY <1>3, <1>5 DEF Held
<1>7. \A k \in StationIds : \A m, n \in cluster_requests' : m.req_id = k /\ n.req_id = k => m = n
  BY <1>1, <1>3, <1>4, <1>5 DEF PlaceInv, Held
<1>8. RightInv'
  BY <1>1, <1>3, <1>4, <1>5, RightKept
<1>9. PlaceInv'
  BY <1>1, <1>3, <1>4, <1>6, <1>7 DEF PlaceInv
<1>10. /\ next_replay_req_id' >= FirstReplayId
       /\ \A k \in StationIds :
            k \in active_online_requests' <=> Held(cluster_requests', k) \/ Held(responses', k)
  BY <1>1, <1>3, <1>6 DEF ServedInv
<1> QED
  BY <1>1, <1>3, <1>4, <1>6, <1>8, <1>9, <1>10, ServedKept

\* DisconnectNode and ConnectNode: a change of mode carries no request.
LEMMA ModeIds ==
  ASSUME SInv, DisconnectNode \/ ConnectNode
  PROVE  RightInv' /\ PlaceInv' /\ ServedInv' /\ OwnAnswer'
<1>1. TypeOK /\ RightInv /\ PlaceInv /\ ServedInv /\ OwnAnswer
  BY DEF SInv, QueueInv
<1>2. /\ command' = command /\ to_station' = to_station /\ requests' = requests
      /\ in_flight_by_pump' = in_flight_by_pump /\ stopped' = stopped
      /\ cluster_requests' = cluster_requests /\ responses' = responses /\ results' = results
      /\ active_online_requests' = active_online_requests
      /\ next_replay_req_id' = next_replay_req_id /\ reply' = <<Debug>>
      /\ Takes("DisconnectNode") \/ Takes("ConnectNode")
  BY DEF DisconnectNode, ConnectNode, stationVars, clusterVars, history
<1>3. /\ Range(to_node') \subseteq Range(to_node)
      /\ \A k \in StationIds :
           /\ AtMostOne(to_node', About(k)) /\ ~In(reply, About(k))
           /\ In(to_node', About(k)) <=> In(to_node, About(k))
  BY <1>1, <1>2, TakesIds
<1>4. Range(reply') = {Debug} /\ \A k \in StationIds : ~In(reply', About(k))
  BY <1>2, MessageTypes, InOne, AboutLemma
<1>5. Right(Debug)
  BY DEF Right, Debug
<1>6. RightInv'
  BY <1>1, <1>2, <1>3, <1>4, <1>5, RightKept
<1>7. PlaceInv'
  BY <1>1, <1>2, <1>3, <1>4 DEF PlaceInv
<1>8. /\ next_replay_req_id' >= FirstReplayId
      /\ \A k \in StationIds :
           k \in active_online_requests' <=> Held(cluster_requests', k) \/ Held(responses', k)
  BY <1>1, <1>2 DEF ServedInv
<1> QED
  BY <1>1, <1>2, <1>3, <1>4, <1>6, <1>7, <1>8, ServedKept

\* ReplayCharge: the ids of replayed charges are not ids of the station.
LEMMA ReplayIds ==
  ASSUME Separated, SInv, ReplayCharge
  PROVE  RightInv' /\ PlaceInv' /\ ServedInv' /\ OwnAnswer'
<1>1. TypeOK /\ RightInv /\ PlaceInv /\ ServedInv /\ OwnAnswer
  BY DEF SInv, QueueInv
<1>2. /\ command' = command /\ to_node' = to_node /\ to_station' = to_station
      /\ requests' = requests /\ in_flight_by_pump' = in_flight_by_pump /\ stopped' = stopped
      /\ responses' = responses /\ results' = results /\ reply' = reply
      /\ active_online_requests' = active_online_requests
  BY DEF ReplayCharge, stationVars
<1>3. PICK tries \in 0..NumNodes :
        /\ next_replay_req_id' = next_replay_req_id + (IF tries = 0 THEN NumNodes ELSE tries)
        /\ cluster_requests' = cluster_requests \cup
             (IF tries = 0 THEN {}
              ELSE {[req_id |-> next_replay_req_id + tries - 1, charge |-> Head(offline_queue),
                     offline |-> TRUE]})
  BY DEF ReplayCharge
<1>4. /\ next_replay_req_id \in Nat /\ next_replay_req_id >= FirstReplayId
      /\ NumNodes \in Nat /\ FirstReplayId \in Nat
      /\ \A k \in StationIds : k \in Nat /\ k < FirstReplayId
  BY <1>1, NumNodesAssumption, IdsAssumption DEF TypeOK, ServedInv, Separated
<1>5. next_replay_req_id' >= FirstReplayId
  BY <1>3, <1>4
<1>6. tries # 0 => next_replay_req_id + tries - 1 \notin StationIds
  BY <1>4
<1>7. \A m \in cluster_requests' : m \in cluster_requests \/ m.req_id \notin StationIds
  BY <1>3, <1>6
<1>8. \A k \in StationIds : Held(cluster_requests', k) <=> Held(cluster_requests, k)
  BY <1>3, <1>7 DEF Held
<1>9. RightInv'
  BY <1>1, <1>2, <1>7, RightKept
<1>10. PlaceInv'
  BY <1>1, <1>2, <1>7, <1>8 DEF PlaceInv
<1>11. \A k \in StationIds :
         k \in active_online_requests' <=> Held(cluster_requests', k) \/ Held(responses', k)
  BY <1>1, <1>2, <1>8 DEF ServedInv
<1> QED
  BY <1>1, <1>2, <1>5, <1>8, <1>9, <1>10, <1>11, ServedKept

\* Answer: the request becomes its answer.
LEMMA AnswerIds ==
  ASSUME SInv, NEW m \in cluster_requests, Answer(m)
  PROVE  RightInv' /\ PlaceInv' /\ ServedInv' /\ OwnAnswer'
<1>1. TypeOK /\ RightInv /\ PlaceInv /\ ServedInv /\ OwnAnswer
  BY DEF SInv, QueueInv
<1>2. /\ command' = command /\ to_node' = to_node /\ to_station' = to_station
      /\ requests' = requests /\ in_flight_by_pump' = in_flight_by_pump /\ stopped' = stopped
      /\ results' = results /\ reply' = reply
      /\ active_online_requests' = active_online_requests
      /\ next_replay_req_id' = next_replay_req_id
      /\ cluster_requests' = cluster_requests \ {m}
  BY DEF Answer, stationVars, clientVars, history
<1>3. PICK r : /\ r.req_id = m.req_id /\ r.charge = m.charge
               /\ responses' = responses \cup {r}
  BY DEF Answer
<1>4. \A k \in StationIds :
        /\ Held(cluster_requests', k) <=> Held(cluster_requests, k) /\ k # m.req_id
        /\ Held(responses', k) <=> Held(responses, k) \/ k = m.req_id
        /\ k = m.req_id => Held(cluster_requests, k)
  BY <1>1, <1>2, <1>3 DEF PlaceInv, Held
<1>5. \A k \in StationIds :
        /\ \A a, b \in cluster_requests' : a.req_id = k /\ b.req_id = k => a = b
        /\ \A a, b \in responses' : a.req_id = k /\ b.req_id = k => a = b
  BY <1>1, <1>2, <1>3, <1>4 DEF PlaceInv, Held
<1>6. RightInv'
  BY <1>1, <1>2, <1>3, RightKept DEF RightInv
<1>7. PlaceInv'
  BY <1>1, <1>2, <1>4, <1>5 DEF PlaceInv
<1>8. /\ next_replay_req_id' >= FirstReplayId
      /\ \A k \in StationIds :
           k \in active_online_requests' <=> Held(cluster_requests', k) \/ Held(responses', k)
  BY <1>1, <1>2, <1>4 DEF ServedInv
<1> QED
  BY <1>1, <1>2, <1>4, <1>6, <1>7, <1>8, ServedKept

\* HandleResponse: the answer to a request of the station becomes the reply, any
\* other answer is about none.
LEMMA HandleResponseIds ==
  ASSUME SInv, NEW m \in responses, HandleResponse(m)
  PROVE  RightInv' /\ PlaceInv' /\ ServedInv' /\ OwnAnswer'
<1>1. TypeOK /\ RightInv /\ PlaceInv /\ ServedInv /\ OwnAnswer
  BY DEF SInv, QueueInv
<1>2. /\ command' = command /\ to_node' = to_node /\ to_station' = to_station
      /\ requests' = requests /\ in_flight_by_pump' = in_flight_by_pump /\ stopped' = stopped
      /\ results' = results /\ cluster_requests' = cluster_requests
      /\ next_replay_req_id' = next_replay_req_id
      /\ responses' = responses \ {m}
      /\ active_online_requests' = active_online_requests \ {m.req_id}
      /\ reply = <<>>
      /\ reply' = IF m.req_id \in active_online_requests
                  THEN <<ChargeResult(m.req_id, m.allowed, m.charge)>> ELSE <<>>
  BY DEF HandleResponse, Ready, stationVars, history
<1>3. \A k \in StationIds : ~In(reply, About(k))
  BY <1>2, InNone
<1>4. m.req_id \in active_online_requests <=> m.req_id \in StationIds
  BY <1>1 DEF TypeOK, ServedInv, Held
<1>5. \A k \in StationIds :
        /\ Held(responses', k) <=> Held(responses, k) /\ k # m.req_id
        /\ k = m.req_id => Held(responses, k)
        /\ \A a, b \in responses' : a.req_id = k /\ b.req_id = k => a = b
  BY <1>1, <1>2 DEF PlaceInv, Held
<1>6. /\ next_replay_req_id' >= FirstReplayId
      /\ \A k \in StationIds :
           k \in active_online_requests' <=> Held(cluster_requests', k) \/ Held(responses', k)
  BY <1>1, <1>2, <1>5 DEF ServedInv, PlaceInv
<1>7. CASE m.req_id \in StationIds
  <2>1. PICK e : e = ChargeResult(m.req_id, m.allowed, m.charge)
    OBVIOUS
  <2>2. m.allowed \in BOOLEAN /\ m.charge \in Charges
    BY <1>1 DEF TypeOK
  <2>3. /\ e \in NodeToStationMsg /\ \A k \in StationIds : e \in About(k) <=> k = m.req_id
        /\ e.type = "ChargeResult" /\ e.request_id = m.req_id /\ e.of = m.charge
        /\ reply' = <<e>>
    BY <1>2, <1>4, <1>7, <2>1, <2>2, MessageTypes, AboutLemma DEF ChargeResult
  <2>4. Range(reply') = {e} /\ \A k \in StationIds : In(reply', About(k)) <=> k = m.req_id
    BY <2>3, InOne
  <2>5. Right(e)
    BY <1>1, <1>7, <2>3 DEF Right, RightInv
  <2>6. RightInv'
    BY <1>1, <1>2, <2>4, <2>5, RightKept
  <2>7. PlaceInv'
    BY <1>1, <1>2, <1>3, <1>5, <2>4 DEF PlaceInv
  <2> QED
    BY <1>1, <1>2, <1>3, <1>5, <1>6, <2>4, <2>6, <2>7, ServedKept
<1>8. CASE m.req_id \notin StationIds
  <2>1. Range(reply') = {} /\ \A k \in StationIds : ~In(reply', About(k))
    BY <1>2, <1>4, <1>8, InNone
  <2>2. RightInv'
    BY <1>1, <1>2, <2>1, RightKept
  <2>3. PlaceInv'
    BY <1>1, <1>2, <1>3, <1>5, <2>1 DEF PlaceInv
  <2> QED
    BY <1>1, <1>2, <1>3, <1>5, <1>6, <1>8, <2>1, <2>2, <2>3, ServedKept
<1> QED
  BY <1>7, <1>8

\* HandleNodeEvent: the result of a request that the station knows, about its charge,
\* was the last place of the request.
LEMMA HandleNodeEventIds ==
  ASSUME SInv, HandleNodeEvent
  PROVE  RightInv' /\ PlaceInv' /\ ServedInv' /\ OwnAnswer'
<1>1. TypeOK /\ RightInv /\ PlaceInv /\ ServedInv /\ OwnAnswer
  BY DEF SInv, QueueInv
<1>2. /\ command' = command /\ to_node' = to_node /\ reply' = reply
      /\ stopped' = stopped /\ active_online_requests' = active_online_requests
      /\ next_replay_req_id' = next_replay_req_id
      /\ cluster_requests' = cluster_requests /\ responses' = responses
      /\ to_station # <<>> /\ to_station' = Tail(to_station)
  BY DEF HandleNodeEvent, clientVars, clusterVars
<1>3. PICK m : m = Head(to_station)
  OBVIOUS
<1>4. to_station \in Seq(NodeToStationMsg)
  BY <1>1 DEF TypeOK
<1>5. /\ m \in NodeToStationMsg /\ m \in Range(to_station)
      /\ Range(to_station') \subseteq Range(to_station)
      /\ \A M : In(to_station, M) <=> m \in M \/ In(to_station', M)
      /\ \A M : AtMostOne(to_station, M) =>
           AtMostOne(to_station', M) /\ ~(m \in M /\ In(to_station', M))
  BY <1>2, <1>3, <1>4, InTail
<1>6. \A k \in StationIds : m \in About(k) <=> m.type = "ChargeResult" /\ m.request_id = k
  BY <1>5, AboutLemma
<1>7. Right(m)
  BY <1>1, <1>5 DEF RightInv
<1>8. PlaceInv'
  BY <1>1, <1>2, <1>5 DEF PlaceInv
<1>9. /\ next_replay_req_id' >= FirstReplayId
      /\ \A k \in StationIds :
           k \in active_online_requests' <=> Held(cluster_requests', k) \/ Held(responses', k)
  BY <1>1, <1>2 DEF ServedInv
<1>10. CASE m.type = "ChargeResult"
  <2>1. PICK id : id = m.request_id
    OBVIOUS
  <2>2. id \in StationIds /\ id \in DOMAIN requests /\ requests[id].charge = m.of
    BY <1>5, <1>7, <1>10, <2>1, MessageFields DEF Right
  <2>3. /\ in_flight_by_pump' = [in_flight_by_pump EXCEPT ![requests[id].pump] = Idle]
        /\ results' = results \cup
             {[charge |-> requests[id].charge, of |-> m.of, allowed |-> m.allowed]}
        /\ requests' = [k \in DOMAIN requests \ {id} |-> requests[k]]
    BY <1>3, <1>10, <2>1, <2>2 DEF HandleNodeEvent
  <2>4. /\ DOMAIN requests' = DOMAIN requests \ {id}
        /\ \A k \in DOMAIN requests' : requests'[k] = requests[k]
    BY <2>3
  <2>5. /\ \A k \in StationIds : In(to_station', About(k)) <=> In(to_station, About(k)) /\ k # id
        /\ In(to_station, About(id))
    BY <1>1, <1>5, <1>6, <1>10, <2>1, <2>2 DEF PlaceInv
  <2>6. /\ ~In(command, About(id)) /\ ~In(to_node, About(id)) /\ ~In(reply, About(id))
        /\ ~In(to_station', About(id))
        /\ ~Held(cluster_requests, id) /\ ~Held(responses, id)
    BY <1>1, <2>2, <2>5 DEF PlaceInv
  <2>7. RightInv'
    <3>1. ASSUME NEW e \in Range(command') \cup Range(to_node') \cup Range(reply') \cup Range(to_station')
          PROVE  Right(e)'
      <4>1. Right(e)
        BY <1>1, <1>2, <1>5 DEF RightInv
      <4>2. e \notin About(id)
        BY <1>2, <2>6, InRange
      <4>3. e \in StationToNodeMsg \cup NodeToStationMsg
        BY <1>1, <1>2, <1>5 DEF TypeOK, Range
      <4>4. e.type \in {"ChargeRequest", "ChargeResult"} => e.request_id # id
        BY <4>2, <4>3 DEF About
      <4> QED
        BY <2>4, <4>1, <4>4 DEF Right
    <3>2. \A r \in cluster_requests' \cup responses' : r.req_id \in StationIds =>
            r.req_id \in DOMAIN requests' /\ requests'[r.req_id].charge = r.charge
      BY <1>1, <1>2, <2>4, <2>6 DEF RightInv, Held
    <3> QED
      BY <3>1, <3>2 DEF RightInv
  <2>8. \A p \in Pumps : in_flight_by_pump'[p] # Idle =>
          in_flight_by_pump'[p] \in DOMAIN requests' /\ requests'[in_flight_by_pump'[p]].pump = p
    <3> SUFFICES ASSUME NEW p \in Pumps, in_flight_by_pump'[p] # Idle
                 PROVE  /\ in_flight_by_pump'[p] \in DOMAIN requests'
                        /\ requests'[in_flight_by_pump'[p]].pump = p
      OBVIOUS
    <3>1. p # requests[id].pump /\ in_flight_by_pump'[p] = in_flight_by_pump[p]
      BY <1>1, <2>2, <2>3 DEF TypeOK
    <3>2. in_flight_by_pump[p] \in DOMAIN requests /\ requests[in_flight_by_pump[p]].pump = p
      BY <1>1, <3>1 DEF ServedInv
    <3> QED
      BY <2>4, <3>1, <3>2
  <2>9. ASSUME ~stopped', NEW k \in DOMAIN requests'
        PROVE  \/ In(command', About(k)) \/ In(to_node', About(k)) \/ In(reply', About(k))
               \/ In(to_station', About(k)) \/ Held(cluster_requests', k) \/ Held(responses', k)
    <3>1. k \in DOMAIN requests /\ k \in StationIds /\ k # id
      BY <1>1, <2>4, <2>9 DEF TypeOK
    <3> QED
      BY <1>1, <1>2, <2>5, <2>9, <3>1 DEF ServedInv
  <2>10. ServedInv'
    BY <1>9, <2>8, <2>9 DEF ServedInv
  <2>11. OwnAnswer'
    BY <1>1, <2>2, <2>3 DEF OwnAnswer
  <2> QED
    BY <1>8, <2>7, <2>10, <2>11
<1>11. CASE m.type # "ChargeResult"
  <2>1. /\ requests' = requests /\ in_flight_by_pump' = in_flight_by_pump /\ results' = results
    BY <1>3, <1>11 DEF HandleNodeEvent
  <2>2. \A k \in StationIds : In(to_station', About(k)) <=> In(to_station, About(k))
    BY <1>5, <1>6, <1>11
  <2>3. RightInv'
    BY <1>1, <1>2, <1>5, <2>1, RightKept
  <2> QED
    BY <1>1, <1>2, <1>8, <1>9, <2>1, <2>2, <2>3, ServedKept
<1> QED
  BY <1>10, <1>11

\* Quit, Return and RestorePending: no request moves.
LEMMA StillIds ==
  ASSUME SInv, stopped => stopped',
         UNCHANGED <<command, to_node, reply, to_station, requests, in_flight_by_pump, results,
                     cluster_requests, responses, active_online_requests, next_replay_req_id>>
  PROVE  RightInv' /\ PlaceInv' /\ ServedInv' /\ OwnAnswer'
<1>1. TypeOK /\ RightInv /\ PlaceInv /\ ServedInv /\ OwnAnswer
  BY DEF SInv, QueueInv
<1>2. RightInv' /\ PlaceInv'
  BY <1>1 DEF RightInv, Right, PlaceInv
<1>3. /\ next_replay_req_id' >= FirstReplayId
      /\ \A k \in StationIds :
           k \in active_online_requests' <=> Held(cluster_requests', k) \/ Held(responses', k)
  BY <1>1 DEF ServedInv
<1> QED
  BY <1>1, <1>2, <1>3, ServedKept

\* Every step keeps the invariant of the requests.
LEMMA SStep ==
  ASSUME Separated, SInv, [Next]_vars
  PROVE  SInv'
<1>1. QueueInv'
  BY QueueStep DEF SInv
<1>2. CASE Quit \/ StationClosed \/ RoleQueryFails \/ RestorePending \/ UNCHANGED vars
  <2>1. stopped => stopped'
    BY <1>2 DEF Quit, StationClosed, RoleQueryFails, RestorePending, Return, vars, stationVars
  <2>2. UNCHANGED <<command, to_node, reply, to_station, requests, in_flight_by_pump, results,
                    cluster_requests, responses, active_online_requests, next_replay_req_id>>
    BY <1>2 DEF Quit, StationClosed, RoleQueryFails, RestorePending, Return, vars, stationVars,
                clientVars, clusterVars, history
  <2> QED
    BY <1>1, <2>1, <2>2, StillIds DEF SInv
<1> QED
  BY <1>1, <1>2, EnterChargeIds, CommandIds, ReplyIds, EnqueueOfflineChargeIds,
     ForwardOnlineChargeIds, ModeIds, ReplayIds, AnswerIds, HandleResponseIds, HandleNodeEventIds
     DEF Next, ClientStep, SInv

\* The invariant of the requests holds in every state, if the ids that the station
\* draws are lower than those of replayed charges.
THEOREM SInvariance ==
  ASSUME Separated
  PROVE  Spec => []SInv
<1>1. ASSUME Init PROVE SInv
  <2>1. QueueInv
    BY <1>1, QueueInit
  <2>2. /\ command = <<>> /\ reply = <<>> /\ to_node = <<>> /\ to_station = <<>>
        /\ cluster_requests = {} /\ responses = {} /\ results = {} /\ DOMAIN requests = {}
        /\ active_online_requests = {} /\ next_replay_req_id = FirstReplayId
        /\ \A p \in Pumps : in_flight_by_pump[p] = Idle
    BY <1>1 DEF Init
  <2>3. Range(<<>>) = {} /\ \A M : ~In(<<>>, M) /\ AtMostOne(<<>>, M)
    BY InNone
  <2>4. \A k : ~Held(cluster_requests, k) /\ ~Held(responses, k)
    BY <2>2 DEF Held
  <2>5. RightInv
    BY <2>2, <2>3 DEF RightInv
  <2>6. PlaceInv
    BY <2>2, <2>3, <2>4 DEF PlaceInv
  <2>7. FirstReplayId \in Nat
    BY IdsAssumption
  <2>8. ServedInv
    BY <2>2, <2>4, <2>7 DEF ServedInv
  <2>9. OwnAnswer
    BY <2>2 DEF OwnAnswer
  <2> QED
    BY <2>1, <2>5, <2>6, <2>8, <2>9 DEF SInv
<1>2. SInv /\ [Next]_vars => SInv'
  BY SStep
<1>3. Init => SInv
  BY <1>1
<1> QED
  BY <1>2, <1>3, PTL DEF Spec

\* A pump is told the result of its own charge, in whatever order the answers come
\* back.
THEOREM OwnAnswers ==
  ASSUME Separated
  PROVE  Spec => []OwnAnswer
<1>1. SInv => OwnAnswer
  BY DEF SInv
<1> QED
  BY <1>1, SInvariance, PTL

\* A charge that a pump was told is accepted is with the cluster or in the queue; it
\* is not lost on the way.
THEOREM ChargesRemembered ==
  ASSUME Separated
  PROVE  Spec => []NoChargeForgotten
<1>1. ASSUME SInv PROVE NoChargeForgotten
  <2>1. TypeOK /\ AcceptedInv /\ OwnAnswer
    BY <1>1 DEF SInv, QueueInv
  <2>2. \A q : q \in Range(Queued) <=> In(still_pending, {q}) \/ In(offline_queue, {q})
    BY <2>1, QueuedLemma
  <2> QED
    BY <2>1, <2>2 DEF NoChargeForgotten, AcceptedInv, OwnAnswer, Known
<1>2. SInv => NoChargeForgotten
  BY <1>1
<1> QED
  BY <1>2, SInvariance, PTL

\* The positions of a sequence that are about a request: none, or one.
LEMMA CarriesLemma ==
  ASSUME NEW s, NEW id \in StationIds,
         \A m \in Range(s) : m \in StationToNodeMsg \cup NodeToStationMsg
  PROVE  /\ In(s, About(id)) <=> Carries(s, id) # {}
         /\ AtMostOne(s, About(id)) => \A i, j \in Carries(s, id) : i = j
<1>1. \A i \in DOMAIN s : s[i] \in About(id) <=> i \in Carries(s, id)
  BY DEF Range, About, Carries
<1>2. Carries(s, id) \subseteq DOMAIN s
  BY DEF Carries
<1> QED
  BY <1>1, <1>2 DEF In, AtMostOne

\* While the station runs, the request of a busy pump is in exactly one place, and
\* the client will pass on the answer.
THEOREM BusyPumpsServed ==
  ASSUME Separated
  PROVE  Spec => []BusyPumpIsServed
<1>1. ASSUME SInv, ~stopped, NEW p \in Pumps, in_flight_by_pump[p] # Idle,
             NEW id, id = in_flight_by_pump[p]
      PROVE  /\ id \in DOMAIN requests /\ requests[id].pump = p
             /\ \E place \in Places(id) : Places(id) = {place}
             /\ (\E m \in cluster_requests \cup responses : m.req_id = id)
                  <=> id \in active_online_requests
  <2>1. TypeOK /\ PlaceInv /\ ServedInv
    BY <1>1 DEF SInv, QueueInv
  <2>2. id \in DOMAIN requests /\ requests[id].pump = p /\ id \in StationIds
    BY <1>1, <2>1 DEF TypeOK, ServedInv
  <2>3. (\E m \in cluster_requests \cup responses : m.req_id = id) <=> id \in active_online_requests
    BY <2>1, <2>2 DEF ServedInv, Held
  <2> DEFINE C == Carries(command, id)
             N == Carries(to_node, id)
             R == Carries(reply, id)
             S == Carries(to_station, id)
             K == {r \in cluster_requests : r.req_id = id}
             P == {r \in responses : r.req_id = id}
  <2>4. /\ In(command, About(id)) <=> C # {}
        /\ In(to_node, About(id)) <=> N # {}
        /\ In(reply, About(id)) <=> R # {}
        /\ In(to_station, About(id)) <=> S # {}
        /\ AtMostOne(to_node, About(id)) => \A i, j \in N : i = j
        /\ AtMostOne(to_station, About(id)) => \A i, j \in S : i = j
    <3>1. /\ command \in Seq(StationToNodeMsg) /\ to_node \in Seq(StationToNodeMsg)
          /\ reply \in Seq(NodeToStationMsg) /\ to_station \in Seq(NodeToStationMsg)
      BY <2>1 DEF TypeOK
    <3>2. \A m \in Range(command) \cup Range(to_node) \cup Range(reply) \cup Range(to_station) :
            m \in StationToNodeMsg \cup NodeToStationMsg
      BY <3>1 DEF Range
    <3> QED
      BY <2>2, <3>2, CarriesLemma
  <2>5. (\A i, j \in C : i = j) /\ (\A i, j \in R : i = j)
    <3>1. \A i, j \in DOMAIN command : i = j
      BY <2>1 DEF TypeOK
    <3>2. \A i, j \in DOMAIN reply : i = j
      BY <2>1 DEF TypeOK
    <3> QED
      BY <3>1, <3>2 DEF Carries
  <2>6. /\ Held(cluster_requests, id) <=> K # {}
        /\ Held(responses, id) <=> P # {}
    BY DEF Held
  <2>7. /\ \A i, j \in K : i = j
        /\ \A i, j \in P : i = j
    BY <2>1, <2>2 DEF PlaceInv
  <2>8. Places(id) = {<<"command", i>> : i \in C} \cup {<<"to_node", i>> : i \in N}
          \cup {<<"reply", i>> : i \in R} \cup {<<"to_station", i>> : i \in S}
          \cup {<<"cluster_requests", m>> : m \in K} \cup {<<"responses", m>> : m \in P}
    BY DEF Places
  <2> HIDE DEF C, N, R, S, K, P
  <2>9. (\A i, j \in N : i = j) /\ (\A i, j \in S : i = j)
    BY <2>1, <2>2, <2>4 DEF PlaceInv
  <2>10. C # {} \/ N # {} \/ R # {} \/ S # {} \/ K # {} \/ P # {}
    BY <1>1, <2>1, <2>2, <2>4, <2>6 DEF ServedInv
  <2>11. /\ C # {} => N = {} /\ R = {} /\ S = {} /\ K = {} /\ P = {}
         /\ N # {} => R = {} /\ S = {} /\ K = {} /\ P = {}
         /\ K # {} => R = {} /\ S = {} /\ P = {}
         /\ P # {} => R = {} /\ S = {}
         /\ R # {} => S = {}
    BY <2>1, <2>2, <2>4, <2>6 DEF PlaceInv
  <2>12. \A x, y \in Places(id) : x = y
    BY <2>5, <2>7, <2>8, <2>9, <2>11
  <2>13. \E x : x \in Places(id)
    BY <2>8, <2>10
  <2>14. \E place \in Places(id) : Places(id) = {place}
    BY <2>12, <2>13
  <2> QED
    BY <2>2, <2>3, <2>14
<1>2. SInv => BusyPumpIsServed
  BY <1>1 DEF BusyPumpIsServed
<1> QED
  BY <1>2, SInvariance, PTL
=============================================================================
