---------------------------- MODULE MCConnection ----------------------------
(* Connection on three nodes: a scenario for every kind of message, and the   *)
(* scenarios in which connections cross, are evicted, fail or come back.      *)
EXTENDS ConnectionInvariant

Ack(i)   == [type |-> "Ack", op_id |-> i]
To(p, i) == [to |-> p, msg |-> Ack(i)]
None     == <<>>

Scenario(conns, s1, s2, s3, crashes, cuts, timeouts, broken) ==
  [max_conns |-> conns, script |-> <<s1, s2, s3>>, crashes |-> crashes, cuts |-> cuts,
   timeouts |-> timeouts, broken |-> broken, cancels |-> 0]

\* A branch of a select! is cancelled, as often as given.
Cancelling(scenario, cancels) == [scenario EXCEPT !.cancels = cancels]

Cancels ==
  { Cancelling(Scenario(2, <<To(2, 1), To(2, 2)>>, None, None, 0, 0, 0, 0), 2),
    Cancelling(Scenario(2, <<To(2, 1), To(2, 2)>>, <<To(1, 3)>>, None, 0, 0, 0, 0), 1) }

Faults ==
  { Scenario(2, <<To(2, 1), To(2, 2)>>, <<To(1, 3), To(1, 4)>>, None, 0, 0, 0, 0),
    Scenario(1, <<To(2, 1), To(3, 2), To(2, 3)>>, None, <<To(1, 4)>>, 0, 0, 0, 0),
    Scenario(2, <<To(2, 1), To(2, 2)>>, <<To(1, 3)>>, None, 1, 0, 0, 0),
    Scenario(2, <<To(2, 1), To(2, 2), To(2, 3)>>, <<To(1, 4)>>, None, 0, 1, 0, 0),
    Scenario(2, <<To(2, 1), To(2, 2), To(2, 3)>>, None, None, 0, 0, 1, 0),
    Scenario(2, <<To(2, 1), To(2, 2)>>, <<To(1, 3)>>, None, 0, 0, 1, 1) }

Limits   == {None, <<5>>}
Account(a, l) == [account_id |-> a, limit |-> l, consumed |-> a + 1]
Card(a, c, l) == [account_id |-> a, card_id |-> c, limit |-> l, consumed |-> c + 2]

Snapshots ==
  { [addr |-> 1, accounts |-> None, cards |-> None],
    [addr |-> 1, accounts |-> <<Account(0, None), Account(1, <<5>>)>>,
     cards |-> <<Card(0, 7, <<9>>), Card(1, 8, None), Card(1, 9, <<0>>)>>] }

\* The commands of the administrator, with a period of none, of some and of many bytes (main.rs makes none of no bytes)
Commands ==
  [type : {"LimitAccount"}, account_id : {1}, amount : {0, 5}]
    \cup [type : {"LimitCard"}, account_id : {1}, card_id : {2}, amount : {0, 5}]
    \cup [type : {"AccountQuery"}, account_id : {1}]
    \cup [type : {"Bill"}, account_id : {1}, period : {None, <<7>>, <<127>>, <<128>>, <<256>>}]

Ops ==
  {BuildOperation(c) : c \in Commands}
    \cup [type : {"Charge"}, account_id : {1}, card_id : {2}, amount : {3},
          from_offline_station : BOOLEAN]
    \cup {[type |-> "GetDatabase", addr |-> 1]}
    \cup [type : {"ReplaceDatabase"}, snapshot : Snapshots]

Results ==
  [type : {"Charge"}, error : {None, <<"CardLimitExceeded">>, <<"AccountLimitExceeded">>}]
    \cup [type : {"LimitAccount", "LimitCard"}, error : {None, <<"BelowCurrentUsage">>}]
    \cup [type : {"AccountQuery"}, account_id : {1}, total_spent : {3},
          per_card_spent : {None, <<[card_id |-> 1, spent |-> 1], [card_id |-> 2, spent |-> 2]>>}]
    \cup [type : {"DatabaseSnapshot"}, snapshot : Snapshots]
    \cup {[type |-> "ReplaceDatabase"]}

Member(n) == [id |-> n, addr |-> n]

Samples ==
  [type : {"Request"}, req_id : {1}, addr : {1}, op : Ops]
    \cup [type : {"Log"}, op_id : {1}, op : Ops]
    \cup {[type |-> "Join", addr |-> 1], [type |-> "RoleQuery", addr |-> 1]}
    \cup [type : {"ClusterView"}, members : {<<Member(1)>>, <<Member(1), Member(2), Member(3)>>},
          leader_addr : {1}, database : Snapshots]
    \cup {[type |-> "ClusterUpdate", new_member |-> Member(3)]}
    \cup [type : {"Response"}, req_id : {1}, op_result : Results]
    \cup [type : {"RoleResponse"}, node_id : {1}, role : {"Leader", "Replica", "Station"}]
    \cup {[type |-> "Election", candidate_id |-> 1, candidate_addr |-> 1],
          [type |-> "ElectionOk", responder_id |-> 1],
          [type |-> "Coordinator", leader_id |-> 1, leader_addr |-> 1]}

\* A message of each kind, and one after it
Messages ==
  {Scenario(2, <<[to |-> 2, msg |-> m], To(2, 9)>>, None, None, 0, 0, 0, 0) : m \in Samples}

Streams == Faults \cup Cancels \cup Messages

\* One message, and nothing happens but a select! that drops a branch.
OneCancel == {Cancelling(Scenario(2, <<To(2, 1)>>, None, None, 0, 0, 0, 0), 1)}

\* What InOrderAlways asks of the scripts.
ASSUME ScriptsDistinct == DistinctScripts
=============================================================================
