------------------------- MODULE ElectionInvariant -------------------------
(***************************************************************************)
(* The inductive invariant of Election: what a node that waits for answers *)
(* or leads knows of the nodes that run, as long as the end of a stream is *)
(* the end of a node.                                                      *)
(***************************************************************************)
EXTENDS Election, Functions

\* The messages from m to n, on a stream and on a connection that n has yet to accept
InTransit(m, n) == Range(chan[m][n]) \cup Range(backlog[m][n])

\* The end of a stream is the end of a node; a node knows all the nodes that run,
\* and holds no handler of an ended stream with one of them.
MembersInv ==
  /\ \A m, n \in Nodes : LostMsg \in InTransit(m, n) => ~Running(m)
  /\ \A m, n \in Nodes : Running(m) /\ Running(n) => m \in cluster[n]
  /\ \A m, n \in Nodes : <<m, n>> \in stale => ~Running(n)

\* While n waits, the answer of every higher node that runs is to come.
AnswersInv ==
  \A n, p \in Nodes :
    Running(n) /\ election[n] /\ Running(p) /\ p > n =>
      ElectionMsg(n) \in InTransit(n, p) \/ ElectionOkMsg(p) \in InTransit(p, n)

Highest(n) == \A p \in Nodes : Running(p) => p <= n

\* The first leader runs, and there is no election.
Calm ==
  \E l \in Nodes :
    /\ role[l] = "leader"
    /\ \A n \in Nodes : /\ leader_addr[n] = l /\ ~election[n]
                        /\ role[n] = "leader" => n = l
    /\ \A m, n \in Nodes : InTransit(m, n) \subseteq {LostMsg}

\* After the first leader, the node that leads is the highest of those that run.
HighestLeads == \A n \in Nodes : role[n] = "leader" => Highest(n)

\* Only nodes with a lower id hear of a leader.
HeardByLower ==
  \A m, n \in Nodes : CoordinatorMsg(m) \in InTransit(m, n) /\ Running(n) => n < m

\* The inductive invariant, while no acceptor has dropped a stream that is in use: it
\* implies NoPanic and OneLeader.
EInv ==
  /\ TypeOK
  /\ ~crossed => /\ MembersInv
                 /\ AnswersInv
                 /\ plan.timely => /\ Calm \/ HighestLeads
                                   /\ HeardByLower
                                   /\ NoPanic
=============================================================================
