-------------------------- MODULE MCActorDatabase --------------------------
(***************************************************************************)
(* Instances of ActorDatabase for TLC: one account with two cards, and the *)
(* operations of the runs.                                                 *)
(***************************************************************************)
EXTENDS ActorDatabase

CONSTANTS a1, c1, c2

OneAccount == [c \in Cards |-> a1]

Charge(c, amount)  == [kind |-> "Charge", card |-> c, amount |-> amount, offline |-> FALSE]
OfflineCharge(c, amount) == [Charge(c, amount) EXCEPT !.offline = TRUE]
LimitAccount(l)    == [kind |-> "LimitAccount", account |-> a1, limit |-> l]
LimitCard(c, l)    == [kind |-> "LimitCard", card |-> c, limit |-> l]
Query              == [kind |-> "AccountQuery", account |-> a1]
Bill               == [kind |-> "Bill", account |-> a1]
GetDatabase        == [kind |-> "GetDatabase"]
ReplaceDatabase    == [kind |-> "ReplaceDatabase",
                       accounts |-> {[account |-> a1, limit |-> 5, consumed |-> 1]},
                       cards |-> {[card |-> c1, limit |-> NoLimit, consumed |-> 1]}]

\* The operations of a sequence in every order.
Orders(s) == {[i \in 1..Len(s) |-> s[p[i]]] : p \in Permutations(1..Len(s))}

\* Charges of two cards compete for the limits of the account and of a card,
\* which are set meanwhile; three charges of one card wait for one another; a
\* charge of an offline station exceeds the limits of its card and account.
ChargesAndLimits ==
  Orders(<<LimitAccount(3), LimitCard(c1, 2), Charge(c1, 2), Charge(c2, 2)>>)
    \cup Orders(<<LimitCard(c1, 3), Charge(c1, 1), Charge(c1, 2), Charge(c1, 2)>>)
    \cup Orders(<<LimitAccount(1), LimitCard(c1, 1), OfflineCharge(c1, 2), Charge(c1, 1)>>)

\* A query, two queries or a bill among charges of both cards; one
\* and two snapshots; a replacement of the database.
QueriesAndSnapshots ==
  Orders(<<Charge(c1, 2), Charge(c2, 1), Query, Charge(c1, 1)>>)
    \cup Orders(<<Charge(c1, 2), Charge(c2, 1), Charge(c1, 1), Bill>>)
    \cup Orders(<<Charge(c1, 1), Query, Query>>)
    \cup Orders(<<Charge(c1, 1), Charge(c2, 1), GetDatabase>>)
    \cup Orders(<<Charge(c1, 1), GetDatabase, GetDatabase>>)
    \cup Orders(<<Charge(c1, 1), Charge(c1, 1), ReplaceDatabase>>)
=============================================================================
