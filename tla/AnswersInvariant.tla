-------------------------- MODULE AnswersInvariant --------------------------
(***************************************************************************)
(* The inductive invariant behind AnsweredWhenIdle: every operation is in  *)
(* one place on its way to its result, and whoever waits for others counts *)
(* the ones that have yet to report.                                       *)
(***************************************************************************)
EXTENDS DatabaseInvariant

\* In s the messages of M come before those of N.
Precede(s, M, N) == \A i, j \in DOMAIN s : s[i] \in M /\ s[j] \in N => i < j

OnCard(o)     == Op[o].kind \in {"Charge", "LimitCard"}
IsSnapshot(o) == Op[o].kind = "GetDatabase"

\* At most one query and one snapshot, no replacement, and places for all results.
Alone ==
  /\ \A o, p \in Ops : IsQuery(o) /\ IsQuery(p) => o = p
  /\ \A o, p \in Ops : IsSnapshot(o) /\ IsSnapshot(p) => o = p
  /\ Unreplaced
  /\ Len(sent) < EventCapacity

-----------------------------------------------------------------------------
(* Places *)

\* The messages that carry operation o towards its result
CarrierTypes == {"Execute", "Task", "ApplyAccountLimit", "Start", "OperationCompleted",
                 "AccountQueryCompleted"}
Carriers(o) ==
  {m \in RouterMsg \cup AccountMsg \cup CardMsg : m.type \in CarrierTypes /\ m.op = o}

Carried(o) == \E y \in Actors : InMail(y) \cap Carriers(o) # {}
Awaited(o) ==
  \/ \E c \in Cards : o \in Range(card[c].tasks)
  \/ \E a \in Accounts : account[a].pending.op = o
  \/ 0 \in DOMAIN snapshots /\ operations[0] = o
Answered(o) == \E r \in Range(results) : r.op = o

\* Operation o is somewhere; when it is not one of a card, whose order OrderInv is
\* about, it is there once.
PlaceInv(o) == Carried(o) \/ Awaited(o) \/ Answered(o)
OnceInv(o) ==
  ~OnCard(o) =>
    /\ \A y \in Actors : AtMostOne(mailbox[y], Carriers(o))
    /\ \A y, z \in Actors :
         InMail(y) \cap Carriers(o) # {} /\ InMail(z) \cap Carriers(o) # {} => y = z
    /\ Carried(o) => ~Awaited(o) /\ ~Answered(o)
    /\ Awaited(o) => ~Answered(o)
    /\ \A i, j \in DOMAIN results : results[i].op = o /\ results[j].op = o => i = j

-----------------------------------------------------------------------------
(* Queries and bills *)

StartOf(o)     == {m \in AccountMsg : m.type = "Start" /\ m.op = o}
QueryTo(o)     == {[type |-> "QueryCardState", op |-> o]}
ReportOf(o, c) == {m \in AccountMsg : m.type = "CardQueryReply" /\ m.op = o /\ m.card = c}

\* The cards whose reports on query o are to come
ToReport(o, c) == InMail(c) \cap QueryTo(o) # {}
Reported(o, c) == InMail(Op[o].account) \cap ReportOf(o, c) # {}
Reporting(o)   == {c \in Cards : ToReport(o, c) \/ Reported(o, c)}

\* The account of a query learns how many cards there are before they report; it
\* waits for as many as have not.
QueryInv(o) ==
  IsQuery(o) =>
    LET a == Op[o].account
    IN  /\ \A c \in Cards :
             /\ AtMostOne(mailbox[c], QueryTo(o)) /\ AtMostOne(mailbox[a], ReportOf(o, c))
             /\ ~(ToReport(o, c) /\ Reported(o, c))
        /\ \A m \in InMail(a) \cap StartOf(o) : m.num_cards = Cardinality(Reporting(o))
        /\ \A c \in Cards : Precede(mailbox[a], StartOf(o), ReportOf(o, c))
        /\ account[a].pending.op = o =>
             account[a].pending.remaining = Cardinality(Reporting(o)) /\ Reporting(o) # {}
        /\ Reporting(o) # {} => InMail(a) \cap StartOf(o) # {} \/ account[a].pending.op = o

\* Queries are with their account and its cards.
AddressInv ==
  /\ \A a \in Accounts :
       /\ account[a].pending.op # 0 =>
            LET o == account[a].pending.op IN o \in Executed /\ IsQuery(o) /\ Op[o].account = a
       /\ \A m \in InMail(a) : m.type \in {"Start", "CardQueryReply"} => Op[m.op].account = a
  /\ \A c \in Cards : \A m \in InMail(c) : m.type = "QueryCardState" => Op[m.op].account = Owner[c]

-----------------------------------------------------------------------------
(* Snapshots *)

Requests     == {m \in AccountMsg \cup CardMsg : m.type = "GetSnapshot"}
Fragments(x) ==
  {m \in RouterMsg : \/ m.type = "AccountSnapshotCollected" /\ m.fragment.account = x
                     \/ m.type = "CardSnapshotCollected" /\ m.fragment.card = x}

\* The actors whose fragments are to come
ToCollect(x) == InMail(x) \cap Requests # {}
Collected(x) == InMail(Router) \cap Fragments(x) # {}
Missing(S)   == {x \in S : ToCollect(x) \/ Collected(x)}

SnapshotInv ==
  /\ \A x \in Accounts \cup Cards :
       /\ AtMostOne(mailbox[x], Requests) /\ AtMostOne(mailbox[Router], Fragments(x))
       /\ ~(ToCollect(x) /\ Collected(x))
  /\ 0 \in DOMAIN snapshots =>
       /\ snapshots[0].expected_accounts = Len(snapshots[0].accounts) + Cardinality(Missing(Accounts))
       /\ snapshots[0].expected_cards = Len(snapshots[0].cards) + Cardinality(Missing(Cards))
  /\ 0 \in DOMAIN snapshots <=> Missing(Accounts \cup Cards) # {}

-----------------------------------------------------------------------------
\* No event but results is in the channel.
EventsInv == Debug \notin InMail(Router) /\ Len(events) <= Len(results)

PlacesInv  == \A o \in Ops : PlaceInv(o) /\ OnceInv(o)
QueriesInv == AddressInv /\ \A o \in Ops : QueryInv(o)
AnswersInv == Alone => PlacesInv /\ QueriesInv /\ SnapshotInv /\ EventsInv
=============================================================================
