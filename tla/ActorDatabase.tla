--------------------------- MODULE ActorDatabase ---------------------------
(***************************************************************************)
(* The database of a node: the ActorRouter, one AccountActor per account   *)
(* and one CardActor per card, as an Actix system in a thread of its own.  *)
(* Every actor handles the messages of its mailbox in the order of their   *)
(* arrival, one at a time; the actors interleave.  The node sends commands *)
(* to the router (Database::send) and takes events from a bounded channel  *)
(* (Database::recv).  Messages name the operation they are about: what     *)
(* they carry is Op[o], the o-th operation sent.                           *)
(***************************************************************************)
EXTENDS Operations, FiniteSets, SequencesExt, FiniteSetsExt

CONSTANTS Router,          \* the router, as the owner of a mailbox
          EventCapacity    \* the capacity of the channel of events, 128

ASSUME CapacityAssumption == EventCapacity \in Nat \ {0}
ASSUME ActorsAssumption ==
  /\ IsFiniteSet(Accounts) /\ IsFiniteSet(Cards) /\ Accounts \cap Cards = {}
  /\ Router \notin Accounts \cup Cards

VARIABLES
  \* Database
  sent,         \* the operations sent to the router, in this order
  events,       \* the channel of events to the node
  \* struct ActorRouter
  accounts,     \* the accounts that have an actor
  cards,        \* the cards that have an actor
  operations,   \* op_id -> the operation that was sent last under this op_id
  snapshots,    \* pending_db_snapshots: op_id -> the fragments and their numbers
  \* struct AccountActor, struct CardActor
  account,      \* account[a]: limit, consumed, pending_query
  card,         \* card[c]: limit, consumed, and tasks: current_task and the queue
  mailbox,      \* mailbox[x]: the messages that actor x has yet to handle
  \* history variables: no action reads them
  outcome,      \* outcome[o]: "ok" or "failed" once it is decided
  results,      \* the results that were put into the channel of events
  known         \* known[o]: the charges whose success was known when o was sent

routerVars == <<accounts, cards, operations, snapshots>>
history    == <<outcome, results, known>>
vars == <<sent, events, routerVars, account, card, mailbox, history>>

-----------------------------------------------------------------------------
Op  == sent
Ops == 1..Len(sent)
Actors == {Router} \cup Accounts \cup Cards

\* The id an operation is sent under: 0 for the ones the node makes itself.
OpId(o) == IF Op[o].kind \in {"GetDatabase", "ReplaceDatabase"} THEN 0 ELSE o

NoQuery == [op |-> 0, remaining |-> 0, spent |-> <<>>, billing |-> FALSE]
EmptyMap == [k \in {} |-> k]
Insert(f, k, v) == [j \in DOMAIN f \cup {k} |-> IF j = k THEN v ELSE f[j]]

\* Faulty variant: a fragment overwrites the previous ones.
LastOnly(s) == IF s = <<>> THEN 0 ELSE s[Len(s)].consumed

\* Total of a sequence of fragments with a field consumed.
Total(s) == SumFunction([i \in DOMAIN s |-> s[i].consumed])

\* The next message of x, and the mailboxes without it and with the messages
\* new[y] for every y in the domain of new.
HasMail(x, type) == mailbox[x] # <<>> /\ Head(mailbox[x]).type = type
Deliver(x, new) ==
  mailbox' = [y \in Actors |->
                LET rest == IF y = x THEN Tail(mailbox[y]) ELSE mailbox[y]
                IN  IF y \in DOMAIN new THEN rest \o new[y] ELSE rest]
Nothing  == [y \in {} |-> <<>>]
To(y, m) == [z \in {y} |-> <<m>>]
OneEach(S, m) == [y \in S |-> <<m>>]

\* Faulty variant: the capacity is off by one.
HasRoomForOneMore == Len(events) <= EventCapacity

\* ActorRouter::emit: try_send drops the event when the channel is full.
HasRoom   == Len(events) < EventCapacity
Emit(ev)  == events' = IF HasRoom THEN Append(events, ev) ELSE events
Debug     == [type |-> "Debug"]
EmitDebug == Emit(Debug) /\ UNCHANGED results
EmitResult(id, ok, value) ==
  LET ev == [type |-> "OperationResult", op |-> operations'[id], ok |-> ok, value |-> value]
  IN  /\ Emit(ev)
      /\ results' = IF HasRoom THEN Append(results, ev) ELSE results

\* The messages: RouterCmd and RouterInternalMsg, AccountMsg, CardMsg with
\* AccountChargeReply, and ActorEvent.  op is the operation that the message is about.
Spendings == Seq([card : Cards, consumed : Nat])
Values    == {<<>>} \cup [total_spent : Nat, per_card_spent : Spendings]
               \cup [accounts : Seq(AccountSnapshots), cards : Seq(CardSnapshots)]
RouterMsg ==
  [type : {"Execute"}, op : Nat]
    \cup [type : {"OperationCompleted", "AccountQueryCompleted"}, op : Nat, ok : BOOLEAN,
          value : Values]
    \cup [type : {"AccountSnapshotCollected"}, fragment : AccountSnapshots]
    \cup [type : {"CardSnapshotCollected"}, fragment : CardSnapshots]
    \cup {Debug}
StateMsg   == [type : {"GetSnapshot"}, op : Nat]
                \cup [type : {"ReplaceState"}, limit : Limits, consumed : Nat]
AccountMsg == [type : {"ApplyCharge", "ApplyAccountLimit"}, op : Nat]
                \cup [type : {"Start"}, op : Nat, num_cards : Nat]
                \cup [type : {"CardQueryReply"}, op : Nat, card : Cards, consumed : Nat]
                \cup StateMsg
CardMsg    == [type : {"Task", "QueryCardState"}, op : Nat]
                \cup [type : {"AccountChargeReply"}, op : Nat, ok : BOOLEAN]
                \cup StateMsg
ActorEvent == [type : {"OperationResult"}, op : Nat, ok : BOOLEAN, value : Values]
                \cup {Debug}

-----------------------------------------------------------------------------
Init ==
  /\ sent = <<>>
  /\ events = <<>>
  /\ accounts = {} /\ cards = {}
  /\ operations = EmptyMap
  /\ snapshots = EmptyMap
  /\ account = [a \in Accounts |-> [limit |-> NoLimit, consumed |-> 0, pending |-> NoQuery]]
  /\ card = [c \in Cards |-> [limit |-> NoLimit, consumed |-> 0, tasks |-> <<>>]]
  /\ mailbox = [x \in Actors |-> <<>>]
  /\ outcome = <<>>
  /\ results = <<>>
  /\ known = <<>>

\* Database::send
Send ==
  /\ \E op \in NextOperations(sent) : sent' = Append(sent, op)
  /\ mailbox' = [mailbox EXCEPT ![Router] =
                   Append(@, [type |-> "Execute", op |-> Len(sent) + 1])]
  /\ outcome' = Append(outcome, "none")
  /\ known' = Append(known, {o \in Ops : \E i \in 1..Len(results) :
                                           results[i].op = o /\ results[i].ok})
  /\ UNCHANGED <<events, routerVars, account, card, results>>

\* Database::recv
Recv ==
  /\ events # <<>>
  /\ events' = Tail(events)
  /\ UNCHANGED <<sent, routerVars, account, card, mailbox, history>>

-----------------------------------------------------------------------------
(* The router, Handler<RouterCmd>: every command is remembered under its id. *)

Execute(o, kinds) ==
  /\ HasMail(Router, "Execute")
  /\ o = Head(mailbox[Router]).op
  /\ Op[o].kind \in kinds
  /\ operations' = Insert(operations, OpId(o), o)

\* Charge and LimitCard go to the card, which is created, with its account, when
\* it is not there.
ExecuteOnCard(o) ==
  /\ Execute(o, {"Charge", "LimitCard"})
  /\ cards' = cards \cup {Op[o].card}
  /\ accounts' = accounts \cup {Owner[Op[o].card]}
  /\ Deliver(Router, To(Op[o].card, [type |-> "Task", op |-> o]))
  /\ UNCHANGED <<sent, events, snapshots, account, card, history>>

ExecuteLimitAccount(o) ==
  /\ Execute(o, {"LimitAccount"})
  /\ accounts' = accounts \cup {Op[o].account}
  /\ Deliver(Router, To(Op[o].account, [type |-> "ApplyAccountLimit", op |-> o]))
  /\ UNCHANGED <<sent, events, cards, snapshots, account, card, history>>

\* AccountQuery and Bill: the account is told how many cards to expect, every
\* card of it is asked for its state.
ExecuteQuery(o) ==
  LET a    == Op[o].account
      mine == {c \in cards : Owner[c] = a}
  IN  /\ Execute(o, {"AccountQuery", "Bill"})
      /\ accounts' = accounts \cup {a}
      /\ Deliver(Router,
           [y \in {a} \cup mine |->
              IF y = a THEN <<[type |-> "Start", op |-> o, num_cards |-> Cardinality(mine)]>>
                       ELSE <<[type |-> "QueryCardState", op |-> o]>>])
      /\ UNCHANGED <<sent, events, cards, snapshots, account, card, history>>

\* GetDatabase: every actor is asked for its state; an empty database answers
\* at once.  A snapshot that is pending under the same id is replaced.
ExecuteGetDatabase(o) ==
  /\ Execute(o, {"GetDatabase"})
  /\ \/ /\ accounts \cup cards = {}
        /\ EmitResult(0, TRUE, [accounts |-> <<>>, cards |-> <<>>])
        /\ Deliver(Router, Nothing)
        /\ UNCHANGED snapshots
     \/ /\ accounts \cup cards # {}
        /\ snapshots' = Insert(snapshots, 0,
             [expected_accounts |-> Cardinality(accounts), accounts |-> <<>>,
              expected_cards |-> Cardinality(cards), cards |-> <<>>])
        /\ Deliver(Router, OneEach(accounts \cup cards, [type |-> "GetSnapshot", op |-> o]))
        /\ UNCHANGED <<events, results>>
  /\ UNCHANGED <<sent, accounts, cards, account, card, outcome, known>>

\* ReplaceDatabase: the state of every account and card of the snapshot is sent
\* to its actor; the result does not wait for them.
ExecuteReplaceDatabase(o) ==
  /\ Execute(o, {"ReplaceDatabase"})
  /\ accounts' = accounts \cup {s.account : s \in Op[o].accounts}
                          \cup {Owner[s.card] : s \in Op[o].cards}
  /\ cards' = cards \cup {s.card : s \in Op[o].cards}
  /\ Deliver(Router,
       [y \in {s.account : s \in Op[o].accounts} \cup {s.card : s \in Op[o].cards} |->
          LET s == IF y \in Accounts THEN CHOOSE s \in Op[o].accounts : s.account = y
                                     ELSE CHOOSE s \in Op[o].cards : s.card = y
          IN  <<[type |-> "ReplaceState", limit |-> s.limit, consumed |-> s.consumed]>>])
  /\ EmitResult(0, TRUE, <<>>)
  /\ UNCHANGED <<sent, snapshots, account, card, outcome, known>>

-----------------------------------------------------------------------------
(* The router, Handler<RouterInternalMsg>. *)

\* OperationCompleted and AccountQueryCompleted: the operation is still in
\* operations, it is never removed.
RouterCompleted ==
  \E type \in {"OperationCompleted", "AccountQueryCompleted"} :
    /\ HasMail(Router, type)
    /\ LET m == Head(mailbox[Router])
       IN  /\ UNCHANGED operations
           /\ EmitResult(m.op, m.ok, m.value)
    /\ Deliver(Router, Nothing)
    /\ UNCHANGED <<sent, accounts, cards, snapshots, account, card, outcome, known>>

RouterDebug ==
  /\ HasMail(Router, "Debug")
  /\ EmitDebug
  /\ Deliver(Router, Nothing)
  /\ UNCHANGED <<sent, routerVars, account, card, outcome, known>>

\* AccountSnapshotCollected and CardSnapshotCollected, and
\* try_complete_db_snapshot: done when the numbers of fragments are as expected.
AddFragment(p, m) ==
  IF m.type = "AccountSnapshotCollected"
  THEN [p EXCEPT !.accounts = Append(@, m.fragment)]
  ELSE [p EXCEPT !.cards = Append(@, m.fragment)]

\* Faulty variant: only the accounts are counted.
AccountsDone(p) == Len(p.accounts) = p.expected_accounts

SnapshotDone(p) == /\ Len(p.accounts) = p.expected_accounts
                   /\ Len(p.cards) = p.expected_cards

RouterSnapshot ==
  \E type \in {"AccountSnapshotCollected", "CardSnapshotCollected"} :
    /\ HasMail(Router, type)
    /\ LET m == Head(mailbox[Router])
       IN  \/ /\ 0 \notin DOMAIN snapshots
              /\ EmitDebug
              /\ UNCHANGED <<snapshots, operations>>
           \/ /\ 0 \in DOMAIN snapshots
              /\ ~SnapshotDone(AddFragment(snapshots[0], m))
              /\ snapshots' = [snapshots EXCEPT ![0] = AddFragment(@, m)]
              /\ UNCHANGED <<operations, events, results>>
           \/ /\ 0 \in DOMAIN snapshots
              /\ SnapshotDone(AddFragment(snapshots[0], m))
              /\ snapshots' = Restrict(snapshots, DOMAIN snapshots \ {0})
              /\ UNCHANGED operations
              /\ LET p == AddFragment(snapshots[0], m)
                 IN  EmitResult(0, TRUE, [accounts |-> p.accounts, cards |-> p.cards])
    /\ Deliver(Router, Nothing)
    /\ UNCHANGED <<sent, accounts, cards, account, card, outcome, known>>

-----------------------------------------------------------------------------
(* An account, Handler<AccountMsg>. *)

Verdict(ok) == IF ok THEN "ok" ELSE "failed"
Completed(o, ok)   == [type |-> "OperationCompleted", op |-> o, ok |-> ok, value |-> <<>>]
QueryDone(o, spent, total) ==
  [type |-> "AccountQueryCompleted", op |-> o, ok |-> TRUE,
   value |-> [total_spent |-> total, per_card_spent |-> spent]]

\* Faulty variants: the amount is not counted; an offline charge is checked too.
ChargeAllowedIgnoringAmount(a, o) ==
  Op[o].offline \/ Within(account[a].consumed, account[a].limit)
ChargeAllowedOnlineOnly(a, o) ==
  Within(account[a].consumed + Op[o].amount, account[a].limit)

\* ApplyChargeFromCard: checked and applied in one step, unless it comes from an
\* offline station and is not checked.
ChargeAllowed(a, o) ==
  \/ Op[o].offline
  \/ Within(account[a].consumed + Op[o].amount, account[a].limit)

AccountCharge(a) ==
  /\ HasMail(a, "ApplyCharge")
  /\ LET o  == Head(mailbox[a]).op
         ok == ChargeAllowed(a, o)
     IN  /\ account' = IF ok THEN [account EXCEPT ![a].consumed = @ + Op[o].amount]
                             ELSE account
         /\ outcome' = [outcome EXCEPT ![o] = Verdict(ok)]
         /\ Deliver(a, To(Op[o].card, [type |-> "AccountChargeReply", op |-> o, ok |-> ok]))
  /\ UNCHANGED <<sent, events, routerVars, card, results, known>>

AccountLimit(a) ==
  /\ HasMail(a, "ApplyAccountLimit")
  /\ LET o  == Head(mailbox[a]).op
         ok == Within(account[a].consumed, Op[o].limit)
     IN  /\ account' = IF ok THEN [account EXCEPT ![a].limit = Op[o].limit] ELSE account
         /\ outcome' = [outcome EXCEPT ![o] = Verdict(ok)]
         /\ Deliver(a, To(Router, Completed(o, ok)))
  /\ UNCHANGED <<sent, events, routerVars, card, results, known>>

\* StartAccountQuery and StartAccountBill.  Without cards the answer is there at
\* once; otherwise a query that is pending is replaced.
AccountStart(a) ==
  /\ HasMail(a, "Start")
  /\ LET m       == Head(mailbox[a])
         billing == Op[m.op].kind = "Bill"
     IN  \/ /\ m.num_cards = 0
            /\ account' = IF billing THEN [account EXCEPT ![a].consumed = 0] ELSE account
            /\ Deliver(a, To(Router, QueryDone(m.op, <<>>, account[a].consumed)))
         \/ /\ m.num_cards # 0
            /\ account' = [account EXCEPT ![a].pending =
                 [op |-> m.op, remaining |-> m.num_cards, spent |-> <<>>, billing |-> billing]]
            /\ Deliver(a, Nothing)
  /\ UNCHANGED <<sent, events, routerVars, card, history>>

\* CardQueryReply: the last one completes the query; a bill resets the account.
\* A reply to another query than the pending one is dropped.
AccountQueryReply(a) ==
  /\ HasMail(a, "CardQueryReply")
  /\ LET m == Head(mailbox[a])
         p == account[a].pending
         spent == Append(p.spent, [card |-> m.card, consumed |-> m.consumed])
     IN  \/ /\ p.op # m.op
            /\ Deliver(a, To(Router, Debug))
            /\ UNCHANGED account
         \/ /\ p.op = m.op /\ p.remaining > 1
            /\ account' = [account EXCEPT ![a].pending =
                 [op |-> p.op, remaining |-> p.remaining - 1, spent |-> spent,
                  billing |-> p.billing]]
            /\ Deliver(a, Nothing)
         \/ /\ p.op = m.op /\ p.remaining <= 1
            /\ account' = [account EXCEPT ![a] =
                 [limit |-> @.limit, consumed |-> IF p.billing THEN 0 ELSE @.consumed,
                  pending |-> NoQuery]]
            /\ Deliver(a, To(Router, QueryDone(m.op, spent, Total(spent))))
  /\ UNCHANGED <<sent, events, routerVars, card, history>>

AccountSnapshot(a) ==
  /\ HasMail(a, "GetSnapshot")
  /\ Deliver(a, To(Router, [type |-> "AccountSnapshotCollected",
                            fragment |-> [account |-> a, limit |-> account[a].limit,
                                          consumed |-> account[a].consumed]]))
  /\ UNCHANGED <<sent, events, routerVars, account, card, history>>

\* ReplaceState: a pending query stays.
AccountReplace(a) ==
  /\ HasMail(a, "ReplaceState")
  /\ LET m == Head(mailbox[a])
     IN  account' = [account EXCEPT ![a] =
                       [limit |-> m.limit, consumed |-> m.consumed, pending |-> @.pending]]
  /\ Deliver(a, Nothing)
  /\ UNCHANGED <<sent, events, routerVars, card, history>>

-----------------------------------------------------------------------------
(* A card, Handler<CardMsg> and Handler<AccountChargeReply>. *)

\* The state of a card while it runs tasks, with what it sends: the charges it
\* asks the account for and the operations that are decided.
Run(c, tasks) == [limit |-> card[c].limit, consumed |-> card[c].consumed,
                  tasks |-> tasks, asks |-> <<>>, done |-> <<>>]

\* Faulty variant: a task that finishes at once remains the current task.
OfferAndStay(s, o) ==
  LET t == Op[o]
      admitted == t.kind = "Charge" /\ (t.offline \/ Within(s.consumed + t.amount, s.limit))
  IN  IF s.tasks # <<>> THEN [s EXCEPT !.tasks = Append(@, o)]
      ELSE IF admitted THEN [s EXCEPT !.tasks = <<o>>, !.asks = Append(@, o)]
      ELSE [s EXCEPT !.tasks = <<o>>, !.done = Append(@, [op |-> o, ok |-> FALSE])]

\* A busy card queues the task.  An idle one starts it (start_current_task): a
\* charge within the limit of the card keeps it busy until the account replies,
\* everything else finishes at once (finish_current_task).
Offer(s, o) ==
  LET t == Op[o]
      charge    == t.kind = "Charge"
      admitted  == charge /\ (t.offline \/ Within(s.consumed + t.amount, s.limit))
      newLimit  == ~charge /\ Within(s.consumed, t.limit)
  IN  IF s.tasks # <<>> THEN [s EXCEPT !.tasks = Append(@, o)]
      ELSE IF admitted THEN [s EXCEPT !.tasks = <<o>>, !.asks = Append(@, o)]
      ELSE [s EXCEPT !.limit = IF newLimit THEN t.limit ELSE @,
                     !.done = Append(@, [op |-> o, ok |-> newLimit])]

\* The tasks of queue w, one after the other: finish_current_task starts the next one.
OfferAll(s, w) ==
  LET run[i \in 0..Len(w)] == IF i = 0 THEN s ELSE Offer(run[i - 1], w[i])
  IN  run[Len(w)]

\* The card c, at its next message, becomes s and sends what s has collected.
Becomes(c, s) ==
  /\ card' = [card EXCEPT ![c] = [limit |-> s.limit, consumed |-> s.consumed, tasks |-> s.tasks]]
  /\ Deliver(c, [y \in {Router, Owner[c]} |->
       IF y = Router THEN [i \in 1..Len(s.done) |-> Completed(s.done[i].op, s.done[i].ok)]
                     ELSE [i \in 1..Len(s.asks) |-> [type |-> "ApplyCharge", op |-> s.asks[i]]]])

\* The operations that the card itself decides.
Decides(c, s) ==
  outcome' = [o \in Ops |->
    IF \E i \in 1..Len(s.done) : s.done[i].op = o /\ outcome[o] = "none"
    THEN Verdict(\E i \in 1..Len(s.done) : s.done[i].op = o /\ s.done[i].ok)
    ELSE outcome[o]]

\* ExecuteCharge and ExecuteLimitChange
CardTask(c) ==
  /\ HasMail(c, "Task")
  /\ LET s == Offer(Run(c, card[c].tasks), Head(mailbox[c]).op)
     IN  Becomes(c, s) /\ Decides(c, s)
  /\ UNCHANGED <<sent, events, routerVars, account, results, known>>

\* Faulty variants: a rejected charge is consumed too; the queue is lost, or is a
\* stack.
ConsumedAnyway(c, m) == card[c].consumed + Op[m.op].amount
NoneWaiting(c)       == <<>>
LastFirst(c)         == Reverse(Tail(card[c].tasks))

\* What card c has consumed after the reply m, and the tasks in its queue.
ConsumedAfter(c, m) == IF m.ok THEN card[c].consumed + Op[m.op].amount ELSE card[c].consumed
Waiting(c)          == Tail(card[c].tasks)

\* AccountChargeReply to the current charge: it finishes and the queue is run
\* until a charge waits for the account again.  Another reply is dropped.
CardReply(c) ==
  /\ HasMail(c, "AccountChargeReply")
  /\ LET m == Head(mailbox[c])
         awaited == card[c].tasks # <<>> /\ Head(card[c].tasks) = m.op
     IN  \/ /\ ~awaited
            /\ Deliver(c, To(Router, Debug))
            /\ UNCHANGED <<card, outcome>>
         \/ /\ awaited
            /\ LET idle == [Run(c, <<>>) EXCEPT
                              !.consumed = ConsumedAfter(c, m),
                              !.done = <<[op |-> m.op, ok |-> m.ok]>>]
                   s == OfferAll(idle, Waiting(c))
               IN  Becomes(c, s) /\ Decides(c, s)
  /\ UNCHANGED <<sent, events, routerVars, account, results, known>>

\* Faulty variant: a bill does not reset the card.
CardQueryOnly(c) ==
  /\ HasMail(c, "QueryCardState")
  /\ Deliver(c, To(Owner[c], [type |-> "CardQueryReply", op |-> Head(mailbox[c]).op,
                              card |-> c, consumed |-> card[c].consumed]))
  /\ UNCHANGED <<sent, events, routerVars, account, card, history>>

\* QueryCardState: the card reports what it has consumed, whatever its tasks; a
\* bill resets it.
CardQuery(c) ==
  /\ HasMail(c, "QueryCardState")
  /\ LET o == Head(mailbox[c]).op
     IN  /\ Deliver(c, To(Owner[c], [type |-> "CardQueryReply", op |-> o, card |-> c,
                                     consumed |-> card[c].consumed]))
         /\ card' = IF Op[o].kind = "Bill" THEN [card EXCEPT ![c].consumed = 0] ELSE card
  /\ UNCHANGED <<sent, events, routerVars, account, history>>

CardSnapshot(c) ==
  /\ HasMail(c, "GetSnapshot")
  /\ Deliver(c, To(Router, [type |-> "CardSnapshotCollected",
                            fragment |-> [card |-> c, limit |-> card[c].limit,
                                          consumed |-> card[c].consumed]]))
  /\ UNCHANGED <<sent, events, routerVars, account, card, history>>

\* ReplaceState: the current task and the queue are discarded.
CardReplace(c) ==
  /\ HasMail(c, "ReplaceState")
  /\ LET m == Head(mailbox[c])
     IN  card' = [card EXCEPT ![c] = [limit |-> m.limit, consumed |-> m.consumed, tasks |-> <<>>]]
  /\ Deliver(c, Nothing)
  /\ UNCHANGED <<sent, events, routerVars, account, history>>

-----------------------------------------------------------------------------
RouterStep ==
  \/ \E o \in Ops : \/ ExecuteOnCard(o) \/ ExecuteLimitAccount(o) \/ ExecuteQuery(o)
                    \/ ExecuteGetDatabase(o) \/ ExecuteReplaceDatabase(o)
  \/ RouterCompleted \/ RouterDebug \/ RouterSnapshot

AccountStep(a) == \/ AccountCharge(a) \/ AccountLimit(a) \/ AccountStart(a)
                  \/ AccountQueryReply(a) \/ AccountSnapshot(a) \/ AccountReplace(a)

CardStep(c) == \/ CardTask(c) \/ CardReply(c) \/ CardQuery(c)
               \/ CardSnapshot(c) \/ CardReplace(c)

Next == \/ Send
        \/ Recv
        \/ RouterStep
        \/ \E a \in Accounts : AccountStep(a)
        \/ \E c \in Cards : CardStep(c)

Spec == Init /\ [][Next]_vars

-----------------------------------------------------------------------------
(* Properties *)

\* Types of the state.
TypeOK ==
  /\ sent \in Seq(Operation)
  /\ events \in Seq(ActorEvent) /\ Len(events) <= EventCapacity
  /\ accounts \subseteq Accounts /\ cards \subseteq Cards
  /\ DOMAIN operations \subseteq Ops \cup {0}
  /\ \A k \in DOMAIN operations : operations[k] \in Ops
  /\ DOMAIN snapshots \subseteq {0}
  /\ \A k \in DOMAIN snapshots :
       snapshots[k] \in [expected_accounts : Nat, accounts : Seq(AccountSnapshots),
                         expected_cards : Nat, cards : Seq(CardSnapshots)]
  /\ account \in [Accounts -> [limit : Limits, consumed : Nat,
                               pending : [op : Nat, remaining : Nat, spent : Spendings,
                                          billing : BOOLEAN]]]
  /\ card \in [Cards -> [limit : Limits, consumed : Nat, tasks : Seq(Nat)]]
  /\ DOMAIN mailbox = Actors
  /\ mailbox[Router] \in Seq(RouterMsg)
  /\ \A a \in Accounts : mailbox[a] \in Seq(AccountMsg)
  /\ \A c \in Cards : mailbox[c] \in Seq(CardMsg)
  /\ outcome \in [Ops -> {"none", "ok", "failed"}]
  /\ results \in Seq(ActorEvent)
  /\ known \in [Ops -> SUBSET Ops]

\* What card c has spent: what it has consumed, and the charges that the account
\* has accepted and whose reply the card has yet to handle.
Accepted(c) == {i \in DOMAIN mailbox[c] :
                  mailbox[c][i].type = "AccountChargeReply" /\ mailbox[c][i].ok}
Spent(c) ==
  card[c].consumed + SumFunction([i \in Accepted(c) |-> Op[mailbox[c][i].op].amount])

CardsOf(a) == {c \in Cards : Owner[c] = a}
HasKind(kind) == \E o \in Ops : Op[o].kind = kind

\* The consumption of an account is the sum of what its cards have spent, at
\* every instant and for every interleaving, as long as there is no bill and no
\* replacement of the database (account.rs: "Total consumption across all cards
\* in this account").
AccountIsSumOfCards ==
  ~HasKind("Bill") /\ ~HasKind("ReplaceDatabase") =>
    \A a \in Accounts : account[a].consumed = SumFunction([c \in CardsOf(a) |-> Spent(c)])

\* Neither a card nor an account is over its limit, although the two are checked
\* by different actors, at different times, while the limits change (charges of
\* offline stations and replacements of the database apart: they are not checked).
WithinLimits ==
  (\A o \in Ops : Op[o].kind = "Charge" => ~Op[o].offline) /\ ~HasKind("ReplaceDatabase") =>
    /\ \A a \in Accounts : Within(account[a].consumed, account[a].limit)
    /\ \A c \in Cards : Within(Spent(c), card[c].limit)

\* A card that is busy waits for an answer that is on its way: its first task is
\* with the account, or the account's reply is in its mailbox, exactly once.
BusyCardIsServed ==
  \A c \in Cards : card[c].tasks # <<>> =>
    LET o    == Head(card[c].tasks)
        asks == {i \in 1..Len(mailbox[Owner[c]]) :
                   LET m == mailbox[Owner[c]][i] IN m.type = "ApplyCharge" /\ m.op = o}
        replies == {i \in 1..Len(mailbox[c]) :
                   LET m == mailbox[c][i] IN m.type = "AccountChargeReply" /\ m.op = o}
    IN  Cardinality(asks) + Cardinality(replies) = 1

\* The results of the operations of one card come in the order in which they were
\* sent, although charges wait for the account and limits do not (current_task and
\* queue of CardActor).  Replication relies on it: Completable.
CardOrder ==
  \A i, j \in 1..Len(results) :
    LET p == Op[results[i].op]
        q == Op[results[j].op]
    IN  /\ i < j
        /\ p.kind \in {"Charge", "LimitCard"} /\ q.kind \in {"Charge", "LimitCard"}
        /\ p.card = q.card
        => results[i].op < results[j].op

\* The answer to an AccountQuery contains every charge whose success was known
\* when the query was sent and no charge that has not been accepted, although
\* the cards report at different times (as long as nothing is billed or replaced).
QueryIsCurrent ==
  ~HasKind("Bill") /\ ~HasKind("ReplaceDatabase") =>
    \A i \in 1..Len(results) : Op[results[i].op].kind = "AccountQuery" =>
      LET q == results[i].op
          charges  == {o \in Ops : Op[o].kind = "Charge" /\ Owner[Op[o].card] = Op[q].account}
          Amount(o) == Op[o].amount
      IN  /\ results[i].value.total_spent >= MapThenSumSet(Amount, charges \cap known[q])
          /\ results[i].value.total_spent <=
               MapThenSumSet(Amount, {o \in charges : outcome[o] = "ok"})

\* The actors implement the ledger: every charge and every change of a limit
\* takes effect at one instant, on the card and on its account together.
TheLedger ==
  [accountLimit    |-> [a \in Accounts |-> account[a].limit],
   accountConsumed |-> [a \in Accounts |-> account[a].consumed],
   cardLimit       |-> [c \in Cards |-> card[c].limit],
   cardConsumed    |-> [c \in Cards |-> Spent(c)],
   outcome         |-> outcome]
L == INSTANCE Ledger WITH ledger <- TheLedger
ImplementsLedger == L!Spec

\* When the actors have nothing left to do, every operation sent has its result:
\* no card, account or snapshot waits for an answer that does not come.  Two
\* queries of an account, or two snapshots, at a time replace one another, a
\* replacement discards the tasks of its cards, and a full channel drops results.
AnsweredWhenIdle ==
  /\ \A x \in Actors : mailbox[x] = <<>>
  /\ Cardinality({o \in Ops : Op[o].kind \in {"AccountQuery", "Bill"}}) <= 1
  /\ Cardinality({o \in Ops : Op[o].kind = "GetDatabase"}) <= 1
  /\ ~HasKind("ReplaceDatabase")
  /\ Len(sent) < EventCapacity
  => \A o \in Ops : \E i \in 1..Len(results) : results[i].op = o

\* When nothing is going on, every accepted charge is in exactly one bill or is
\* still to be billed, on its card (actor_router.rs, Bill: "Cards report and
\* reset themselves").  A query that runs at the same time as a bill replaces it
\* in its account, and the charges it has collected are lost.
BilledOnce ==
  LET bills == {i \in 1..Len(results) : Op[results[i].op].kind = "Bill"}
      accepted == {o \in Ops : Op[o].kind = "Charge" /\ outcome[o] = "ok"}
  IN  /\ \A x \in Actors : mailbox[x] = <<>>
      /\ Cardinality({o \in Ops : Op[o].kind \in {"AccountQuery", "Bill"}}) <= 1
      /\ ~HasKind("ReplaceDatabase")
      => MapThenSumSet(LAMBDA i : results[i].value.total_spent, bills)
           + MapThenSumSet(LAMBDA c : card[c].consumed, Cards)
           = MapThenSumSet(LAMBDA o : Op[o].amount, accepted)

\* The snapshot for a node that joins shows each card once, with every charge
\* whose success was known when it was asked for, although the actors report one
\* by one and work on (try_complete_db_snapshot: "All snapshots are present").
\* Two snapshots at a time share the id 0 and mix their fragments.
SnapshotIsCurrent ==
  LET asked == {o \in Ops : Op[o].kind = "GetDatabase"}
  IN  Cardinality(asked) <= 1 /\ ~HasKind("Bill") /\ ~HasKind("ReplaceDatabase") =>
        \A i \in 1..Len(results) : results[i].op \in asked =>
          LET v == results[i].value.cards
          IN  \A c \in Cards :
                LET charges == {o \in known[results[i].op] :
                                  Op[o].kind = "Charge" /\ Op[o].card = c}
                    mine == SelectSeq(v, LAMBDA f : f.card = c)
                IN  /\ Len(mine) <= 1
                    /\ Total(mine) >= MapThenSumSet(LAMBDA o : Op[o].amount, charges)
=============================================================================
