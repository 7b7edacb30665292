------------------------- MODULE DatabaseInvariant -------------------------
(***************************************************************************)
(* The inductive invariant of ActorDatabase: what the messages in the      *)
(* mailboxes are about, in which order the operations of a card pass       *)
(* through the router and the card, and what is spent meanwhile.           *)
(***************************************************************************)
EXTENDS ActorDatabase

InMail(x) == Range(mailbox[x])

\* s has at most one message of M; the messages of M in s are in the order of
\* their operations.
AtMostOne(s, M) == \A i, j \in DOMAIN s : s[i] \in M /\ s[j] \in M => i = j
Ordered(s, M)   == \A i, j \in DOMAIN s : i < j /\ s[i] \in M /\ s[j] \in M => s[i].op < s[j].op

\* The operations with an id of their own that the router has executed, and the
\* ones that a card is charged for or limited by.
Executed      == DOMAIN operations \ {0}
OfCard(o, c)  == o \in Ops /\ Op[o].kind \in {"Charge", "LimitCard"} /\ Op[o].card = c
ChargeOf(o, c) == OfCard(o, c) /\ Op[o].kind = "Charge"
IsQuery(o)     == Op[o].kind \in {"AccountQuery", "Bill"}

-----------------------------------------------------------------------------
(* Messages *)

RouterMail(m) ==
  /\ m.type = "Execute" => m.op \in Ops
  /\ m.type \in {"OperationCompleted", "AccountQueryCompleted"} => m.op \in Executed
  /\ m.type = "AccountQueryCompleted" => IsQuery(m.op)

AccountMail(a, m) ==
  /\ m.type \in {"ApplyCharge", "ApplyAccountLimit", "Start", "CardQueryReply"} =>
       m.op \in Executed
  /\ m.type = "ApplyCharge" => ChargeOf(m.op, Op[m.op].card) /\ Owner[Op[m.op].card] = a
  /\ m.type = "ApplyAccountLimit" => Op[m.op].kind = "LimitAccount"
  /\ m.type \in {"Start", "CardQueryReply"} => IsQuery(m.op)
  /\ m.type = "ReplaceState" => HasKind("ReplaceDatabase")

CardMail(c, m) ==
  /\ m.type \in {"Task", "AccountChargeReply", "QueryCardState"} => m.op \in Executed
  /\ m.type = "Task" => OfCard(m.op, c)
  /\ m.type = "QueryCardState" => IsQuery(m.op)
  /\ m.type = "AccountChargeReply" => ChargeOf(m.op, c)
  /\ m.type = "ReplaceState" => HasKind("ReplaceDatabase")

\* The router knows every operation by its id; the ones of the node have the id 0.
RouterInv ==
  /\ \A k \in Executed : operations[k] = k
  /\ 0 \in DOMAIN operations => Op[operations[0]].kind \in {"GetDatabase", "ReplaceDatabase"}
  /\ DOMAIN snapshots \subseteq DOMAIN operations

ResultsKnown ==
  \A r \in Range(results) :
    /\ r.type = "OperationResult" /\ r.op \in Ops
    /\ Op[r.op].kind \in {"Charge", "LimitCard"} => r.op \in Executed

TasksKnown == \A c \in Cards : \A o \in Range(card[c].tasks) : o \in Executed /\ OfCard(o, c)
BillsKnown == \A a \in Accounts : account[a].pending.billing => HasKind("Bill")

\* Every message, task and result is about an operation that the router has
\* executed, of the right kind and at the right actor.
MailInv ==
  /\ RouterInv /\ ResultsKnown /\ TasksKnown /\ BillsKnown
  /\ \A m \in InMail(Router) : RouterMail(m)
  /\ \A a \in Accounts : \A m \in InMail(a) : AccountMail(a, m)
  /\ \A c \in Cards : \A m \in InMail(c) : CardMail(c, m)

-----------------------------------------------------------------------------
(* Order *)

Executes    == {m \in RouterMsg : m.type = "Execute"}
Tasks       == {m \in CardMsg : m.type = "Task"}
Completions(c) == {m \in RouterMsg : m.type = "OperationCompleted" /\ OfCard(m.op, c)}

AskOf(o)     == {[type |-> "ApplyCharge", op |-> o]}
RepliesTo(o) == {[type |-> "AccountChargeReply", op |-> o, ok |-> ok] : ok \in BOOLEAN}

\* The account of c has yet to decide the charge o; card c has yet to learn of it.
Asked(c, o)   == InMail(Owner[c]) \cap AskOf(o) # {}
Replied(c, o) == InMail(c) \cap RepliesTo(o) # {}
Pending(c, o) == ChargeOf(o, c) /\ (Asked(c, o) \/ Replied(c, o))

\* The router, or the node, has the result of the operation o of card c.
Finished(c, o) ==
  /\ OfCard(o, c)
  /\ \/ \E m \in InMail(Router) : m.type = "OperationCompleted" /\ m.op = o
     \/ \E r \in Range(results) : r.op = o

\* The router has commands that are newer than everything that it has executed.
CommandsInv ==
  /\ Ordered(mailbox[Router], Executes)
  /\ \A m \in InMail(Router) \cap Executes : \A k \in Executed : k < m.op

Unreplaced == ~HasKind("ReplaceDatabase")

\* The tasks of card c are in order, in the queue and in the mailbox; what is with
\* the account or finished is older.  Without replacements of the database, card c
\* waits for every answer that is on its way.
TasksInv(c) ==
  LET tasks == card[c].tasks
  IN  /\ \A i, j \in DOMAIN tasks : i < j => tasks[i] < tasks[j]
      /\ Ordered(mailbox[c], Tasks)
      /\ \A m \in InMail(c) \cap Tasks :
           /\ \A o \in Range(tasks) : o < m.op
           /\ \A o \in Ops : Finished(c, o) => o < m.op
           /\ \A o \in Ops : Pending(c, o) => o < m.op
      /\ \A p \in Range(tasks) :
           /\ \A o \in Ops : Finished(c, o) => o < p
           /\ \A o \in Ops : Pending(c, o) => o <= p
      /\ Unreplaced => \A o \in Ops : Pending(c, o) => tasks # <<>> /\ o = Head(tasks)

\* The current task of card c is with the account or answered, once.
ServedInv(c) ==
  card[c].tasks # <<>> =>
    LET o == Head(card[c].tasks)
    IN  /\ ChargeOf(o, c)
        /\ AtMostOne(mailbox[Owner[c]], AskOf(o)) /\ AtMostOne(mailbox[c], RepliesTo(o))
        /\ Asked(c, o) <=> ~Replied(c, o)

\* The results of card c come in the order of its operations.
ResultsInv(c) ==
  /\ Ordered(mailbox[Router], Completions(c))
  /\ \A r \in Range(results) : \A m \in InMail(Router) \cap Completions(c) :
       OfCard(r.op, c) => r.op < m.op
  /\ \A i, j \in DOMAIN results :
       i < j /\ OfCard(results[i].op, c) /\ OfCard(results[j].op, c) =>
         results[i].op < results[j].op

\* A charge that card c may put to its account.
Admitted(s, o) ==
  Op[o].kind = "Charge" /\ (Op[o].offline \/ Within(s.consumed + Op[o].amount, s.limit))

-----------------------------------------------------------------------------
(* Limits and consumption *)

AllChecked == Unreplaced /\ \A o \in Ops : Op[o].kind = "Charge" => ~Op[o].offline

\* The limits hold, and leave room for the charge that the card waits for.
LimitsInv ==
  AllChecked =>
    /\ \A a \in Accounts : Within(account[a].consumed, account[a].limit)
    /\ \A c \in Cards :
         /\ Within(card[c].consumed, card[c].limit)
         /\ card[c].tasks # <<>> =>
              Within(card[c].consumed + Op[Head(card[c].tasks)].amount, card[c].limit)

OrderInv == CommandsInv /\ \A c \in Cards : TasksInv(c) /\ ServedInv(c) /\ ResultsInv(c)

DInv == /\ TypeOK /\ MailInv /\ OrderInv /\ LimitsInv /\ AccountIsSumOfCards

-----------------------------------------------------------------------------
(* Outcomes: what the refinement of Ledger needs *)

\* What a message to y tells of its operation.  It is undecided on its way to the
\* actor that decides it, for a limit the account itself; the reply to a charge tells
\* what the account has decided.
Tells(y, m) ==
  /\ m.type \in {"Execute", "Task", "ApplyCharge", "ApplyAccountLimit"} => outcome[m.op] = "none"
  /\ m.type = "ApplyAccountLimit" => y = Op[m.op].account
  /\ m.type = "AccountChargeReply" => outcome[m.op] = Verdict(m.ok)

LimitTo(o) == {[type |-> "ApplyAccountLimit", op |-> o]}

\* The queue of card c is undecided, and there is room for the charge it waits for.
QueueInv(c) ==
  LET tasks == card[c].tasks
  IN  /\ \A i \in DOMAIN tasks : i > 1 => outcome[tasks[i]] = "none"
      /\ tasks # <<>> => Admitted(card[c], Head(tasks))

\* Without bills and replacements.
Simple == ~HasKind("Bill") /\ Unreplaced

OutcomesKnown ==
  /\ \A y \in Actors : \A m \in InMail(y) : Tells(y, m)
  /\ \A a \in Accounts : \A o \in Ops : AtMostOne(mailbox[a], LimitTo(o))
  /\ \A c \in Cards : QueueInv(c)
OutcomesInv == Simple => OutcomesKnown
=============================================================================
