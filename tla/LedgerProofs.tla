---------------------------- MODULE LedgerProofs ----------------------------
(***************************************************************************)
(* The actors implement the ledger, as long as nothing is billed or        *)
(* replaced: what the messages tell of the outcomes is inductive, and      *)
(* every step is a step of Ledger or leaves the ledger as it is. And every *)
(* operation gets its result: until then it is in one place on its way,    *)
(* and who waits for others counts the ones that have yet to report.       *)
(***************************************************************************)
EXTENDS DatabaseProofs, AnswersInvariant

-----------------------------------------------------------------------------
(* Outcomes *)

\* The messages that tell something of the outcome of their operation.
Telling == {"Execute", "Task", "ApplyCharge", "ApplyAccountLimit", "AccountChargeReply"}
AllTell == \A y \in Actors : \A m \in InMail(y) : Tells(y, m)
OneLimit == \A a \in Accounts : \A o \in Ops : AtMostOne(mailbox[a], LimitTo(o))

\* What is known of the outcomes, part by part.
LEMMA OutcomesParts ==
  OutcomesKnown <=> AllTell /\ OneLimit /\ \A c \in Cards : QueueInv(c)
BY DEF OutcomesKnown, AllTell, OneLimit

\* A message that tells something is about an operation that was sent.
LEMMA TellingOps ==
  ASSUME AllOK, NEW y \in Actors, NEW m \in InMail(y), m.type \in Telling
  PROVE  /\ m.op \in Ops
         /\ m.type = "Execute" <=> y = Router
         /\ m.type # "Execute" => m.op \in Executed
         /\ m.type = "Task" => y \in Cards /\ OfCard(m.op, y) /\ m \in Tasks
         /\ m.type = "ApplyCharge" =>
              /\ ChargeOf(m.op, Op[m.op].card) /\ Owner[Op[m.op].card] = y /\ m \in AskOf(m.op)
         /\ m.type = "ApplyAccountLimit" =>
              y \in Accounts /\ Op[m.op].kind = "LimitAccount" /\ m \in LimitTo(m.op)
         /\ m.type = "AccountChargeReply" =>
              y \in Cards /\ ChargeOf(m.op, y) /\ m \in RepliesTo(m.op)
<1>1. Good(y, m) /\ mailbox[y] \in Seq(Letter(y))
  BY DEF AllOK, MailboxOK
<1>2. m \in Letter(y)
  BY <1>1, SeqLemma DEF InMail
<1>3. Executed \subseteq Ops
  BY DEF AllOK, RouterOK, Executed
<1>4. CASE y = Router
  <2>1. m \in RouterMsg /\ RouterMail(m)
    BY <1>1, <1>2, <1>4, ActorsApart DEF Good
  <2>2. m.type = "Execute"
    BY <2>1 DEF RouterMsg, Debug, Telling
  <2>3. m.op \in Ops
    BY <2>1, <2>2 DEF RouterMail
  <2> QED
    BY <1>4, <2>2, <2>3
<1>5. CASE y \in Accounts
  <2>1. m \in AccountMsg /\ AccountMail(y, m) /\ y # Router
    BY <1>1, <1>2, <1>5, ActorsApart DEF Good
  <2>2. m.type \in {"ApplyCharge", "ApplyAccountLimit"}
    BY <2>1 DEF AccountMsg, StateMsg, Telling
  <2>3. m.type = "ApplyAccountLimit" => m \in LimitTo(m.op)
    BY <2>1 DEF AccountMsg, StateMsg, LimitTo
  <2> QED
    BY <1>3, <1>5, <2>1, <2>2, <2>3, AskReply DEF AccountMail
<1>6. CASE y \in Cards
  <2>1. m \in CardMsg /\ CardMail(y, m) /\ y # Router
    BY <1>1, <1>2, <1>6, ActorsApart DEF Good
  <2>2. m.type \in {"Task", "AccountChargeReply"}
    BY <2>1 DEF CardMsg, StateMsg, Telling
  <2>3. m.type = "Task" => m \in Tasks
    BY <2>1 DEF Tasks
  <2> QED
    BY <1>3, <1>6, <2>1, <2>2, <2>3, AskReply DEF CardMail
<1> QED
  BY <1>4, <1>5, <1>6, ActorsApart

\* The messages tell the truth after a step that decides operations of D, when those
\* that are left are about other operations and the new ones tell the truth.
LEMMA TellStep ==
  ASSUME AllOK, Grows, AllTell, NEW D, \A o \in Ops \ D : outcome'[o] = outcome[o],
         \A y \in Actors : \A m \in InMail(y)' :
           \/ m \in InMail(y) /\ (m.type \in Telling => m.op \notin D)
           \/ Tells(y, m)'
  PROVE  AllTell'
<1> SUFFICES ASSUME NEW y \in Actors, NEW m \in InMail(y)', m \in InMail(y),
                    m.type \in Telling, m.op \notin D
             PROVE  Tells(y, m)'
  BY DEF AllTell, Tells, Telling, Actors
<1>1. m.op \in Ops /\ Tells(y, m)
  BY TellingOps DEF AllTell
<1>2. outcome'[m.op] = outcome[m.op] /\ Op[m.op]' = Op[m.op]
  BY <1>1 DEF Grows
<1>3. m.type \in {"Execute", "Task", "ApplyCharge", "ApplyAccountLimit"} => outcome'[m.op] = "none"
  BY <1>1, <1>2 DEF Tells
<1>4. m.type = "ApplyAccountLimit" => y = Op[m.op].account'
  BY <1>1, <1>2 DEF Tells
<1>5. m.type = "AccountChargeReply" => outcome'[m.op] = Verdict(m.ok)
  BY <1>1, <1>2 DEF Tells
<1> QED
  BY <1>3, <1>4, <1>5 DEF Tells, Verdict

\* The queue of card c is as before after a step that decides none of its tasks.
LEMMA QueueFrame ==
  ASSUME AllOK, Grows, NEW c \in Cards, QueueInv(c), card'[c] = card[c],
         \A i \in DOMAIN card[c].tasks : i > 1 => outcome'[card[c].tasks[i]] = outcome[card[c].tasks[i]]
  PROVE  QueueInv(c)'
<1>1. \A i \in DOMAIN card[c].tasks : i > 1 => outcome'[card[c].tasks[i]] = "none"
  BY DEF QueueInv
<1>2. card[c].tasks # <<>> =>
        Admitted(card[c], Head(card[c].tasks)) /\ Head(card[c].tasks) \in Ops
  BY CardType, SeqLemma, GrowsLemma DEF QueueInv
<1>3. card[c].tasks # <<>> => Admitted(card[c], Head(card[c].tasks))'
  BY <1>2 DEF Admitted, Grows
<1> QED
  BY <1>1, <1>3 DEF QueueInv

\* The same for an actor that handles a message, when what it sends tells the truth.
LEMMA TellSends ==
  ASSUME AllOK, Grows, AllTell, NEW x, NEW new, Sends(x, new),
         NEW D, \A o \in Ops \ D : outcome'[o] = outcome[o],
         \A y \in Actors : \A m \in InMail(y) \cap InMail(y)' : m.type \in Telling => m.op \notin D,
         \A y \in Actors : \A m \in Range(Added(new, y)) : Tells(y, m)'
  PROVE  AllTell'
<1>1. TypeOK
  BY AllParts
<1>2. \A y \in Actors : InMail(y)' \subseteq InMail(y) \cup Range(Added(new, y))
  BY <1>1, DeliverLemma
<1>3. \A y \in Actors : \A m \in InMail(y)' :
        \/ m \in InMail(y) /\ (m.type \in Telling => m.op \notin D)
        \/ Tells(y, m)'
  BY <1>2
<1> QED
  BY <1>3, TellStep

\* The same for a step that decides nothing.
LEMMA TellSteady ==
  ASSUME AllOK, Grows, AllTell, NEW x, NEW new, Sends(x, new),
         \A o \in Ops : outcome'[o] = outcome[o],
         \A y \in Actors : \A m \in Range(Added(new, y)) : Tells(y, m)'
  PROVE  AllTell'
<1>1. PICK D : D = {}
  OBVIOUS
<1>2. \A o \in Ops \ D : outcome'[o] = outcome[o]
  OBVIOUS
<1>3. \A y \in Actors : \A m \in InMail(y) \cap InMail(y)' : m.type \in Telling => m.op \notin D
  BY <1>1
<1> QED
  BY <1>2, <1>3, TellSends

\* A step that sends no limit to an account.
LEMMA LimitSends ==
  ASSUME AllOK, sent' = sent, OneLimit, NEW x, NEW new, Sends(x, new),
         \A a \in Accounts : \A m \in Range(Added(new, a)) : m.type # "ApplyAccountLimit"
  PROVE  OneLimit'
<1> SUFFICES ASSUME NEW a \in Accounts, NEW o \in Ops PROVE AtMostOne(mailbox[a], LimitTo(o))'
  BY SameOps DEF OneLimit
<1>1. a \in Actors
  BY ActorsApart
<1>2. Range(Added(new, a)) \cap LimitTo(o) = {}
  BY DEF LimitTo
<1>3. NoneNew(a, LimitTo(o))
  BY <1>1, <1>2, NoneNewLemma
<1> QED
  BY <1>3 DEF NoneNew, OneLimit, LimitTo

\* A step that sends nothing that tells, decides nothing and changes no card.
LEMMA TellNothing ==
  ASSUME AllOK, Grows, OutcomesKnown, sent' = sent, NEW x, NEW new, Sends(x, new),
         \A y \in Actors : \A m \in Range(Added(new, y)) : m.type \notin Telling,
         UNCHANGED <<outcome, card>>
  PROVE  OutcomesKnown'
<1>1. AllTell /\ OneLimit /\ \A c \in Cards : QueueInv(c)
  BY OutcomesParts
<1>3. AllTell'
  <2>1. \A y, m : m.type \notin Telling => Tells(y, m)'
    BY DEF Tells, Telling
  <2> QED
    BY <1>1, <2>1, TellSteady
<1>4. OneLimit'
  <2>1. \A a \in Accounts : \A m \in Range(Added(new, a)) : m.type # "ApplyAccountLimit"
    BY ActorsApart DEF Telling
  <2> QED
    BY <1>1, <2>1, LimitSends
<1>5. \A c \in Cards : QueueInv(c)'
  BY <1>1, QueueFrame
<1> QED
  BY <1>3, <1>4, <1>5 DEF OutcomesKnown, AllTell, OneLimit

\* The same for one message, and for none.
LEMMA TellOne ==
  ASSUME AllOK, Grows, OutcomesKnown, sent' = sent, NEW x \in Actors, mailbox[x] # <<>>,
         NEW y, NEW m, Deliver(x, To(y, m)), m.type \notin Telling, UNCHANGED <<outcome, card>>
  PROVE  OutcomesKnown'
<1>1. /\ Sends(x, To(y, m)) /\ Range(Added(To(y, m), y)) = {m}
      /\ \A z : z # y => Range(Added(To(y, m), z)) = {}
  BY SendsOne
<1>2. \A z \in Actors : \A k \in Range(Added(To(y, m), z)) : k.type \notin Telling
  BY <1>1
<1> QED
  BY <1>1, <1>2, TellNothing

\* A message taken that sends nothing and decides nothing keeps what is known.
LEMMA TellNone ==
  ASSUME AllOK, Grows, OutcomesKnown, sent' = sent, NEW x \in Actors, mailbox[x] # <<>>,
         Deliver(x, Nothing), UNCHANGED <<outcome, card>>
  PROVE  OutcomesKnown'
<1>1. Sends(x, Nothing) /\ \A z : Range(Added(Nothing, z)) = {}
  BY SendsNone
<1> QED
  BY <1>1, TellNothing

-----------------------------------------------------------------------------
(* The steps that decide nothing *)

\* Handler<RouterCmd>: AccountQuery and Bill.
LEMMA ExecuteQueryOutcomes ==
  ASSUME AllOK, Grows, OutcomesKnown, NEW o, ExecuteQuery(o)
  PROVE  OutcomesKnown'
<1>0. PICK a, mine : a = Op[o].account /\ mine = {c \in cards : Owner[c] = a}
  OBVIOUS
<1>m. PICK m, q : /\ m = [type |-> "Start", op |-> o, num_cards |-> Cardinality(mine)]
                  /\ q = [type |-> "QueryCardState", op |-> o]
  OBVIOUS
<1>n. PICK new : new = [y \in {a} \cup mine |-> IF y = a THEN <<m>> ELSE <<q>>]
  OBVIOUS
<1>1. /\ mailbox[Router] # <<>> /\ Router \in Actors /\ Deliver(Router, new)
      /\ UNCHANGED <<sent, card, outcome>>
  BY <1>0, <1>m, <1>n, ActorsApart DEF ExecuteQuery, Execute, HasMail, history
<1>2. m.type \notin Telling /\ q.type \notin Telling
  BY <1>m DEF Telling
<1>3. ASSUME NEW y \in DOMAIN new
      PROVE  new[y] \in Seq(Range(new[y])) /\ \A k \in Range(new[y]) : k.type \notin Telling
  <2>1. PICK k : new[y] = <<k>> /\ k.type \notin Telling
    BY <1>2, <1>n
  <2>2. Range(<<k>>) = {k} /\ <<k>> \in Seq({k})
    BY FewLemma
  <2> QED
    BY <2>1, <2>2
<1>4. Sends(Router, new)
  BY <1>1, <1>3 DEF Sends
<1>5. \A y \in Actors : \A k \in Range(Added(new, y)) : k.type \notin Telling
  BY <1>3, FewLemma DEF Added
<1> QED
  BY <1>1, <1>4, <1>5, TellNothing

\* Handler<RouterCmd>: GetDatabase.
LEMMA ExecuteGetDatabaseOutcomes ==
  ASSUME AllOK, Grows, OutcomesKnown, NEW o, ExecuteGetDatabase(o)
  PROVE  OutcomesKnown'
<1>m. PICK m, new : m = [type |-> "GetSnapshot", op |-> o] /\ new = OneEach(accounts \cup cards, m)
  OBVIOUS
<1>1. /\ mailbox[Router] # <<>> /\ Router \in Actors /\ UNCHANGED <<sent, card, outcome>>
      /\ Deliver(Router, Nothing) \/ Deliver(Router, new)
  BY <1>m, ActorsApart DEF ExecuteGetDatabase, Execute, HasMail
<1>2. CASE Deliver(Router, Nothing)
  BY <1>1, <1>2, TellNone
<1>3. CASE Deliver(Router, new)
  <2>1. Range(<<m>>) = {m} /\ <<m>> \in Seq({m})
    BY FewLemma
  <2>2. \A y \in DOMAIN new : new[y] = <<m>>
    BY <1>m DEF OneEach
  <2>3. Sends(Router, new)
    BY <1>1, <1>3, <2>1, <2>2 DEF Sends
  <2>4. m.type \notin Telling
    BY <1>m DEF Telling
  <2>5. \A y \in Actors : \A k \in Range(Added(new, y)) : k.type \notin Telling
    BY <2>1, <2>2, <2>4, FewLemma DEF Added
  <2> QED
    BY <1>1, <2>3, <2>5, TellNothing
<1> QED
  BY <1>1, <1>2, <1>3

\* Handler<RouterInternalMsg>.
LEMMA RouterInternalOutcomes ==
  ASSUME AllOK, Grows, OutcomesKnown, RouterCompleted \/ RouterDebug \/ RouterSnapshot
  PROVE  OutcomesKnown'
<1>1. /\ mailbox[Router] # <<>> /\ Router \in Actors /\ Deliver(Router, Nothing)
      /\ UNCHANGED <<sent, card, outcome>>
  BY ActorsApart DEF RouterCompleted, RouterDebug, RouterSnapshot, HasMail
<1> QED
  BY <1>1, TellNone

\* The queries and snapshots of an account.
LEMMA AccountReportsOutcomes ==
  ASSUME AllOK, Grows, OutcomesKnown, NEW a \in Accounts,
         AccountStart(a) \/ AccountQueryReply(a) \/ AccountSnapshot(a)
  PROVE  OutcomesKnown'
<1>1. /\ mailbox[a] # <<>> /\ a \in Actors /\ UNCHANGED <<sent, card, outcome>>
      /\ Deliver(a, Nothing) \/ \E m : m.type \notin Telling /\ Deliver(a, To(Router, m))
  <2>1. /\ mailbox[a] # <<>> /\ a \in Actors /\ UNCHANGED <<sent, card, outcome>>
    BY ActorsApart DEF AccountStart, AccountQueryReply, AccountSnapshot, HasMail, history
  <2>2. ASSUME NEW o, NEW spent, NEW total PROVE QueryDone(o, spent, total).type \notin Telling
    BY DEF QueryDone, Telling
  <2>3. Debug.type \notin Telling
    BY DEF Debug, Telling
  <2>4. \A f : [type |-> "AccountSnapshotCollected", fragment |-> f].type \notin Telling
    BY DEF Telling
  <2>5. CASE AccountStart(a)
    BY <2>1, <2>2, <2>5 DEF AccountStart
  <2>6. CASE AccountQueryReply(a)
    BY <2>1, <2>2, <2>3, <2>6 DEF AccountQueryReply
  <2>7. CASE AccountSnapshot(a)
    BY <2>1, <2>4, <2>7 DEF AccountSnapshot
  <2> QED
    BY <2>5, <2>6, <2>7
<1> QED
  BY <1>1, TellNone, TellOne

\* QueryCardState and GetSnapshot of a card; there is no bill.
LEMMA CardReportsOutcomes ==
  ASSUME AllOK, Grows, OutcomesKnown, Simple, NEW c \in Cards, CardQuery(c) \/ CardSnapshot(c)
  PROVE  OutcomesKnown' /\ card' = card
<1>1. /\ mailbox[c] # <<>> /\ c \in Actors /\ UNCHANGED <<sent, outcome>>
  BY ActorsApart DEF CardQuery, CardSnapshot, HasMail, history
<1>2. CASE CardQuery(c)
  <2>0. PICK m, q : /\ m = Head(mailbox[c])
                    /\ q = [type |-> "CardQueryReply", op |-> m.op, card |-> c,
                            consumed |-> card[c].consumed]
    OBVIOUS
  <2>1. /\ Deliver(c, To(Owner[c], q)) /\ m.type = "QueryCardState" /\ q.type \notin Telling
        /\ card' = IF Op[m.op].kind = "Bill" THEN [card EXCEPT ![c].consumed = 0] ELSE card
    BY <1>2, <2>0 DEF CardQuery, HasMail, Telling
  <2>2. m.op \in Ops
    <3>1. Good(c, m) /\ c # Router /\ c \notin Accounts
      BY <1>1, <2>0, CardType, HeadLemma
    <3> QED
      BY <2>1, <3>1, GrowsLemma DEF Good, CardMail
  <2>3. card' = card
    BY <2>1, <2>2 DEF Simple, HasKind
  <2> QED
    BY <1>1, <2>1, <2>3, TellOne
<1>3. CASE CardSnapshot(c)
  <2>0. PICK q : q = [type |-> "CardSnapshotCollected",
                      fragment |-> [card |-> c, limit |-> card[c].limit, consumed |-> card[c].consumed]]
    OBVIOUS
  <2>1. Deliver(c, To(Router, q)) /\ q.type \notin Telling /\ card' = card
    BY <1>3, <2>0 DEF CardSnapshot, Telling
  <2> QED
    BY <1>1, <2>1, TellOne
<1> QED
  BY <1>2, <1>3

-----------------------------------------------------------------------------
(* The commands on their way *)

\* Database::send and Database::recv.
LEMMA SendOutcomes ==
  ASSUME AllOK, Grows, OutcomesKnown, Send
  PROVE  OutcomesKnown' /\ \A o \in Ops : outcome'[o] = outcome[o]
<1>0. PICK n, e : n = Len(sent) + 1 /\ e = [type |-> "Execute", op |-> n]
  OBVIOUS
<1>1. /\ mailbox' = [mailbox EXCEPT ![Router] = Append(mailbox[Router], e)] /\ card' = card
      /\ outcome' = Append(outcome, "none")
  BY <1>0 DEF Send
<1>2. AllTell /\ OneLimit /\ \A c \in Cards : QueueInv(c)
  BY OutcomesParts
<1>3. /\ outcome \in Seq({"none", "ok", "failed"}) /\ Len(outcome) = Len(sent) /\ Ops = 1..Len(sent)
  <2>1. sent \in Seq(Operation) /\ outcome \in [Ops -> {"none", "ok", "failed"}]
    BY DEF AllOK, HistoryOK
  <2> QED
    BY <2>1 DEF Ops
<1>4. outcome'[n] = "none" /\ \A o \in Ops : outcome'[o] = outcome[o]
  <2>1. /\ Append(outcome, "none")[Len(outcome) + 1] = "none"
        /\ \A i \in 1..Len(outcome) : Append(outcome, "none")[i] = outcome[i]
    BY <1>3, AppendLemma
  <2> QED
    BY <1>0, <1>1, <1>3, <2>1
<1>5. /\ DOMAIN mailbox = Actors /\ mailbox[Router] \in Seq(RouterMsg)
      /\ \A a \in Accounts : a \in Actors /\ a # Router
  BY ActorsApart DEF AllOK, MailboxOK
<1>6. /\ InMail(Router)' = InMail(Router) \cup {e}
      /\ \A y \in Actors : y # Router => mailbox'[y] = mailbox[y] /\ InMail(y)' = InMail(y)
  <2>1. e \in RouterMsg
    <3>1. n \in Nat
      BY <1>0, SeqLemma DEF AllOK
    <3> QED
      BY <1>0, <3>1, MakeMessages
  <2> QED
    BY <1>1, <1>5, <2>1, AppendLemma, ActorsApart DEF InMail
<1>7. AllTell'
  <2>1. PICK D : D = {}
    OBVIOUS
  <2>2. \A y : Tells(y, e)'
    BY <1>0, <1>4 DEF Tells
  <2>3. \A y \in Actors : \A m \in InMail(y)' :
          \/ m \in InMail(y) /\ (m.type \in Telling => m.op \notin D)
          \/ Tells(y, m)'
    BY <1>6, <2>1, <2>2
  <2>4. \A o \in Ops \ D : outcome'[o] = outcome[o]
    BY <1>4
  <2> QED
    BY <1>2, <2>3, <2>4, TellStep
<1>8. OneLimit'
  <2> SUFFICES ASSUME NEW a \in Accounts, NEW o \in Ops' PROVE AtMostOne(mailbox'[a], LimitTo(o))
    BY DEF OneLimit, LimitTo
  <2>1. CASE o \in Ops
    BY <1>2, <1>5, <1>6, <2>1 DEF OneLimit
  <2>2. CASE o \notin Ops
    <3>1. \A m \in InMail(a) : m \notin LimitTo(o)
      BY <1>5, <2>2, TellingOps DEF LimitTo, Telling
    <3> QED
      BY <1>5, <1>6, <3>1 DEF AtMostOne, InMail, Range
  <2> QED
    BY <2>1, <2>2
<1>9. ASSUME NEW c \in Cards PROVE QueueInv(c)'
  <2>1. \A o \in Range(card[c].tasks) : o \in Ops
    BY CardType, GrowsLemma
  <2>2. \A i \in DOMAIN card[c].tasks : outcome'[card[c].tasks[i]] = outcome[card[c].tasks[i]]
    BY <1>4, <2>1 DEF Range
  <2> QED
    BY <1>1, <1>2, <2>2, QueueFrame
<1> QED
  BY <1>4, <1>7, <1>8, <1>9 DEF OutcomesKnown, AllTell, OneLimit

\* A step that changes neither mailboxes nor cards nor outcomes.
LEMMA IdleOutcomes ==
  ASSUME OutcomesKnown, UNCHANGED <<sent, mailbox, card, outcome>>
  PROVE  OutcomesKnown'
BY DEF OutcomesKnown, InMail, Tells, QueueInv, LimitTo, AtMostOne, Admitted, Op, Ops, Verdict

\* The router gives a command to the card or the account that decides it.
LEMMA CommandNewer ==
  ASSUME AllOK, OrderInv, NEW m \in InMail(Router), m.type = "Execute"
  PROVE  \A k \in Executed : k < m.op
<1>1. m \in Executes
  BY SeqLemma, ActorsApart DEF AllOK, MailboxOK, InMail, Executes
<1> QED
  BY <1>1 DEF OrderInv, CommandsInv

\* Handler<RouterCmd>: Charge and LimitCard.
LEMMA ExecuteOnCardOutcomes ==
  ASSUME AllOK, Grows, OutcomesKnown, NEW o, ExecuteOnCard(o)
  PROVE  OutcomesKnown'
<1>0. PICK d, m, new : d = Op[o].card /\ m = [type |-> "Task", op |-> o] /\ new = To(d, m)
  OBVIOUS
<1>1. /\ mailbox[Router] # <<>> /\ Router \in Actors /\ Deliver(Router, To(d, m))
      /\ Head(mailbox[Router]).type = "Execute" /\ Head(mailbox[Router]).op = o
      /\ UNCHANGED <<sent, card, outcome>>
  BY <1>0, ActorsApart DEF ExecuteOnCard, Execute, HasMail, history
<1>2. AllTell /\ OneLimit /\ \A c \in Cards : QueueInv(c)
  BY OutcomesParts
<1>3. /\ Sends(Router, new) /\ \A z : \A k \in Range(Added(new, z)) : k = m
  <2>1. /\ Sends(Router, To(d, m)) /\ Range(Added(To(d, m), d)) = {m}
        /\ \A z : z # d => Range(Added(To(d, m), z)) = {}
    BY <1>1, SendsOne
  <2> QED
    BY <1>0, <2>1
<1>4. outcome[o] = "none"
  BY <1>1, <1>2, HeadLemma DEF AllTell, Tells
<1>5. \A y : Tells(y, m)'
  BY <1>0, <1>1, <1>4 DEF Tells
<1>6. AllTell'
  <2>1. \A y \in Actors : \A k \in Range(Added(new, y)) : Tells(y, k)'
    BY <1>3, <1>5
  <2> QED
    BY <1>1, <1>2, <1>3, <2>1, TellSteady
<1>7. OneLimit'
  BY <1>0, <1>1, <1>2, <1>3, LimitSends
<1>8. \A c \in Cards : QueueInv(c)'
  BY <1>1, <1>2, QueueFrame
<1> QED
  BY <1>6, <1>7, <1>8 DEF OutcomesKnown, AllTell, OneLimit

\* Handler<RouterCmd>: LimitAccount.
LEMMA ExecuteLimitAccountOutcomes ==
  ASSUME AllOK, OrderInv, Grows, OutcomesKnown, NEW o, ExecuteLimitAccount(o)
  PROVE  OutcomesKnown'
<1>0. PICK a, m, new : /\ a = Op[o].account /\ m = [type |-> "ApplyAccountLimit", op |-> o]
                       /\ new = To(a, m)
  OBVIOUS
<1>1. /\ mailbox[Router] # <<>> /\ Router \in Actors /\ Deliver(Router, To(a, m))
      /\ Head(mailbox[Router]).type = "Execute" /\ Head(mailbox[Router]).op = o
      /\ UNCHANGED <<sent, card, outcome>>
  BY <1>0, ActorsApart DEF ExecuteLimitAccount, Execute, HasMail, history
<1>2. AllTell /\ OneLimit /\ \A c \in Cards : QueueInv(c)
  BY OutcomesParts
<1>3. /\ Sends(Router, new) /\ Range(Added(new, a)) = {m} /\ \A z : z # a => Range(Added(new, z)) = {}
      /\ Added(new, a) = <<m>>
  <2>1. /\ Sends(Router, To(a, m)) /\ Range(Added(To(a, m), a)) = {m}
        /\ \A z : z # a => Range(Added(To(a, m), z)) = {}
    BY <1>1, SendsOne
  <2>2. Added(To(a, m), a) = <<m>>
    BY ToLemma DEF Added
  <2> QED
    BY <1>0, <2>1, <2>2
<1>4. outcome[o] = "none" /\ Head(mailbox[Router]) \in InMail(Router)
  BY <1>1, <1>2, HeadLemma DEF AllTell, Tells
<1>5. Tells(a, m)'
  <2>1. Op' = Op
    BY <1>1 DEF Op
  <2> QED
    BY <1>0, <1>1, <1>4, <2>1 DEF Tells
<1>6. AllTell'
  <2>1. \A y \in Actors : \A k \in Range(Added(new, y)) : Tells(y, k)'
    BY <1>3, <1>5
  <2> QED
    BY <1>1, <1>2, <1>3, <2>1, TellSteady
<1>7. OneLimit'
  <2> SUFFICES ASSUME NEW b \in Accounts, NEW p \in Ops PROVE AtMostOne(mailbox'[b], LimitTo(p))
    BY <1>1, SameOps DEF OneLimit, LimitTo
  <2>0. b \in Actors /\ TypeOK /\ b # Router
    BY ActorsApart, AllParts
  <2>1. AtMostOne(mailbox[b], LimitTo(p))
    BY <1>2 DEF OneLimit
  <2>2. AtMostOne(Added(new, b), LimitTo(p))
    <3>1. CASE b = a
      BY <1>3, <3>1, FewLemma
    <3>2. CASE b # a
      <4>1. \A i \in DOMAIN Added(new, b) : FALSE
        BY <1>3, <3>2 DEF Range
      <4> QED
        BY <4>1 DEF AtMostOne
    <3> QED
      BY <3>1, <3>2
  <2>3. InMail(b) \cap LimitTo(p) = {} \/ Range(Added(new, b)) \cap LimitTo(p) = {}
    <3>1. CASE p = o
      <4>1. ASSUME NEW k \in InMail(b), k \in LimitTo(o) PROVE FALSE
        <5>1. k.type = "ApplyAccountLimit" /\ k.op = o
          BY <4>1 DEF LimitTo
        <5>2. o \in Executed
          BY <2>0, <4>1, <5>1, TellingOps DEF Telling
        <5>3. o < o /\ o \in Nat
          BY <1>1, <1>4, <5>2, CommandNewer DEF AllOK, RouterOK, Executed, Ops
        <5> QED
          BY <5>3
      <4> QED
        BY <3>1, <4>1
    <3>2. CASE p # o
      BY <1>0, <1>3, <3>2 DEF LimitTo
    <3> QED
      BY <3>1, <3>2
  <2> QED
    BY <1>3, <2>0, <2>1, <2>2, <2>3, DeliverLemma
<1>8. \A c \in Cards : QueueInv(c)'
  BY <1>1, <1>2, QueueFrame
<1> QED
  BY <1>6, <1>7, <1>8 DEF OutcomesKnown, AllTell, OneLimit

-----------------------------------------------------------------------------
(* The steps that decide *)

\* What is left in the mailboxes tells nothing of an operation that the router has
\* executed, apart from tasks, asks, replies and limits.
LEMMA StaleCommands ==
  ASSUME AllOK, OrderInv, NEW o \in Executed, NEW y \in Actors, NEW k \in InMail(y),
         k.type \in Telling, k.op = o
  PROVE  /\ k.type # "Execute"
         /\ k.type = "Task" => y \in Cards /\ OfCard(o, y) /\ k \in Tasks
         /\ k.type \in {"ApplyCharge", "AccountChargeReply"} =>
              \E c \in Cards : ChargeOf(o, c) /\ Pending(c, o)
         /\ k.type = "ApplyCharge" => y = Owner[Op[o].card] /\ k \in AskOf(o)
         /\ k.type = "AccountChargeReply" => y \in Cards /\ ChargeOf(o, y) /\ k \in RepliesTo(o)
         /\ k.type = "ApplyAccountLimit" => Op[o].kind = "LimitAccount" /\ k \in LimitTo(o)
<1>1. o \in Ops /\ o \in Nat
  BY DEF AllOK, RouterOK, Executed, Ops
<1>2. k.type # "Execute"
  <2>1. ASSUME k.type = "Execute" PROVE FALSE
    <3>1. y = Router
      BY <2>1, TellingOps
    <3>2. o < o
      BY <2>1, <3>1, CommandNewer
    <3> QED
      BY <1>1, <3>2
  <2> QED
    BY <2>1
<1>3. ASSUME k.type = "ApplyCharge"
      PROVE  y = Owner[Op[o].card] /\ k \in AskOf(o) /\ ChargeOf(o, Op[o].card) /\ Pending(Op[o].card, o)
  <2>1. ChargeOf(o, Op[o].card) /\ Owner[Op[o].card] = y /\ k \in AskOf(o)
    BY <1>3, TellingOps
  <2> QED
    BY <2>1 DEF Pending, Asked
<1>4. ASSUME k.type = "AccountChargeReply"
      PROVE  y \in Cards /\ ChargeOf(o, y) /\ k \in RepliesTo(o) /\ Pending(y, o)
  <2>1. y \in Cards /\ ChargeOf(o, y) /\ k \in RepliesTo(o)
    BY <1>4, TellingOps
  <2> QED
    BY <2>1 DEF Pending, Replied
<1>5. ChargeOf(o, Op[o].card) => Op[o].card \in Cards
  BY <1>1, OperationType DEF ChargeOf, OfCard, AllOK
<1>6. k.type = "Task" => y \in Cards /\ OfCard(o, y) /\ k \in Tasks
  BY TellingOps
<1>7. k.type = "ApplyAccountLimit" => Op[o].kind = "LimitAccount" /\ k \in LimitTo(o)
  BY TellingOps
<1> QED
  BY <1>2, <1>3, <1>4, <1>5, <1>6, <1>7

\* ApplyAccountLimit.
LEMMA AccountLimitOutcomes ==
  ASSUME AllOK, OrderInv, Grows, OutcomesKnown, NEW a \in Accounts, AccountLimit(a)
  PROVE  OutcomesKnown'
<1>0. PICK h, o : h = Head(mailbox[a]) /\ o = h.op
  OBVIOUS
<1>k. PICK ok, m, new : /\ ok = Within(account[a].consumed, Op[o].limit)
                        /\ m = Completed(o, ok) /\ new = To(Router, m)
  OBVIOUS
<1>1. /\ mailbox[a] # <<>> /\ h.type = "ApplyAccountLimit" /\ Deliver(a, To(Router, m))
      /\ outcome' = [outcome EXCEPT ![o] = Verdict(ok)] /\ UNCHANGED <<sent, card>>
  BY <1>0, <1>k DEF AccountLimit, HasMail
<1>2. AllTell /\ OneLimit /\ \A c \in Cards : QueueInv(c)
  BY OutcomesParts
<1>3. a \in Actors /\ a # Router /\ TypeOK
  BY ActorsApart, AllParts
<1>4. /\ Sends(a, new) /\ \A z : \A k \in Range(Added(new, z)) : k = m
      /\ Range(Added(new, a)) = {}
  <2>1. /\ Sends(a, To(Router, m)) /\ Range(Added(To(Router, m), Router)) = {m}
        /\ \A z : z # Router => Range(Added(To(Router, m), z)) = {}
    BY <1>1, <1>3, SendsOne
  <2> QED
    BY <1>k, <1>3, <2>1
<1>5. m.type \notin Telling
  BY <1>k DEF Completed, Telling
<1>6. h \in InMail(a)
  BY <1>0, <1>1, <1>3, HeadLemma
<1>7. /\ o \in Executed /\ Op[o].kind = "LimitAccount" /\ h \in LimitTo(o)
      /\ Op[o].account = a /\ o \in Ops
  <2>1. h.type \in Telling
    BY <1>1 DEF Telling
  <2>2. o \in Executed /\ Op[o].kind = "LimitAccount" /\ h \in LimitTo(o) /\ o \in Ops
    BY <1>0, <1>1, <1>3, <1>6, <2>1, TellingOps
  <2>3. Op[o].account = a
    BY <1>0, <1>1, <1>2, <1>3, <1>6 DEF AllTell, Tells
  <2> QED
    BY <2>2, <2>3
<1>8. \A p \in Ops \ {o} : outcome'[p] = outcome[p]
  BY <1>1
<1>9. ASSUME NEW y \in Actors, NEW k \in InMail(y) \cap InMail(y)', k.type \in Telling, k.op = o
      PROVE  FALSE
  <2>1. /\ k.type # "Execute"
        /\ k.type = "Task" => OfCard(o, y)
        /\ k.type \in {"ApplyCharge", "AccountChargeReply"} => \E c \in Cards : ChargeOf(o, c)
        /\ k.type = "ApplyAccountLimit" => k \in LimitTo(o)
    BY <1>7, <1>9, StaleCommands
  <2>2. k.type = "ApplyAccountLimit" /\ k \in LimitTo(o)
    BY <1>7, <1>9, <2>1 DEF OfCard, ChargeOf, Telling
  <2>3. y = a
    BY <1>2, <1>7, <1>9, <2>2 DEF AllTell, Tells
  <2>4. AtMostOne(mailbox[a], LimitTo(o))
    BY <1>2, <1>7 DEF OneLimit
  <2>5. InMail(a)' \cap LimitTo(o) = {}
    BY <1>0, <1>3, <1>4, <1>7, <2>4, DeliverLemma
  <2> QED
    BY <1>9, <2>2, <2>3, <2>5
<1>10. AllTell'
  <2>1. \A y \in Actors : \A k \in InMail(y) \cap InMail(y)' : k.type \in Telling => k.op \notin {o}
    BY <1>9
  <2>2. \A y \in Actors : \A k \in Range(Added(new, y)) : Tells(y, k)'
    BY <1>4, <1>5 DEF Tells, Telling
  <2> QED
    BY <1>2, <1>4, <1>8, <2>1, <2>2, TellSends
<1>11. OneLimit'
  <2>1. \A b \in Accounts : \A k \in Range(Added(new, b)) : k.type # "ApplyAccountLimit"
    BY <1>4, <1>5 DEF Telling
  <2> QED
    BY <1>1, <1>2, <1>4, <2>1, LimitSends
<1>12. ASSUME NEW c \in Cards PROVE QueueInv(c)'
  <2>1. \A p \in Range(card[c].tasks) : p \in Ops /\ p # o
    BY <1>7, CardType, GrowsLemma DEF OfCard
  <2>2. \A i \in DOMAIN card[c].tasks : outcome'[card[c].tasks[i]] = outcome[card[c].tasks[i]]
    BY <1>8, <2>1 DEF Range
  <2> QED
    BY <1>1, <1>2, <2>2, QueueFrame
<1> QED
  BY <1>10, <1>11, <1>12 DEF OutcomesKnown, AllTell, OneLimit

\* ApplyChargeFromCard.
LEMMA AccountChargeOutcomes ==
  ASSUME AllOK, AllOK', OrderInv, OrderInv', Grows, OutcomesKnown, Unreplaced,
         NEW a \in Accounts, AccountCharge(a)
  PROVE  OutcomesKnown'
<1>0. PICK h, o, d : h = Head(mailbox[a]) /\ o = h.op /\ d = Op[o].card
  OBVIOUS
<1>k. PICK ok, m, new, n : /\ ok = ChargeAllowed(a, o) /\ n = IF ok THEN Op[o].amount ELSE 0
                           /\ m = [type |-> "AccountChargeReply", op |-> o, ok |-> ok]
                           /\ new = To(d, m)
  OBVIOUS
<1>1. /\ mailbox[a] # <<>> /\ h.type = "ApplyCharge" /\ Deliver(a, To(d, m))
      /\ outcome' = [outcome EXCEPT ![o] = Verdict(ok)] /\ UNCHANGED <<sent, card>>
  BY <1>0, <1>k DEF AccountCharge, HasMail
<1>2. AllTell /\ OneLimit /\ \A c \in Cards : QueueInv(c)
  BY OutcomesParts
<1>3. a \in Actors /\ a # Router /\ a \notin Cards /\ TypeOK
  BY ActorsApart, AllParts
<1>4. /\ ChargeOf(o, d) /\ d \in Cards /\ Owner[d] = a /\ Pending(d, o)
      /\ card[d].tasks # <<>> /\ o = Head(card[d].tasks)
  BY <1>0, <1>k, AccountChargeOwed
<1>5. /\ Sends(a, new) /\ \A z : \A k \in Range(Added(new, z)) : z = d /\ k = m
      /\ Range(Added(new, a)) = {}
  <2>1. /\ Sends(a, To(d, m)) /\ Range(Added(To(d, m), d)) = {m}
        /\ \A z : z # d => Range(Added(To(d, m), z)) = {}
    BY <1>1, <1>3, SendsOne
  <2> QED
    BY <1>k, <1>3, <1>4, <2>1
<1>6. h \in InMail(a) /\ o \in Executed /\ h \in AskOf(o) /\ o \in Ops /\ o \in Nat
  <2>1. h \in InMail(a) /\ h.type \in Telling
    BY <1>0, <1>1, <1>3, HeadLemma DEF Telling
  <2>2. o \in Executed /\ o \in Ops /\ h \in AskOf(o)
    BY <1>0, <1>1, <1>3, <2>1, TellingOps
  <2> QED
    BY <2>1, <2>2 DEF Ops
<1>7. /\ AtMostOne(mailbox[a], AskOf(o)) /\ ~Replied(d, o)
  <2>1. Asked(d, o)
    BY <1>4, <1>6 DEF Asked
  <2>2. ServedInv(d)
    BY <1>4 DEF OrderInv
  <2> QED
    BY <1>4, <2>1, <2>2 DEF ServedInv
<1>8. outcome'[o] = Verdict(ok) /\ \A p \in Ops \ {o} : outcome'[p] = outcome[p]
  BY <1>1, <1>6 DEF AllOK, HistoryOK
<1>9. ASSUME NEW y \in Actors, NEW k \in InMail(y) \cap InMail(y)', k.type \in Telling, k.op = o
      PROVE  FALSE
  <2>1. /\ k.type # "Execute"
        /\ k.type = "Task" => y \in Cards /\ OfCard(o, y) /\ k \in Tasks
        /\ k.type = "ApplyCharge" => y = Owner[Op[o].card] /\ k \in AskOf(o)
        /\ k.type = "AccountChargeReply" => y \in Cards /\ ChargeOf(o, y) /\ k \in RepliesTo(o)
        /\ k.type = "ApplyAccountLimit" => Op[o].kind = "LimitAccount"
    BY <1>6, <1>9, StaleCommands
  <2>2. CASE k.type = "Task"
    <3>1. y = d /\ k \in Tasks
      BY <1>0, <2>1, <2>2 DEF OfCard
    <3>2. o < k.op
      BY <1>4, <1>6, <1>9, <3>1, SMTT(30) DEF OrderInv, TasksInv
    <3> QED
      BY <1>6, <1>9, <3>2
  <2>3. CASE k.type = "ApplyCharge"
    <3>1. InMail(a)' \cap AskOf(o) = {}
      BY <1>0, <1>3, <1>5, <1>6, <1>7, DeliverLemma
    <3> QED
      BY <1>0, <1>4, <1>9, <2>1, <2>3, <3>1
  <2>4. CASE k.type = "AccountChargeReply"
    <3>1. y = d
      BY <1>0, <2>1, <2>4 DEF ChargeOf, OfCard
    <3> QED
      BY <1>7, <1>9, <2>1, <2>4, <3>1 DEF Replied
  <2> QED
    BY <1>4, <1>9, <2>1, <2>2, <2>3, <2>4 DEF Telling, ChargeOf
<1>10. AllTell'
  <2>1. \A y \in Actors : \A k \in InMail(y) \cap InMail(y)' : k.type \in Telling => k.op \notin {o}
    BY <1>9
  <2>2. \A y : Tells(y, m)'
    BY <1>k, <1>8 DEF Tells
  <2>3. \A y \in Actors : \A k \in Range(Added(new, y)) : Tells(y, k)'
    BY <1>5, <2>2
  <2> QED
    BY <1>2, <1>5, <1>8, <2>1, <2>3, TellSends
<1>11. OneLimit'
  <2>1. \A b \in Accounts : \A k \in Range(Added(new, b)) : k.type # "ApplyAccountLimit"
    BY <1>k, <1>5
  <2> QED
    BY <1>1, <1>2, <1>5, <2>1, LimitSends
<1>12. ASSUME NEW c \in Cards PROVE QueueInv(c)'
  <2>1. card[c].tasks \in Seq(Nat) /\ \A p \in Range(card[c].tasks) : p \in Ops /\ OfCard(p, c)
    BY CardType, GrowsLemma
  <2>2. ASSUME NEW i \in DOMAIN card[c].tasks, i > 1 PROVE card[c].tasks[i] # o
    <3>1. CASE c = d
      <4>1. 1 \in DOMAIN card[c].tasks /\ card[c].tasks[1] = o
        BY <1>4, <2>1, <3>1, SeqLemma
      <4>2. card[c].tasks[1] < card[c].tasks[i]
        BY <2>2, <4>1 DEF OrderInv, TasksInv
      <4> QED
        BY <1>6, <4>1, <4>2
    <3>2. CASE c # d
      <4>1. OfCard(card[c].tasks[i], c)
        BY <2>1, <2>2 DEF Range
      <4> QED
        BY <1>0, <3>2, <4>1 DEF OfCard
    <3> QED
      BY <3>1, <3>2
  <2>3. \A i \in DOMAIN card[c].tasks : i > 1 => outcome'[card[c].tasks[i]] = outcome[card[c].tasks[i]]
    BY <1>8, <2>1, <2>2 DEF Range
  <2> QED
    BY <1>1, <1>2, <2>3, QueueFrame
<1> QED
  BY <1>10, <1>11, <1>12 DEF OutcomesKnown, AllTell, OneLimit

\* Positions in the queue before and after n of its tasks are done.
LEMMA QueueIndex ==
  ASSUME NEW c, NEW s, NEW pre, NEW n, Shape(c, s, pre, n)
  PROVE  /\ n \in Nat /\ Len(pre) \in Nat /\ DOMAIN pre = 1..Len(pre) /\ DOMAIN s.tasks = 1..Len(s.tasks)
         /\ \A i \in 1..n : i \in DOMAIN pre
         /\ \A j \in DOMAIN pre, i \in 1..n : j > n => i < j
         /\ \A i \in DOMAIN s.tasks :
              /\ i \in Nat /\ n + i \in DOMAIN pre /\ n + i > n /\ s.tasks[i] = pre[n + i]
              /\ i > 1 => n + i > 1
         /\ s.tasks # <<>> => 1 \in DOMAIN s.tasks /\ Head(s.tasks) = s.tasks[1]
<1>1. /\ pre \in Seq(Nat) /\ s.tasks \in Seq(Nat) /\ n \in 0..Len(pre)
      /\ Len(s.tasks) = Len(pre) - n /\ \A j \in 1..(Len(pre) - n) : s.tasks[j] = pre[n + j]
  BY DEF Shape, CardRun
<1>2. /\ Len(pre) \in Nat /\ DOMAIN pre = 1..Len(pre) /\ DOMAIN s.tasks = 1..Len(s.tasks)
      /\ s.tasks # <<>> => 1 \in 1..Len(s.tasks) /\ Head(s.tasks) = s.tasks[1]
  BY <1>1, SeqLemma
<1>3. n \in Nat
  <2>1. n \in 0..Len(pre) /\ Len(pre) \in Nat
    BY <1>1, <1>2
  <2> QED
    BY <2>1
<1>4. ASSUME NEW l \in Nat, NEW k \in 0..l
      PROVE  /\ \A i \in 1..k : i \in 1..l
             /\ \A j \in 1..l, i \in 1..k : j > k => i < j
             /\ \A i \in 1..(l - k) : i \in Nat /\ k + i \in 1..l /\ k + i > k /\ (i > 1 => k + i > 1)
  BY SMTT(30)
<1>5. /\ \A i \in 1..n : i \in 1..Len(pre)
      /\ \A j \in 1..Len(pre), i \in 1..n : j > n => i < j
      /\ \A i \in 1..(Len(pre) - n) :
           i \in Nat /\ n + i \in 1..Len(pre) /\ n + i > n /\ (i > 1 => n + i > 1)
  BY <1>1, <1>2, <1>4, ZenonT(30)
<1>6. ASSUME NEW i \in DOMAIN s.tasks
      PROVE  /\ i \in Nat /\ n + i \in DOMAIN pre /\ n + i > n /\ s.tasks[i] = pre[n + i]
             /\ i > 1 => n + i > 1
  <2>1. i \in 1..(Len(pre) - n)
    BY <1>1, <1>2, <1>6
  <2> QED
    BY <1>1, <1>2, <1>5, <2>1, ZenonT(30)
<1> QED
  BY <1>2, <1>3, <1>5, <1>6

\* A card that runs its tasks decides the undecided ones among the first n; the ones
\* that remain are undecided.
Newly(pre, n) == {o \in Ops : outcome[o] = "none" /\ \E i \in 1..n : o = pre[i]}

\* A card that works off some of its queue keeps what is known of the outcomes: the tasks
\* it finishes are decided, the ones that stay are not.
LEMMA StepsOutcomes ==
  ASSUME AllOK, AllOK', OrderInv, Grows, OutcomesKnown, NEW c \in Cards, NEW s, NEW pre, NEW n,
         Steps(c, s, pre, n), Queued(c, pre), Decides(c, s),
         \A k \in InMail(c)' \cap Tasks, p \in Range(pre) : p < k.op,
         \A o \in Newly(pre, n) : ~Pending(c, o),
         \A j \in DOMAIN pre : j > n /\ (j > 1 \/ s.asks # <<>>) => outcome[pre[j]] = "none",
         s.asks = <<>> /\ s.tasks # <<>> => s.limit = card[c].limit /\ s.consumed = card[c].consumed
  PROVE  OutcomesKnown'
<1>0. PICK D, new : D = Newly(pre, n) /\ new = CardSends(c, s)
  OBVIOUS
<1>1. /\ Shape(c, s, pre, n) /\ sent' = sent /\ pre \in Seq(Nat) /\ n \in 0..Len(pre)
      /\ \A o \in Range(pre) : o \in Executed /\ OfCard(o, c)
      /\ Len(s.done) = n /\ \A j \in 1..n : s.done[j].op = pre[j]
      /\ Len(s.tasks) = Len(pre) - n /\ \A j \in 1..(Len(pre) - n) : s.tasks[j] = pre[n + j]
      /\ s.tasks \in Seq(Nat)
  BY DEF Steps, Shape, CardRun
<1>2. AllTell /\ OneLimit /\ \A d \in Cards : QueueInv(d)
  BY OutcomesParts
<1>3. /\ Sends(c, new) /\ Added(new, Router) = DoneMail(s) /\ Added(new, Owner[c]) = AskMail(s)
      /\ \A y : y # Router /\ y # Owner[c] => Added(new, y) = <<>>
      /\ \A m \in Range(DoneMail(s)) : m.type = "OperationCompleted"
      /\ \A m \in Range(AskMail(s)) : s.asks # <<>> /\ m \in AskOf(Head(s.tasks))
      /\ card'[c].tasks = s.tasks /\ \A d \in Cards : d # c => card'[d] = card[d]
  BY <1>0, StepsMail
<1>4. Len(pre) \in Nat /\ DOMAIN pre = 1..Len(pre) /\ \A j \in DOMAIN pre : pre[j] \in Range(pre)
  BY <1>1, SeqLemma DEF Range
<1>5. \A o \in D : o \in Range(pre) /\ o \in Executed /\ OfCard(o, c) /\ o \in Nat /\ ~Pending(c, o)
  <2>1. \A o \in D : o \in Range(pre) /\ ~Pending(c, o) /\ o \in Ops
    BY <1>0, <1>1, <1>4 DEF Newly
  <2> QED
    BY <1>1, <2>1 DEF Ops
<1>6. \A o \in Ops \ D : outcome'[o] = outcome[o]
  <2> SUFFICES ASSUME NEW o \in Ops \ D PROVE outcome'[o] = outcome[o]
    OBVIOUS
  <2>1. ~\E i \in 1..Len(s.done) : s.done[i].op = o /\ outcome[o] = "none"
    BY <1>0, <1>1 DEF Newly
  <2> QED
    BY <2>1 DEF Decides
<1>7. \A j \in DOMAIN pre : j > n => pre[j] \notin D
  <2> SUFFICES ASSUME NEW j \in DOMAIN pre, j > n, NEW i \in 1..n, pre[j] = pre[i] PROVE FALSE
    BY <1>0 DEF Newly
  <2>1. i \in DOMAIN pre /\ i < j
    BY <1>1, QueueIndex
  <2>2. pre[i] < pre[j] /\ pre[i] \in Nat
    BY <1>1, <2>1 DEF Queued
  <2> QED
    BY <2>2
<1>8. ASSUME NEW y \in Actors, NEW k \in InMail(y) \cap InMail(y)', k.type \in Telling, k.op \in D
      PROVE  FALSE
  <2>0. PICK o : o = k.op /\ o \in Executed /\ OfCard(o, c) /\ o \in Range(pre) /\ o \in Nat /\ ~Pending(c, o)
    BY <1>5, <1>8
  <2>1. /\ k.type # "Execute"
        /\ k.type = "Task" => y \in Cards /\ OfCard(o, y) /\ k \in Tasks
        /\ k.type \in {"ApplyCharge", "AccountChargeReply"} =>
             \E d \in Cards : ChargeOf(o, d) /\ Pending(d, o)
        /\ k.type = "ApplyAccountLimit" => Op[o].kind = "LimitAccount"
    BY <1>8, <2>0, StaleCommands
  <2>2. CASE k.type = "Task"
    <3>1. y = c
      BY <2>0, <2>1, <2>2 DEF OfCard
    <3>2. o < k.op
      BY <1>8, <2>0, <2>1, <2>2, <3>1
    <3> QED
      BY <2>0, <3>2
  <2>3. CASE k.type \in {"ApplyCharge", "AccountChargeReply"}
    BY <2>0, <2>1, <2>3 DEF ChargeOf, OfCard
  <2>4. CASE k.type = "ApplyAccountLimit"
    BY <2>0, <2>1, <2>4 DEF OfCard
  <2> QED
    BY <1>8, <2>1, <2>2, <2>3, <2>4 DEF Telling
<1>9. s.tasks # <<>> => n + 1 \in DOMAIN pre /\ Head(s.tasks) = pre[n + 1]
  <2> SUFFICES ASSUME s.tasks # <<>> PROVE n + 1 \in DOMAIN pre /\ Head(s.tasks) = pre[n + 1]
    OBVIOUS
  <2>1. Head(s.tasks) = s.tasks[1] /\ 1 \in DOMAIN s.tasks
    BY <1>1, QueueIndex
  <2> QED
    BY <1>1, <2>1, QueueIndex
<1>10. AllTell'
  <2>1. \A y \in Actors : \A k \in InMail(y) \cap InMail(y)' : k.type \in Telling => k.op \notin D
    BY <1>8
  <2>2. ASSUME NEW y \in Actors, NEW k \in Range(Added(new, y)) PROVE Tells(y, k)'
    <3>1. CASE y = Router
      <4>1. k.type = "OperationCompleted"
        BY <1>3, <2>2, <3>1
      <4> QED
        BY <4>1 DEF Tells
    <3>2. CASE y # Router
      <4>1. y = Owner[c] /\ k \in Range(AskMail(s))
        BY <1>3, <2>2, <3>2, FewLemma
      <4>2. k.type = "ApplyCharge" /\ k.op = Head(s.tasks) /\ s.asks # <<>> /\ s.tasks # <<>>
        <5>1. s.asks # <<>> /\ k \in AskOf(Head(s.tasks))
          BY <1>3, <4>1
        <5>2. s.tasks # <<>>
          BY <1>1, <5>1 DEF Shape
        <5> QED
          BY <5>1, <5>2 DEF AskOf
      <4>3. n + 1 > n /\ n \in Nat
        BY <1>1
      <4>4. outcome[pre[n + 1]] = "none" /\ pre[n + 1] \in Ops \ D
        <5>1. outcome[pre[n + 1]] = "none"
          BY <1>9, <4>2, <4>3, SMTT(30)
        <5>2. pre[n + 1] \in Executed
          BY <1>1, <1>4, <1>9, <4>2
        <5>3. Executed \subseteq Ops
          BY GrowsLemma
        <5> QED
          BY <1>7, <1>9, <4>2, <4>3, <5>1, <5>2, <5>3
      <4>5. outcome'[k.op] = "none"
        BY <1>6, <1>9, <4>2, <4>4
      <4> QED
        BY <4>2, <4>5 DEF Tells
    <3> QED
      BY <3>1, <3>2
  <2> QED
    BY <1>2, <1>3, <1>6, <2>1, <2>2, TellSends
<1>11. OneLimit'
  <2>1. ASSUME NEW b \in Accounts, NEW k \in Range(Added(new, b)) PROVE k.type # "ApplyAccountLimit"
    <3>1. b # Router
      BY ActorsApart
    <3>2. k \in AskOf(Head(s.tasks))
      BY <1>3, <2>1, <3>1, FewLemma
    <3> QED
      BY <3>2 DEF AskOf
  <2> QED
    BY <1>1, <1>2, <1>3, <2>1, LimitSends
<1>12. ASSUME NEW d \in Cards, d # c PROVE QueueInv(d)'
  <2>1. \A p \in Range(card[d].tasks) : p \in Ops \ D
    BY <1>5, <1>12, CardType, GrowsLemma DEF OfCard
  <2>2. \A i \in DOMAIN card[d].tasks : outcome'[card[d].tasks[i]] = outcome[card[d].tasks[i]]
    BY <1>6, <2>1 DEF Range
  <2> QED
    BY <1>2, <1>3, <1>12, <2>2, QueueFrame
<1>13. QueueInv(c)'
  <2>1. card'[c].limit = s.limit /\ card'[c].consumed = s.consumed
    <3>1. card' = [card EXCEPT ![c] = [limit |-> s.limit, consumed |-> s.consumed, tasks |-> s.tasks]]
      BY BecomesSends DEF Steps
    <3> QED
      BY <3>1 DEF AllOK, CardsOK
  <2>2. ASSUME NEW i \in DOMAIN s.tasks, i > 1 PROVE outcome'[s.tasks[i]] = "none"
    <3>2. n + i \in DOMAIN pre /\ n + i > n /\ n + i > 1 /\ s.tasks[i] = pre[n + i]
      BY <1>1, <2>2, QueueIndex
    <3>3. outcome[pre[n + i]] = "none" /\ pre[n + i] \notin D /\ pre[n + i] \in Executed
      BY <1>1, <1>4, <1>7, <3>2
    <3>4. Executed \subseteq Ops
      BY GrowsLemma
    <3> QED
      BY <1>6, <3>2, <3>3, <3>4
  <2>3. ASSUME s.tasks # <<>> PROVE Admitted(card'[c], Head(s.tasks))
    <3>1. CASE s.asks # <<>>
      <4>1. Admitted(s, Head(s.tasks))
        BY <1>1, <3>1 DEF Shape
      <4> QED
        BY <2>1, <4>1 DEF Admitted
    <3>2. CASE s.asks = <<>>
      <4>1. card[c].tasks # <<>> /\ Head(s.tasks) = Head(card[c].tasks)
        BY <1>1, <2>3, <3>2 DEF Shape
      <4>2. Admitted(card[c], Head(s.tasks))
        BY <1>2, <4>1 DEF QueueInv
      <4> QED
        BY <2>1, <2>3, <3>2, <4>2 DEF Admitted
    <3> QED
      BY <3>1, <3>2
  <2>4. s.tasks # <<>> => Admitted(card[c], Head(s.tasks))'
    BY <1>1, <2>3 DEF Admitted, Op
  <2> QED
    BY <1>3, <2>2, <2>4 DEF QueueInv
<1> QED
  BY <1>10, <1>11, <1>12, <1>13 DEF OutcomesKnown, AllTell, OneLimit

\* ExecuteCharge and ExecuteLimitChange.
LEMMA CardTaskOutcomes ==
  ASSUME AllOK, AllOK', OrderInv, Grows, OutcomesKnown, NEW c \in Cards, CardTask(c)
  PROVE  OutcomesKnown'
<1>0. PICK o, s, pre : /\ o = Head(mailbox[c]).op /\ s = Offer(Run(c, card[c].tasks), o)
                       /\ pre = Append(card[c].tasks, o)
  OBVIOUS
<1>1. /\ Head(mailbox[c]) \in InMail(c) /\ Head(mailbox[c]).type = "Task"
      /\ o \in Nat /\ \E n : Steps(c, s, pre, n)
      /\ Queued(c, pre) /\ ~Pending(c, o)
      /\ \A k \in InMail(c)' \cap Tasks, p \in Range(pre) : p < k.op
  BY <1>0, TaskSteps
<1>2. PICK n : Steps(c, s, pre, n)
  BY <1>1
<1>3. card[c].tasks \in Seq(Nat) /\ c \in Actors
  BY CardType
<1>4. AllTell /\ QueueInv(c) /\ Decides(c, s)
  BY <1>0, OutcomesParts DEF CardTask
<1>5. outcome[o] = "none"
  BY <1>0, <1>1, <1>3, <1>4 DEF AllTell, Tells
<1>6. /\ Len(card[c].tasks) \in Nat /\ DOMAIN pre = 1..(Len(card[c].tasks) + 1)
      /\ pre[Len(card[c].tasks) + 1] = o
      /\ \A j \in 1..Len(card[c].tasks) : j \in DOMAIN card[c].tasks /\ pre[j] = card[c].tasks[j]
  <2>1. /\ pre \in Seq(Nat) /\ Len(card[c].tasks) \in Nat /\ Len(pre) = Len(card[c].tasks) + 1
        /\ pre[Len(card[c].tasks) + 1] = o
        /\ \A j \in 1..Len(card[c].tasks) : pre[j] = card[c].tasks[j]
    BY <1>0, <1>1, <1>3, AppendLemma
  <2>2. DOMAIN pre = 1..Len(pre) /\ DOMAIN card[c].tasks = 1..Len(card[c].tasks)
    BY <1>3, <2>1, SeqLemma
  <2> QED
    BY <2>1, <2>2
<1>7. CASE card[c].tasks = <<>>
  <2>1. Len(card[c].tasks) = 0
    BY <1>3, <1>7, SeqLemma
  <2>2. \A j \in DOMAIN pre : pre[j] = o
    BY <1>6, <2>1
  <2>3. n \in Nat /\ \A i \in 1..n : i \in DOMAIN pre
    BY <1>2, QueueIndex DEF Steps
  <2>4. \A p \in Newly(pre, n) : ~Pending(c, p)
    BY <1>1, <2>2, <2>3 DEF Newly
  <2>5. \A j \in DOMAIN pre : outcome[pre[j]] = "none"
    BY <1>5, <2>2
  <2>6. s.asks = <<>> /\ s.tasks # <<>> => card[c].tasks # <<>>
    BY <1>2 DEF Steps, Shape
  <2>7. s.asks = <<>> /\ s.tasks # <<>> => s.limit = card[c].limit /\ s.consumed = card[c].consumed
    BY <1>7, <2>6
  <2>8. \A j \in DOMAIN pre : j > n /\ (j > 1 \/ s.asks # <<>>) => outcome[pre[j]] = "none"
    BY <2>5
  <2>9. Queued(c, pre) /\ \A k \in InMail(c)' \cap Tasks, p \in Range(pre) : p < k.op
    BY <1>1
  <2> QED
    BY <1>2, <1>4, <2>4, <2>7, <2>8, <2>9, StepsOutcomes
<1>8. CASE card[c].tasks # <<>>
  <2>0. s = Offer(Run(c, card[c].tasks), o)
    BY <1>0
  <2>1. s.asks = <<>> /\ s.done = <<>> /\ s.limit = card[c].limit /\ s.consumed = card[c].consumed
    BY <1>8, <2>0, OfferBusy, ZenonT(30)
  <2>2. n = 0
    BY <1>2, <2>1 DEF Steps, Shape
  <2>3. Newly(pre, n) = {}
    BY <2>2 DEF Newly
  <2>4. ASSUME NEW j \in DOMAIN pre, j > 1 PROVE outcome[pre[j]] = "none"
    <3>1. j \in 1..Len(card[c].tasks) \/ j = Len(card[c].tasks) + 1
      BY <1>6
    <3>2. CASE j \in 1..Len(card[c].tasks)
      BY <1>4, <1>6, <2>4, <3>2 DEF QueueInv
    <3>3. CASE j = Len(card[c].tasks) + 1
      BY <1>5, <1>6, <3>3
    <3> QED
      BY <3>1, <3>2, <3>3
  <2> QED
    BY <1>1, <1>2, <1>4, <2>1, <2>3, <2>4, StepsOutcomes
<1> QED
  BY <1>7, <1>8

\* AccountChargeReply.
LEMMA CardReplyOutcomes ==
  ASSUME AllOK, AllOK', OrderInv, OrderInv', Grows, OutcomesKnown, Unreplaced,
         NEW c \in Cards, CardReply(c)
  PROVE  OutcomesKnown'
<1>0. PICK m, s, pre : m = Head(mailbox[c]) /\ s = AfterReply(c, m) /\ pre = card[c].tasks
  OBVIOUS
<1>1. card[c].tasks # <<>> /\ Head(card[c].tasks) = m.op
  BY <1>0, CardReplyOwed
<1>2. /\ m \in InMail(c) /\ m.type = "AccountChargeReply"
      /\ \E n \in Nat \ {0} : Steps(c, s, pre, n)
      /\ Queued(c, pre) /\ \A k \in InMail(c)' \cap Tasks, p \in Range(pre) : p < k.op
  BY <1>0, <1>1, ReplySteps
<1>3. PICK n \in Nat \ {0} : Steps(c, s, pre, n)
  BY <1>2
<1>4. AllTell /\ QueueInv(c) /\ Decides(c, s)
  BY <1>0, <1>1, OutcomesParts DEF CardReply, AfterReply
<1>5. outcome[m.op] # "none"
  <2>1. c \in Actors
    BY CardType
  <2> QED
    BY <1>2, <1>4, <2>1 DEF AllTell, Tells, Verdict
<1>6. \A o \in Newly(pre, n) : ~Pending(c, o)
  BY <1>1, <1>5 DEF Newly, OrderInv, TasksInv
<1>7. \A j \in DOMAIN pre : j > 1 => outcome[pre[j]] = "none"
  BY <1>0, <1>4 DEF QueueInv
<1>8. \A j \in DOMAIN pre : j > n => j > 1
  <2>1. DOMAIN pre = 1..Len(pre) /\ Len(pre) \in Nat
    BY <1>0, CardType, SeqLemma
  <2> QED
    BY <2>1
<1>9. s.asks = <<>> /\ s.tasks # <<>> => s.limit = card[c].limit /\ s.consumed = card[c].consumed
  <2>1. s.asks = <<>> /\ s.tasks # <<>> => n = 0
    BY <1>3 DEF Steps, Shape
  <2>2. n # 0
    BY <1>3
  <2> QED
    BY <2>1, <2>2
<1> QED
  BY <1>2, <1>3, <1>4, <1>6, <1>7, <1>8, <1>9, StepsOutcomes

-----------------------------------------------------------------------------
(* The invariant *)

\* Without replacements no account and no card is replaced.
LEMMA NoReplaceState ==
  ASSUME AllOK, OrderInv, Unreplaced
  PROVE  /\ \A o \in Ops : ~ExecuteReplaceDatabase(o)
         /\ \A a \in Accounts : ~AccountReplace(a)
         /\ \A c \in Cards : ~CardReplace(c)
<1>1. ASSUME NEW o \in Ops, ExecuteReplaceDatabase(o) PROVE FALSE
  BY <1>1 DEF ExecuteReplaceDatabase, Execute, Unreplaced, HasKind
<1>2. ASSUME NEW a \in Accounts, AccountReplace(a) PROVE FALSE
  <2>0. PICK m : m = Head(mailbox[a])
    OBVIOUS
  <2>1. mailbox[a] # <<>> /\ m.type = "ReplaceState"
    BY <1>2, <2>0 DEF AccountReplace, HasMail
  <2>2. Good(a, m) /\ a # Router
    BY <2>0, <2>1, AccountType, HeadLemma
  <2> QED
    BY <2>1, <2>2 DEF Good, AccountMail, Unreplaced
<1>3. ASSUME NEW c \in Cards, CardReplace(c) PROVE FALSE
  <2>0. PICK m : m = Head(mailbox[c])
    OBVIOUS
  <2>1. mailbox[c] # <<>> /\ m.type = "ReplaceState"
    BY <1>3, <2>0 DEF CardReplace, HasMail
  <2>2. Good(c, m) /\ c # Router /\ c \notin Accounts
    BY <2>0, <2>1, CardType, HeadLemma
  <2> QED
    BY <2>1, <2>2 DEF Good, CardMail, Unreplaced
<1> QED
  BY <1>1, <1>2, <1>3, SMTT(30)

\* Every step keeps what the messages tell.
LEMMA NextOutcomes ==
  ASSUME AllOK, OrderInv, OutcomesInv, [Next]_vars
  PROVE  OutcomesInv'
<1>1. AllOK' /\ Grows /\ OrderInv'
  BY NextOK, NextOrder
<1> SUFFICES ASSUME Simple' PROVE OutcomesKnown'
  BY DEF OutcomesInv
<1>2. Simple /\ Unreplaced /\ OutcomesKnown
  BY <1>1, SimpleBefore DEF OutcomesInv, Simple
<1>3. CASE UNCHANGED vars \/ Recv
  BY <1>2, <1>3, IdleOutcomes DEF vars, Recv, routerVars, history
<1>4. CASE Send
  BY <1>1, <1>2, <1>4, SendOutcomes
<1>5. CASE RouterStep
  BY <1>1, <1>2, <1>5, ExecuteOnCardOutcomes, ExecuteLimitAccountOutcomes, ExecuteQueryOutcomes,
     ExecuteGetDatabaseOutcomes, RouterInternalOutcomes, NoReplaceState DEF RouterStep
<1>6. ASSUME NEW a \in Accounts, AccountStep(a) PROVE OutcomesKnown'
  BY <1>1, <1>2, <1>6, AccountChargeOutcomes, AccountLimitOutcomes, AccountReportsOutcomes,
     NoReplaceState DEF AccountStep
<1>7. ASSUME NEW c \in Cards, CardStep(c) PROVE OutcomesKnown'
  BY <1>1, <1>2, <1>7, CardTaskOutcomes, CardReplyOutcomes, CardReportsOutcomes,
     NoReplaceState DEF CardStep
<1> QED
  BY <1>3, <1>4, <1>5, <1>6, <1>7 DEF Next

\* Initially there are no messages and no tasks.
LEMMA InitOutcomes == Init => OutcomesInv
<1> SUFFICES ASSUME Init PROVE OutcomesKnown
  BY DEF OutcomesInv
<1>1. \A y \in Actors : mailbox[y] = <<>>
  BY DEF Init
<1>2. \A c \in Cards : card[c].tasks = <<>>
  BY DEF Init
<1>3. \A a \in Accounts : a \in Actors
  BY ActorsApart
<1> QED
  BY <1>1, <1>2, <1>3, FewLemma DEF OutcomesKnown, InMail, QueueInv, Tells

\* Every message tells the truth about its operation, and a card has room for the
\* charge that it waits for.
THEOREM OutcomesDecided == Spec => []OutcomesInv
<1>1. Init => AllOK /\ OrderInv /\ OutcomesInv
  BY InitOK, InitOrder, InitOutcomes
<1>2. AllOK /\ OrderInv /\ OutcomesInv /\ [Next]_vars => (AllOK /\ OrderInv /\ OutcomesInv)'
  BY NextOK, NextOrder, NextOutcomes
<1> QED
  BY <1>1, <1>2, PTL DEF Spec
-----------------------------------------------------------------------------
(* The ledger, with what the cards owe *)

Led == [accountLimit    |-> [a \in Accounts |-> account[a].limit],
        accountConsumed |-> [a \in Accounts |-> account[a].consumed],
        cardLimit       |-> [c \in Cards |-> card[c].limit],
        cardConsumed    |-> [c \in Cards |-> Owed(c)],
        outcome         |-> outcome]

\* Under the invariants what a card has spent is what it owes, so that the ledger is Led.
LEMMA LedgerIs == AllOK /\ OrderInv /\ Unreplaced => TheLedger = Led
<1> SUFFICES ASSUME AllOK, OrderInv, Unreplaced PROVE TheLedger = Led
  OBVIOUS
<1>1. \A c \in Cards : Spent(c) = Owed(c)
  BY SpentLemma DEF SpentOK, Owed
<1> QED
  BY <1>1 DEF TheLedger, Led

\* A step that changes neither limits nor what is consumed and owed nor outcomes.
LEMMA LedFrame ==
  ASSUME \A a \in Accounts : account'[a].limit = account[a].limit /\ account'[a].consumed = account[a].consumed,
         \A c \in Cards : card'[c].limit = card[c].limit /\ Owed(c)' = Owed(c), outcome' = outcome
  PROVE  Led' = Led
BY DEF Led

-----------------------------------------------------------------------------
(* Operations that take effect one after the other *)

\* The recursion of ApplyAll is well defined.
LEMMA ApplyAllDef ==
  ASSUME NEW X, NEW w \in Seq(Nat)
  PROVE  \E run : /\ \A i \in 0..Len(w) : run[i] = IF i = 0 THEN X ELSE L!Apply(run[i - 1], w[i])
                  /\ L!ApplyAll(X, w) = run[Len(w)]
<1> DEFINE n == Len(w)
           Eq(g, k) == \A i \in 0..k : g[i] = IF i = 0 THEN X ELSE L!Apply(g[i - 1], w[i])
           A == {k \in Nat : \E g : Eq(g, k)}
<1>1. n \in Nat
  OBVIOUS
<1>2. A = Nat
  <2>1. 0 \in A
    <3>1. Eq([i \in {0} |-> X], 0)
      OBVIOUS
    <3> QED
      BY <3>1
  <2>2. ASSUME NEW k \in A PROVE k + 1 \in A
    <3>1. PICK g : Eq(g, k)
      OBVIOUS
    <3> DEFINE h == [i \in 0..(k + 1) |-> IF i = k + 1 THEN L!Apply(g[k], w[k + 1]) ELSE g[i]]
    <3>2. Eq(h, k + 1)
      <4> SUFFICES ASSUME NEW i \in 0..(k + 1)
                   PROVE  h[i] = IF i = 0 THEN X ELSE L!Apply(h[i - 1], w[i])
        OBVIOUS
      <4>1. CASE i = k + 1
        <5>1. h[i] = L!Apply(g[k], w[k + 1]) /\ h[i - 1] = g[k] /\ i # 0
          BY <4>1
        <5> QED
          BY <4>1, <5>1
      <4>2. CASE i # k + 1
        <5>1. i \in 0..k /\ h[i] = g[i] /\ (i # 0 => h[i - 1] = g[i - 1])
          BY <4>2
        <5> QED
          BY <3>1, <5>1
      <4> QED
        BY <4>1, <4>2
    <3> HIDE DEF h, Eq
    <3>3. \E f : Eq(f, k + 1)
      BY <3>2
    <3> QED
      BY <3>3
  <2> QED
    BY <2>1, <2>2, NatSet
<1>3. PICK g : Eq(g, n)
  BY <1>1, <1>2
<1> DEFINE h == [i \in 0..n |-> g[i]]
<1>4. h = [i \in 0..n |-> IF i = 0 THEN X ELSE L!Apply(h[i - 1], w[i])]
  <2>1. ASSUME NEW i \in 0..n PROVE g[i] = IF i = 0 THEN X ELSE L!Apply(h[i - 1], w[i])
    <3>1. g[i] = IF i = 0 THEN X ELSE L!Apply(g[i - 1], w[i])
      BY <1>3
    <3>2. i # 0 => h[i - 1] = g[i - 1]
      BY <1>1
    <3> QED
      BY <3>1, <3>2
  <2> QED
    BY <2>1
<1> DEFINE run[i \in 0..n] == IF i = 0 THEN X ELSE L!Apply(run[i - 1], w[i])
<1> HIDE DEF h
<1>5. run = [i \in 0..n |-> IF i = 0 THEN X ELSE L!Apply(run[i - 1], w[i])]
  BY <1>4 DEF run
<1>6. L!ApplyAll(X, w) = run[n]
  BY DEF L!ApplyAll
<1> HIDE DEF run
<1>7. \A i \in 0..n : run[i] = IF i = 0 THEN X ELSE L!Apply(run[i - 1], w[i])
  BY <1>5
<1> QED
  BY <1>6, <1>7

\* ApplyAll of a prefix is the prefix of the run.
LEMMA ApplyAllIs ==
  ASSUME NEW X, NEW w \in Seq(Nat), NEW g, g[0] = X,
         \A i \in 1..Len(w) : g[i] = L!Apply(g[i - 1], w[i])
  PROVE  L!ApplyAll(X, w) = g[Len(w)]
<1>1. PICK run : /\ \A i \in 0..Len(w) : run[i] = IF i = 0 THEN X ELSE L!Apply(run[i - 1], w[i])
                 /\ L!ApplyAll(X, w) = run[Len(w)]
  BY ApplyAllDef
<1>2. Len(w) \in Nat
  BY SeqLemma
<1> DEFINE A == {i \in Nat : i <= Len(w) => run[i] = g[i]}
<1>3. 0 \in A
  BY <1>1, <1>2
<1>4. ASSUME NEW i \in A PROVE i + 1 \in A
  <2> SUFFICES ASSUME i + 1 <= Len(w) PROVE run[i + 1] = g[i + 1]
    OBVIOUS
  <2>1. /\ i \in Nat /\ i + 1 \in 1..Len(w) /\ i + 1 \in 0..Len(w)
        /\ i + 1 # 0 /\ (i + 1) - 1 = i /\ run[i] = g[i]
    BY <1>2
  <2>2. run[i + 1] = L!Apply(run[i], w[i + 1])
    BY <1>1, <2>1
  <2>3. g[i + 1] = L!Apply(g[i], w[i + 1])
    BY <2>1
  <2> QED
    BY <2>1, <2>2, <2>3
<1>5. A = Nat
  BY <1>3, <1>4, NatSet
<1> QED
  BY <1>1, <1>2, <1>5

\* The operations of w, which are open and different, take effect.
Open(o) == o \in Ops /\ Op[o].kind \in {"Charge", "LimitAccount", "LimitCard"} /\ outcome[o] = "none"

\* A sequence of open, different operations that brings the ledger to its next value is a
\* step of Ledger.
LEMMA Effect ==
  ASSUME AllOK, TheLedger = Led, sent' = sent, NEW w \in Seq(Nat), w # <<>>,
         \A i \in DOMAIN w : Open(w[i]), \A i, j \in DOMAIN w : w[i] = w[j] => i = j,
         TheLedger' = L!ApplyAll(TheLedger, w)
  PROVE  L!TakeEffect
<1>1. PICK n : n = Len(w)
  OBVIOUS
<1>2. n \in Nat \ {0} /\ DOMAIN w = 1..n
  BY <1>1, SeqLemma
<1>3. TheLedger.outcome = outcome /\ Len(sent) \in Nat /\ Ops = 1..Len(sent)
  BY SeqLemma DEF TheLedger, AllOK, Ops
<1>4. w \in [1..n -> {o \in L!LedgerOps : TheLedger.outcome[o] = "none"}]
  <2>1. \A i \in 1..n : w[i] \in {o \in L!LedgerOps : TheLedger.outcome[o] = "none"}
    BY <1>2, <1>3 DEF Open, L!LedgerOps, L!Ops, L!Op, Ops, Op
  <2> QED
    BY <1>1, <2>1
<1>5. L!IsInjective(w)
  BY DEF L!IsInjective
<1>6. n \in 1..Len(sent)
  <2>1. n <= Len(sent)
    <3>1. IsFiniteSet(Ops) /\ Cardinality(Ops) = Len(sent)
      <4>1. \A l \in Nat : IsFiniteSet(1..l) /\ Cardinality(1..l) = l
        BY FS_Interval
      <4> QED
        BY <1>3, <4>1
    <3>2. IsFiniteSet(1..n) /\ Cardinality(1..n) = n
      BY <1>2, FS_Interval
    <3>3. w \in [1..n -> Ops]
      BY <1>1, <1>2 DEF Open
    <3>4. w \in Injection(1..n, Ops)
      BY <1>2, <3>3 DEF Injection, IsInjective
    <3>5. Cardinality(1..n) <= Cardinality(Ops)
      BY <3>1, <3>4, FS_Injection
    <3> QED
      BY <3>1, <3>2, <3>5
  <2> QED
    BY <1>2, <1>3, <2>1
<1> QED
  BY <1>4, <1>5, <1>6 DEF L!TakeEffect

-----------------------------------------------------------------------------
(* Operations that take effect, on a ledger given by its parts *)

Book(al, ac, cl, cc, out) ==
  [accountLimit |-> al, accountConsumed |-> ac, cardLimit |-> cl, cardConsumed |-> cc, outcome |-> out]

\* A function, and a ledger, with some part changed.
Put(f, k, v) == [f EXCEPT ![k] = v]
Charged(X, a, c, x) == [X EXCEPT !.cardConsumed[c] = @ + x, !.accountConsumed[a] = @ + x]
AccountLimited(X, a, x) == [X EXCEPT !.accountLimit[a] = x]
CardLimited(X, c, x)    == [X EXCEPT !.cardLimit[c] = x]

\* The parts of a book, and the book with a limit changed.
LEMMA BookParts ==
  ASSUME NEW al, NEW ac, NEW cl, NEW cc, NEW out
  PROVE  /\ Book(al, ac, cl, cc, out).accountLimit = al
         /\ Book(al, ac, cl, cc, out).accountConsumed = ac
         /\ Book(al, ac, cl, cc, out).cardLimit = cl
         /\ Book(al, ac, cl, cc, out).cardConsumed = cc
         /\ \A a, x : AccountLimited(Book(al, ac, cl, cc, out), a, x) = Book(Put(al, a, x), ac, cl, cc, out)
         /\ \A c, x : CardLimited(Book(al, ac, cl, cc, out), c, x) = Book(al, ac, Put(cl, c, x), cc, out)
BY DEF Book, Put, AccountLimited, CardLimited

\* A charge changes what is consumed of the card and of the account.
LEMMA BookCharge ==
  ASSUME NEW al, NEW ac, NEW cl, NEW cc, NEW out, NEW a, NEW c, NEW x
  PROVE  Charged(Book(al, ac, cl, cc, out), a, c, x) =
           Book(al, Put(ac, a, ac[a] + x), cl, Put(cc, c, cc[c] + x), out)
<1>0. PICK X : X = Book(al, ac, cl, cc, out)
  OBVIOUS
<1>1. Charged(X, a, c, x) = [[X EXCEPT !.cardConsumed[c] = @ + x] EXCEPT !.accountConsumed[a] = @ + x]
  BY DEF Charged
<1>2. [X EXCEPT !.cardConsumed[c] = @ + x] = Book(al, ac, cl, Put(cc, c, cc[c] + x), out)
  BY <1>0 DEF Book, Put
<1>3. \A f : [Book(al, ac, cl, f, out) EXCEPT !.accountConsumed[a] = @ + x]
              = Book(al, Put(ac, a, ac[a] + x), cl, f, out)
  BY DEF Book, Put
<1> QED
  BY <1>0, <1>1, <1>2, <1>3

\* ApplyCharge, ApplyLimitAccount and ApplyLimitCard.
LEMMA ApplyChargeBook ==
  ASSUME NEW al, NEW ac, NEW cl, NEW cc, NEW out, NEW o, Op[o].kind = "Charge",
         NEW c, c = Op[o].card, NEW a, a = Owner[c]
  PROVE  /\ Op[o].offline \/ (Within(cc[c] + Op[o].amount, cl[c]) /\ Within(ac[a] + Op[o].amount, al[a])) =>
              L!Apply(Book(al, ac, cl, cc, out), o) =
                Book(al, Put(ac, a, ac[a] + Op[o].amount), cl, Put(cc, c, cc[c] + Op[o].amount),
                     Put(out, o, "ok"))
         /\ ~Op[o].offline /\ ~(Within(cc[c] + Op[o].amount, cl[c]) /\ Within(ac[a] + Op[o].amount, al[a])) =>
              L!Apply(Book(al, ac, cl, cc, out), o) = Book(al, ac, cl, cc, Put(out, o, "failed"))
<1>1. L!Op = Op /\ \A n, l : L!Within(n, l) <=> Within(n, l)
  BY DEF L!Op, Op, L!Within, Within, L!NoLimit, NoLimit
<1>0. PICK X, Y, N : /\ X = Book(al, ac, cl, cc, out) /\ Y = Book(al, ac, cl, cc, Put(out, o, "ok"))
                     /\ N = Book(al, ac, cl, cc, Put(out, o, "failed"))
  OBVIOUS
<1>2. /\ X.accountLimit = al /\ X.accountConsumed = ac /\ X.cardLimit = cl /\ X.cardConsumed = cc
  BY <1>0, BookParts
<1>3. L!Decide(X, o, TRUE) = Y /\ L!Decide(X, o, FALSE) = N
  <2>1. \A v : [X EXCEPT !.outcome[o] = v] = Book(al, ac, cl, cc, Put(out, o, v))
    BY <1>0 DEF Book, Put
  <2>2. L!Decide(X, o, TRUE) = [X EXCEPT !.outcome[o] = "ok"]
    BY DEF L!Decide
  <2>3. L!Decide(X, o, FALSE) = [X EXCEPT !.outcome[o] = "failed"]
    BY DEF L!Decide
  <2> QED
    BY <1>0, <2>1, <2>2, <2>3
<1>4. L!Apply(X, o) = IF \/ Op[o].offline
                         \/ Within(cc[c] + Op[o].amount, cl[c]) /\ Within(ac[a] + Op[o].amount, al[a])
                      THEN Charged(Y, a, c, Op[o].amount) ELSE N
  <2>1. L!Apply(X, o) = L!ApplyCharge(X, o)
    BY <1>1 DEF L!Apply
  <2> QED
    BY <1>1, <1>2, <1>3, <2>1 DEF L!ApplyCharge, Charged
<1>5. \A x : Charged(Y, a, c, x) =
          Book(al, Put(ac, a, ac[a] + x), cl, Put(cc, c, cc[c] + x), Put(out, o, "ok"))
  BY <1>0, BookCharge
<1> QED
  BY <1>0, <1>4, <1>5

\* What a limit of an account or of a card does to a book.
LEMMA ApplyLimitBook ==
  ASSUME NEW al, NEW ac, NEW cl, NEW cc, NEW out, NEW o
  PROVE  /\ Op[o].kind = "LimitAccount" /\ Within(ac[Op[o].account], Op[o].limit) =>
              L!Apply(Book(al, ac, cl, cc, out), o) =
                Book(Put(al, Op[o].account, Op[o].limit), ac, cl, cc, Put(out, o, "ok"))
         /\ Op[o].kind = "LimitAccount" /\ ~Within(ac[Op[o].account], Op[o].limit) =>
              L!Apply(Book(al, ac, cl, cc, out), o) = Book(al, ac, cl, cc, Put(out, o, "failed"))
         /\ Op[o].kind = "LimitCard" /\ Within(cc[Op[o].card], Op[o].limit) =>
              L!Apply(Book(al, ac, cl, cc, out), o) =
                Book(al, ac, Put(cl, Op[o].card, Op[o].limit), cc, Put(out, o, "ok"))
         /\ Op[o].kind = "LimitCard" /\ ~Within(cc[Op[o].card], Op[o].limit) =>
              L!Apply(Book(al, ac, cl, cc, out), o) = Book(al, ac, cl, cc, Put(out, o, "failed"))
<1>1. L!Op = Op /\ \A n, l : L!Within(n, l) <=> Within(n, l)
  BY DEF L!Op, Op, L!Within, Within, L!NoLimit, NoLimit
<1>0. PICK X, Y, N : /\ X = Book(al, ac, cl, cc, out) /\ Y = Book(al, ac, cl, cc, Put(out, o, "ok"))
                     /\ N = Book(al, ac, cl, cc, Put(out, o, "failed"))
  OBVIOUS
<1>2. /\ X.accountLimit = al /\ X.accountConsumed = ac /\ X.cardLimit = cl /\ X.cardConsumed = cc
  BY <1>0, BookParts
<1>3. L!Decide(X, o, TRUE) = Y /\ L!Decide(X, o, FALSE) = N
  <2>1. \A v : [X EXCEPT !.outcome[o] = v] = Book(al, ac, cl, cc, Put(out, o, v))
    BY <1>0 DEF Book, Put
  <2>2. L!Decide(X, o, TRUE) = [X EXCEPT !.outcome[o] = "ok"]
    BY DEF L!Decide
  <2>3. L!Decide(X, o, FALSE) = [X EXCEPT !.outcome[o] = "failed"]
    BY DEF L!Decide
  <2> QED
    BY <1>0, <2>1, <2>2, <2>3
<1>5. ASSUME Op[o].kind = "LimitAccount"
      PROVE  L!Apply(X, o) = IF Within(ac[Op[o].account], Op[o].limit)
                             THEN AccountLimited(Y, Op[o].account, Op[o].limit) ELSE N
  <2>1. L!Apply(X, o) = L!ApplyLimitAccount(X, o)
    BY <1>1, <1>5 DEF L!Apply
  <2> QED
    BY <1>1, <1>2, <1>3, <1>5, <2>1 DEF L!ApplyLimitAccount, AccountLimited
<1>6. ASSUME Op[o].kind = "LimitCard"
      PROVE  L!Apply(X, o) = IF Within(cc[Op[o].card], Op[o].limit)
                             THEN CardLimited(Y, Op[o].card, Op[o].limit) ELSE N
  <2>1. L!Apply(X, o) = L!ApplyLimitCard(X, o)
    BY <1>1, <1>6 DEF L!Apply
  <2> QED
    BY <1>1, <1>2, <1>3, <1>6, <2>1 DEF L!ApplyLimitCard, CardLimited
<1>7. /\ \A a, x : AccountLimited(Y, a, x) = Book(Put(al, a, x), ac, cl, cc, Put(out, o, "ok"))
      /\ \A c, x : CardLimited(Y, c, x) = Book(al, ac, Put(cl, c, x), cc, Put(out, o, "ok"))
  BY <1>0, BookParts
<1> QED
  BY <1>0, <1>5, <1>6, <1>7

-----------------------------------------------------------------------------
(* A card that runs its tasks *)

\* The outcomes with the operations that r has decided, and the ledger with card c as r.
DoneOutcome(r) ==
  [o \in Ops |-> IF \E i \in 1..Len(r.done) : r.done[i].op = o /\ outcome[o] = "none"
                 THEN Verdict(\E i \in 1..Len(r.done) : r.done[i].op = o /\ r.done[i].ok)
                 ELSE outcome[o]]
After(c, r) ==
  Book([a \in Accounts |-> account[a].limit], [a \in Accounts |-> account[a].consumed],
       [d \in Cards |-> IF d = c THEN r.limit ELSE card[d].limit],
       [d \in Cards |-> IF d = c THEN r.consumed ELSE Owed(d)], DoneOutcome(r))

\* One more operation is decided.
LEMMA DoneAppend ==
  ASSUME NEW d \in Seq([op : Nat, ok : BOOLEAN]), NEW e \in [op : Nat, ok : BOOLEAN],
         NEW r, r.done = d, NEW q, q.done = Append(d, e),
         NEW o \in Ops, e.op = o, outcome[o] = "none", \A j \in 1..Len(d) : d[j].op # o
  PROVE  DoneOutcome(q) = Put(DoneOutcome(r), o, IF e.ok THEN "ok" ELSE "failed")
<1>0. PICK n \in Nat : n = Len(d)
  <2>1. PICK T : T = [op : Nat, ok : BOOLEAN]
    OBVIOUS
  <2>2. d \in Seq(T)
    BY <2>1
  <2> QED
    BY <2>2, SeqLemma
<1>1. PICK b : /\ n = Len(d) /\ b = Append(d, e) /\ Len(b) = n + 1 /\ b[n + 1] = e
               /\ \A j \in 1..n : b[j] = d[j]
  <2>1. PICK T : T = [op : Nat, ok : BOOLEAN]
    OBVIOUS
  <2>2. d \in Seq(T) /\ e \in T
    BY <2>1
  <2>3. /\ Len(Append(d, e)) = Len(d) + 1 /\ Append(d, e)[Len(d) + 1] = e
        /\ \A j \in 1..Len(d) : Append(d, e)[j] = d[j]
    BY <2>2, AppendLemma
  <2> QED
    BY <1>0, <2>3
<1>2. \A j \in 1..(n + 1) : j \in 1..n \/ j = n + 1
  OBVIOUS
<1>3. n + 1 \in 1..(n + 1) /\ \A j \in 1..n : j \in 1..(n + 1)
  OBVIOUS
<1>4. PICK v : v = IF e.ok THEN "ok" ELSE "failed"
  OBVIOUS
<1>5. DoneOutcome(q) = [p \in Ops |-> IF p = o THEN v ELSE DoneOutcome(r)[p]]
  <2>1. ASSUME NEW p \in Ops, p # o PROVE DoneOutcome(q)[p] = DoneOutcome(r)[p]
    <3>1. (\E i \in 1..(n + 1) : b[i].op = p /\ outcome[p] = "none")
            <=> (\E i \in 1..n : d[i].op = p /\ outcome[p] = "none")
      BY <1>1, <1>2, <1>3, <2>1
    <3>2. (\E i \in 1..(n + 1) : b[i].op = p /\ b[i].ok) <=> (\E i \in 1..n : d[i].op = p /\ d[i].ok)
      BY <1>1, <1>2, <1>3, <2>1
    <3> QED
      BY <1>1, <3>1, <3>2 DEF DoneOutcome, Verdict
  <2>2. DoneOutcome(q)[o] = v
    <3>1. \E i \in 1..(n + 1) : b[i].op = o /\ outcome[o] = "none"
      BY <1>1, <1>3
    <3>2. (\E i \in 1..(n + 1) : b[i].op = o /\ b[i].ok) <=> e.ok
      BY <1>1, <1>2, <1>3
    <3> QED
      BY <1>1, <1>4, <3>1, <3>2 DEF DoneOutcome, Verdict
  <2>3. DoneOutcome(q) = [p \in Ops |-> DoneOutcome(q)[p]]
    BY DEF DoneOutcome
  <2> QED
    BY <2>1, <2>2, <2>3
<1>6. Put(DoneOutcome(r), o, v) = [p \in Ops |-> IF p = o THEN v ELSE DoneOutcome(r)[p]]
  <2>1. DOMAIN DoneOutcome(r) = Ops /\ DoneOutcome(r) = [p \in Ops |-> DoneOutcome(r)[p]]
    BY DEF DoneOutcome
  <2> QED
    BY <2>1 DEF Put
<1> QED
  BY <1>4, <1>5, <1>6

\* A task that is offered to a card takes effect when it is done at once, and only then.
LEMMA OfferApplies ==
  ASSUME sent \in Seq(Operation), NEW c \in Cards, NEW r \in CardRun, NEW o, OfCard(o, c),
         outcome[o] = "none", \A j \in 1..Len(r.done) : r.done[j].op # o,
         NEW q, q = Offer(r, o)
  PROVE  \/ q.done = r.done /\ After(c, q) = After(c, r)
         \/ Len(q.done) = Len(r.done) + 1 /\ r.tasks = <<>> /\ After(c, q) = L!Apply(After(c, r), o)
<1>1. /\ o \in Ops /\ Op[o].kind \in {"Charge", "LimitCard"} /\ Op[o].card = c
      /\ o \in Nat /\ (Op[o].kind = "LimitCard" => Op[o].limit \in Limits)
      /\ Op[o].kind = "Charge" => Op[o].amount \in Nat /\ Op[o].offline \in BOOLEAN
  BY OperationType DEF OfCard
<1>2. /\ r.limit \in Limits /\ r.consumed \in Nat
      /\ r.tasks \in Seq(Nat) /\ r.asks \in Seq(Nat) /\ r.done \in Seq([op : Nat, ok : BOOLEAN])
      /\ r = [limit |-> r.limit, consumed |-> r.consumed, tasks |-> r.tasks,
               asks |-> r.asks, done |-> r.done]
  BY DEF CardRun
<1>3. CASE r.tasks # <<>> \/ Admitted(r, o)
  <2>1. q.done = r.done /\ q.limit = r.limit /\ q.consumed = r.consumed
    <3>1. CASE r.tasks # <<>>
      BY <1>2, <3>1 DEF Offer
    <3>2. CASE r.tasks = <<>>
      BY <1>2, <1>3, <3>2 DEF Offer, Admitted
    <3> QED
      BY <3>1, <3>2
  <2>2. After(c, q) = After(c, r)
    BY <2>1 DEF After, DoneOutcome
  <2> QED
    BY <2>1, <2>2
<1>4. CASE r.tasks = <<>> /\ ~Admitted(r, o)
  <2>n. PICK n \in BOOLEAN : n = (Op[o].kind # "Charge" /\ Within(r.consumed, Op[o].limit))
    OBVIOUS
  <2>0. PICK e : /\ n = (Op[o].kind # "Charge" /\ Within(r.consumed, Op[o].limit))
                 /\ e = [op |-> o, ok |-> n]
    BY <2>n
  <2>1. q = [limit |-> IF n THEN Op[o].limit ELSE r.limit, consumed |-> r.consumed,
             tasks |-> <<>>, asks |-> r.asks, done |-> Append(r.done, e)]
    BY <1>2, <1>4, <2>0 DEF Offer, Admitted
  <2>2. e \in [op : Nat, ok : BOOLEAN] /\ e.op = o /\ e.ok = n
    BY <1>1, <2>0
  <2>3. /\ q.limit = IF n THEN Op[o].limit ELSE r.limit
        /\ q.consumed = r.consumed /\ q.done = Append(r.done, e)
    BY <2>1
  <2>4. Len(q.done) = Len(r.done) + 1
    BY <1>2, <2>2, <2>3, AppendLemma
  <2>5. DoneOutcome(q) = Put(DoneOutcome(r), o, IF n THEN "ok" ELSE "failed")
    BY <1>1, <1>2, <2>2, <2>3, DoneAppend, SMTT(30)
  <2>6. PICK al, ac, cl, cc, out :
          /\ al = [a \in Accounts |-> account[a].limit] /\ ac = [a \in Accounts |-> account[a].consumed]
          /\ cl = [d \in Cards |-> IF d = c THEN r.limit ELSE card[d].limit]
          /\ cc = [d \in Cards |-> IF d = c THEN r.consumed ELSE Owed(d)] /\ out = DoneOutcome(r)
    OBVIOUS
  <2>7. After(c, r) = Book(al, ac, cl, cc, out) /\ cl[c] = r.limit /\ cc[c] = r.consumed
    BY <2>6 DEF After
  <2>8. After(c, q) = Book(al, ac, Put(cl, c, q.limit), cc, DoneOutcome(q))
    <3>1. Put(cl, c, q.limit) = [d \in Cards |-> IF d = c THEN q.limit ELSE card[d].limit]
      BY <2>6 DEF Put
    <3> QED
      BY <2>3, <2>6, <3>1 DEF After
  <2>9. CASE Op[o].kind = "Charge"
    <3>1. ~Op[o].offline /\ ~Within(cc[c] + Op[o].amount, cl[c]) /\ n = FALSE
      BY <1>4, <2>0, <2>7, <2>9 DEF Admitted
    <3>2. L!Apply(Book(al, ac, cl, cc, out), o) = Book(al, ac, cl, cc, Put(out, o, "failed"))
      <4>1. PICK a : a = Owner[c]
        OBVIOUS
      <4> QED
        BY <1>1, <2>9, <3>1, <4>1, ApplyChargeBook
    <3>3. Put(cl, c, q.limit) = cl
      BY <2>3, <2>6, <2>7, <3>1 DEF Put
    <3> QED
      BY <1>4, <2>4, <2>5, <2>6, <2>7, <2>8, <3>1, <3>2, <3>3
  <2>10. CASE Op[o].kind = "LimitCard"
    <3>1. n <=> Within(cc[c], Op[o].limit)
      BY <2>0, <2>7, <2>10
    <3>2. /\ n => L!Apply(Book(al, ac, cl, cc, out), o)
                    = Book(al, ac, Put(cl, c, Op[o].limit), cc, Put(out, o, "ok"))
          /\ ~n => L!Apply(Book(al, ac, cl, cc, out), o) = Book(al, ac, cl, cc, Put(out, o, "failed"))
      <4>1. Op[o].card = c
        BY <1>1
      <4> QED
        BY <2>10, <3>1, <4>1, ApplyLimitBook
    <3>3. ~n => Put(cl, c, q.limit) = cl
      BY <2>3, <2>6, <2>7 DEF Put
    <3>4. n => q.limit = Op[o].limit
      BY <2>3
    <3> QED
      BY <1>4, <2>4, <2>5, <2>6, <2>7, <2>8, <3>2, <3>3, <3>4
  <2> QED
    BY <1>1, <2>9, <2>10
<1> QED
  BY <1>3, <1>4

\* What an idle card that has just decided one operation may run, with the ledgers g
\* after each of the operations of w.
Waits(c, s, w) ==
  /\ s \in CardRun /\ s.tasks = <<>> /\ s.asks = <<>> /\ Len(s.done) = 1
  /\ \A j \in 1..Len(w) : OfCard(w[j], c) /\ outcome[w[j]] = "none" /\ w[j] # s.done[1].op
  /\ \A i, j \in 1..Len(w) : w[i] = w[j] => i = j
Ledgers(g, X, w) == g[0] = X /\ \A i \in 1..Len(w) : g[i] = L!Apply(g[i - 1], w[i])

\* One task of the queue.
LEMMA RunStep ==
  ASSUME sent \in Seq(Operation), NEW c \in Cards, NEW s, NEW w \in Seq(Nat), Waits(c, s, w),
         NEW X, NEW g, Ledgers(g, X, w), NEW i \in Nat, i < Len(w),
         NEW r, Runs(s, w, i, r), After(c, r) = g[Len(r.done) - 1], NEW q, q = Offer(r, w[i + 1])
  PROVE  After(c, q) = g[Len(q.done) - 1]
<1>1. PICK k \in 0..i : Ran(s, w, i, k, r)
  BY DEF Runs
<1>2. PICK n \in Nat : n = Len(w)
  BY SeqLemma
<1>3. /\ k \in Nat /\ k <= i /\ i + 1 \in 1..n /\ i + 1 # 0 /\ (i + 1) - 1 = i
      /\ \A j \in 1..k : j \in 1..n /\ j # i + 1
      /\ \A j \in 1..(1 + k) : j = 1 \/ (j - 1 \in 1..k /\ 1 + (j - 1) = j)
      /\ (1 + k) - 1 = k /\ (1 + i + 1) - 1 = i + 1
  BY <1>2
<1>4. /\ r \in CardRun /\ r.tasks \in Seq(Nat) /\ Len(r.done) = 1 + k /\ Len(r.tasks) = i - k
      /\ r.done[1] = s.done[1] /\ \A j \in 1..k : r.done[1 + j].op = w[j]
  <2>1. Len(s.done) = 1 /\ 1 \in 1..1
    BY DEF Waits
  <2> QED
    BY <1>1, <2>1 DEF Runs, Ran, RanDone, RanTasks, CardRun
<1>5. PICK o : o = w[i + 1] /\ OfCard(o, c) /\ outcome[o] = "none" /\ o # s.done[1].op
  BY <1>2, <1>3 DEF Waits
<1>6. ASSUME NEW j \in 1..Len(r.done) PROVE r.done[j].op # o
  <2>1. j = 1 \/ (j - 1 \in 1..k /\ r.done[j].op = w[j - 1])
    BY <1>3, <1>4
  <2>2. CASE j = 1
    BY <1>4, <1>5, <2>2
  <2>3. CASE j - 1 \in 1..k /\ r.done[j].op = w[j - 1]
    <3>1. j - 1 \in 1..n /\ j - 1 # i + 1
      BY <1>3, <2>3
    <3> QED
      BY <1>2, <1>3, <1>5, <2>3, <3>1 DEF Waits
  <2> QED
    BY <2>1, <2>2, <2>3
<1>7. \/ q.done = r.done /\ After(c, q) = After(c, r)
      \/ Len(q.done) = Len(r.done) + 1 /\ r.tasks = <<>> /\ After(c, q) = L!Apply(After(c, r), o)
  <2>1. q = Offer(r, o)
    BY <1>5
  <2>2. r \in CardRun /\ OfCard(o, c) /\ outcome[o] = "none"
    BY <1>4, <1>5
  <2>3. \A j \in 1..Len(r.done) : r.done[j].op # o
    BY <1>6
  <2> QED
    BY <2>1, <2>2, <2>3, OfferApplies
<1>8. CASE q.done = r.done /\ After(c, q) = After(c, r)
  BY <1>8
<1>9. CASE Len(q.done) = Len(r.done) + 1 /\ r.tasks = <<>> /\ After(c, q) = L!Apply(After(c, r), o)
  <2>1. k = i
    <3>1. i - k = 0
      BY <1>4, <1>9
    <3> QED
      BY <1>3, <3>1
  <2>2. After(c, r) = g[i] /\ Len(q.done) - 1 = i + 1
    BY <1>3, <1>4, <1>9, <2>1
  <2>3. g[i + 1] = L!Apply(g[i], o)
    <3>1. g[i + 1] = L!Apply(g[(i + 1) - 1], w[i + 1])
      BY <1>2, <1>3 DEF Ledgers
    <3> QED
      BY <1>3, <1>5, <3>1
  <2> QED
    BY <1>9, <2>2, <2>3
<1> QED
  BY <1>7, <1>8, <1>9

Prefix(w, k) == [i \in 1..k |-> w[i]]

\* The whole queue: the operations that are decided take effect in its order.
LEMMA RunApplies ==
  ASSUME sent \in Seq(Operation), NEW c \in Cards, NEW s, NEW w \in Seq(Nat), Waits(c, s, w),
         NEW q, q = OfferAll(s, w)
  PROVE  \E k \in 0..Len(w) : /\ Len(q.done) = 1 + k
                              /\ After(c, q) = L!ApplyAll(After(c, s), Prefix(w, k))
<1>0. PICK X : X = After(c, s)
  OBVIOUS
<1>1. PICK g : Ledgers(g, X, w)
  <2>1. PICK g : /\ \A i \in 0..Len(w) : g[i] = IF i = 0 THEN X ELSE L!Apply(g[i - 1], w[i])
                 /\ L!ApplyAll(X, w) = g[Len(w)]
    BY ApplyAllDef
  <2>2. Len(w) \in Nat
    BY SeqLemma
  <2>3. 0 \in 0..Len(w) /\ \A i \in 1..Len(w) : i \in 0..Len(w) /\ i # 0
    BY <2>2
  <2>4. Ledgers(g, X, w)
    BY <2>1, <2>3 DEF Ledgers
  <2> QED
    BY <2>4
<1>2. PICK run : /\ \A i \in 0..Len(w) : run[i] = IF i = 0 THEN s ELSE Offer(run[i - 1], w[i])
                 /\ q = run[Len(w)]
  BY OfferAllDef, SMTT(30)
<1>3. Len(w) \in Nat /\ \A i \in 1..Len(w) : w[i] \in Ops /\ Op[w[i]].kind \in {"Charge", "LimitCard"}
  BY SeqLemma DEF Waits, OfCard
<1> DEFINE Rest(i) == Runs(s, w, i, run[i]) /\ After(c, run[i]) = g[Len(run[i].done) - 1]
           A == {i \in Nat : i <= Len(w) => Rest(i)}
<1>4. 0 \in A
  <2>1. run[0] = s
    BY <1>2, <1>3
  <2>2. /\ 0 \in 0..0 /\ 1..0 = {} /\ 0 - 0 = 0 /\ ~(0 < 0) /\ Len(<<>>) = 0 /\ 1 + 0 = 1 /\ 1 - 1 = 0
    OBVIOUS
  <2>3. s \in CardRun /\ s.tasks = <<>> /\ s.asks = <<>> /\ Len(s.done) = 1
    BY DEF Waits
  <2>4. Ran(s, w, 0, 0, s)
    BY <2>2, <2>3 DEF Ran, RanDone, RanTasks
  <2>5. Runs(s, w, 0, s)
    BY <2>2, <2>3, <2>4 DEF Runs
  <2>6. After(c, s) = g[Len(s.done) - 1]
    BY <1>0, <1>1, <2>2, <2>3 DEF Ledgers
  <2> QED
    BY <2>1, <2>5, <2>6
<1>5. ASSUME NEW i \in A PROVE i + 1 \in A
  <2> SUFFICES ASSUME i + 1 <= Len(w) PROVE Rest(i + 1)
    OBVIOUS
  <2>1. /\ i \in Nat /\ i < Len(w) /\ i + 1 \in 1..Len(w) /\ i + 1 \in 0..Len(w)
        /\ i + 1 # 0 /\ (i + 1) - 1 = i
    BY <1>3
  <2>2. Rest(i)
    BY <1>3, <2>1
  <2>3. run[i + 1] = Offer(run[i], w[i + 1])
    BY <1>2, <2>1
  <2> HIDE DEF A
  <2>4. Runs(s, w, i + 1, Offer(run[i], w[i + 1]))
    <3>1. s \in CardRun /\ w[i + 1] \in Ops /\ Op[w[i + 1]].kind \in {"Charge", "LimitCard"}
      BY <1>3, <2>1 DEF Waits
    <3> QED
      BY <2>1, <2>2, <3>1, OfferLemma
  <2>5. After(c, run[i + 1]) = g[Len(run[i + 1].done) - 1]
    <3>1. PICK r, p : r = run[i] /\ p = run[i + 1]
      OBVIOUS
    <3>2. Runs(s, w, i, r) /\ After(c, r) = g[Len(r.done) - 1] /\ p = Offer(r, w[i + 1])
      BY <2>2, <2>3, <3>1
    <3>3. After(c, p) = g[Len(p.done) - 1]
      BY <1>1, <2>1, <3>2, RunStep
    <3> QED
      BY <3>1, <3>3
  <2> QED
    BY <2>3, <2>4, <2>5
<1>6. Rest(Len(w))
  <2>1. A = Nat
    <3>1. A \in SUBSET Nat
      OBVIOUS
    <3> HIDE DEF A
    <3> QED
      BY <1>4, <1>5, <3>1, NatSet
  <2> QED
    BY <1>3, <2>1
<1>7. PICK k \in 0..Len(w) : Len(q.done) = 1 + k
  <2>1. PICK k \in 0..Len(w) : Ran(s, w, Len(w), k, q)
    BY <1>2, <1>6 DEF Runs
  <2>2. Len(q.done) = 1 + k
    BY <2>1 DEF Ran, RanDone, Waits
  <2> QED
    BY <2>2
<1>8. PICK v : v = Prefix(w, k)
  OBVIOUS
<1>9. k \in Nat /\ (1 + k) - 1 = k /\ 1..k \subseteq 1..Len(w)
  BY <1>3
<1>10. v \in Seq(Nat) /\ Len(v) = k /\ \A i \in 1..k : v[i] = w[i]
  <2>1. \A i \in 1..k : w[i] \in Nat
    BY <1>9, SeqLemma
  <2>2. v = [i \in 1..k |-> w[i]]
    BY <1>8 DEF Prefix
  <2>3. v \in [1..k -> Nat]
    BY <2>1, <2>2
  <2> QED
    BY <1>9, <2>2, <2>3
<1>11. L!ApplyAll(X, v) = g[k]
  <2>1. g[0] = X /\ \A i \in 1..Len(v) : g[i] = L!Apply(g[i - 1], v[i])
    BY <1>1, <1>9, <1>10 DEF Ledgers
  <2>2. L!ApplyAll(X, v) = g[Len(v)]
    BY <1>10, <2>1, ApplyAllIs
  <2> QED
    BY <1>10, <2>2
<1>12. After(c, q) = g[k]
  BY <1>2, <1>6, <1>7, <1>9
<1> QED
  BY <1>0, <1>7, <1>8, <1>11, <1>12
-----------------------------------------------------------------------------
(* The steps of the actors as steps of the ledger *)

\* One operation alone.
LEMMA EffectOne ==
  ASSUME AllOK, TheLedger = Led, sent' = sent, NEW o, Open(o), TheLedger' = L!Apply(TheLedger, o)
  PROVE  L!TakeEffect
<1>1. PICK w : w = <<o>>
  OBVIOUS
<1>2. o \in Nat
  BY OperationType DEF Open, AllOK
<1>3. w \in Seq(Nat) /\ w # <<>> /\ Len(w) = 1 /\ DOMAIN w = {1} /\ w[1] = o
  BY <1>1, <1>2
<1>4. PICK X : X = TheLedger
  OBVIOUS
<1>5. L!ApplyAll(X, w) = L!Apply(X, o)
  <2>1. PICK g : g = [i \in 0..1 |-> IF i = 0 THEN X ELSE L!Apply(X, o)]
    OBVIOUS
  <2>2. g[0] = X /\ g[1] = L!Apply(X, o) /\ \A i \in 1..1 : i = 1 /\ i - 1 = 0
    BY <2>1
  <2>3. \A i \in 1..Len(w) : g[i] = L!Apply(g[i - 1], w[i])
    BY <1>3, <2>2
  <2>4. L!ApplyAll(X, w) = g[Len(w)]
    BY <1>3, <2>2, <2>3, ApplyAllIs
  <2> QED
    BY <1>3, <2>2, <2>4
<1>6. (\A i \in DOMAIN w : Open(w[i])) /\ \A i, j \in DOMAIN w : w[i] = w[j] => i = j
  BY <1>3
<1>7. TheLedger' = L!ApplyAll(TheLedger, w)
  BY <1>4, <1>5
<1> QED
  BY <1>3, <1>6, <1>7, Effect

\* A step that neither changes limits and consumption, nor decides anything.
LEMMA LedgerFrame ==
  ASSUME AllOK, Grows, TheLedger = Led, TheLedger' = Led', Calm, UNCHANGED <<card, outcome>>,
         \A a \in Accounts : account'[a].limit = account[a].limit /\ account'[a].consumed = account[a].consumed
  PROVE  TheLedger' = TheLedger
<1>1. \A c \in Cards : Owed(c)' = Owed(c)
  BY OwedFrame DEF Calm
<1> QED
  BY <1>1, LedFrame

\* Database::send: the operation is submitted.
LEMMA SendSubmits ==
  ASSUME AllOK, Grows, TheLedger = Led, TheLedger' = Led', Calm, Send
  PROVE  L!Submit
<1>1. PICK op \in NextOperations(sent) : sent' = Append(sent, op)
  BY DEF Send
<1>2. UNCHANGED <<account, card>> /\ outcome' = Append(outcome, "none")
  BY DEF Send
<1>3. \A c \in Cards : Owed(c)' = Owed(c)
  BY <1>2, OwedFrame DEF Calm
<1>4. Led' = [Led EXCEPT !.outcome = Append(outcome, "none")]
  <2>1. [c \in Cards |-> Owed(c)'] = [c \in Cards |-> Owed(c)]
    BY <1>3
  <2>2. PICK al, ac, cl, cc : /\ al = [a \in Accounts |-> account[a].limit]
                              /\ ac = [a \in Accounts |-> account[a].consumed]
                              /\ cl = [c \in Cards |-> card[c].limit] /\ cc = [c \in Cards |-> Owed(c)]
    OBVIOUS
  <2>3. Led = Book(al, ac, cl, cc, outcome)
    BY <2>2 DEF Led, Book
  <2>4. Led' = Book(al, ac, cl, cc, Append(outcome, "none"))
    BY <1>2, <2>1, <2>2 DEF Led, Book
  <2>5. [Book(al, ac, cl, cc, outcome) EXCEPT !.outcome = Append(outcome, "none")]
          = Book(al, ac, cl, cc, Append(outcome, "none"))
    BY DEF Book
  <2> QED
    BY <2>3, <2>4, <2>5
<1>5. Led.outcome = outcome
  BY DEF Led
<1>6. L!NextOperations(sent) = NextOperations(sent)
  BY DEF L!NextOperations, NextOperations
<1> QED
  BY <1>1, <1>4, <1>5, <1>6 DEF L!Submit

\* A card that runs its tasks: the ledger is the one of what it becomes.
LEMMA BecomesLed ==
  ASSUME AllOK, NEW c \in Cards, NEW s, Becomes(c, s), Decides(c, s), account' = account,
         \A d \in Cards : d # c => Owed(d)' = Owed(d), Owed(c)' = s.consumed
  PROVE  Led' = After(c, s)
<1>1. card' = [card EXCEPT ![c] = [limit |-> s.limit, consumed |-> s.consumed, tasks |-> s.tasks]]
  BY BecomesSends
<1>2. DOMAIN card = Cards
  BY DEF AllOK, CardsOK
<1>3. card'[c].limit = s.limit /\ \A d \in Cards : d # c => card'[d].limit = card[d].limit
  BY <1>1, <1>2
<1>4. [d \in Cards |-> card'[d].limit] = [d \in Cards |-> IF d = c THEN s.limit ELSE card[d].limit]
  BY <1>3
<1>5. [d \in Cards |-> Owed(d)'] = [d \in Cards |-> IF d = c THEN s.consumed ELSE Owed(d)]
  OBVIOUS
<1>6. outcome' = DoneOutcome(s)
  BY DEF Decides, DoneOutcome
<1> QED
  BY <1>4, <1>5, <1>6 DEF Led, After, Book

\* The same for the card as it is, when it has consumed what it owes.
LEMMA IdleLed ==
  ASSUME AllOK, NEW c \in Cards, NEW r, r.limit = card[c].limit, r.consumed = Owed(c),
         \A i \in 1..Len(r.done) : outcome[r.done[i].op] # "none"
  PROVE  After(c, r) = Led
<1>1. outcome = [o \in Ops |-> outcome[o]]
  BY DEF AllOK, HistoryOK
<1>2. DoneOutcome(r) = [o \in Ops |-> outcome[o]]
  BY DEF DoneOutcome
<1>3. /\ [d \in Cards |-> IF d = c THEN r.limit ELSE card[d].limit] = [d \in Cards |-> card[d].limit]
      /\ [d \in Cards |-> IF d = c THEN r.consumed ELSE Owed(d)] = [d \in Cards |-> Owed(d)]
  OBVIOUS
<1> QED
  BY <1>1, <1>2, <1>3 DEF Led, After, Book

\* ApplyChargeFromCard: the charge takes effect when the account decides it.
LEMMA AccountChargeEffect ==
  ASSUME AllOK, AllOK', OrderInv, OrderInv', Grows, OutcomesKnown, Unreplaced,
         TheLedger = Led, TheLedger' = Led', NEW a \in Accounts, AccountCharge(a)
  PROVE  L!TakeEffect
<1>0. PICK h, o, d : h = Head(mailbox[a]) /\ o = h.op /\ d = Op[o].card
  OBVIOUS
<1>k. PICK ok \in BOOLEAN : ok = ChargeAllowed(a, o)
  BY DEF ChargeAllowed
<1>n. PICK n, v : n = (IF ok THEN Op[o].amount ELSE 0) /\ v = Verdict(ok)
  OBVIOUS
<1>1. /\ mailbox[a] # <<>> /\ h.type = "ApplyCharge" /\ UNCHANGED <<sent, card>>
      /\ account' = IF ok THEN [account EXCEPT ![a].consumed = account[a].consumed + Op[o].amount]
                          ELSE account
      /\ outcome' = Put(outcome, o, v)
  BY <1>0, <1>k, <1>n DEF AccountCharge, HasMail, Put
<1>2. /\ ChargeOf(o, d) /\ d \in Cards /\ Owner[d] = a /\ n \in Nat
      /\ card[d].tasks # <<>> /\ o = Head(card[d].tasks) /\ Owed(d) = card[d].consumed
      /\ \A b \in Accounts : account'[b].consumed =
           IF b = Owner[d] THEN account[b].consumed + n ELSE account[b].consumed
      /\ \A c \in Cards : Owed(c)' = IF c = d THEN Owed(c) + n ELSE Owed(c)
  BY <1>0, <1>k, <1>n, AccountChargeOwed
<1>3. Open(o)
  <2>1. a \in Actors /\ h \in InMail(a)
    BY <1>0, <1>1, ActorsApart, AllParts, HeadLemma
  <2>2. outcome[o] = "none"
    BY <1>0, <1>1, <2>1 DEF OutcomesKnown, Tells
  <2> QED
    BY <1>2, <2>2 DEF Open, ChargeOf, OfCard
<1>4. PICK al, ac, cl, cc :
        /\ al = [b \in Accounts |-> account[b].limit] /\ ac = [b \in Accounts |-> account[b].consumed]
        /\ cl = [c \in Cards |-> card[c].limit] /\ cc = [c \in Cards |-> Owed(c)]
  OBVIOUS
<1>5. TheLedger = Book(al, ac, cl, cc, outcome)
  BY <1>4 DEF Led, Book
<1>6. ok <=> Op[o].offline \/ (Within(cc[d] + Op[o].amount, cl[d]) /\ Within(ac[a] + Op[o].amount, al[a]))
  <2>1. Op[o].offline \/ Within(card[d].consumed + Op[o].amount, card[d].limit)
    BY <1>2, <1>4 DEF OutcomesKnown, QueueInv, Admitted
  <2>2. cc[d] = card[d].consumed /\ cl[d] = card[d].limit /\ ac[a] = account[a].consumed /\ al[a] = account[a].limit
    BY <1>2, <1>4
  <2> QED
    BY <1>k, <1>4, <2>1, <2>2 DEF ChargeAllowed
<1>7. \A b \in Accounts : account'[b].limit = account[b].limit
  <2>1. account \in [Accounts -> [limit : Limits, consumed : Nat,
                      pending : [op : Nat, remaining : Nat, spent : Spendings, billing : BOOLEAN]]]
    BY DEF AllOK, AccountsOK
  <2> QED
    BY <1>1, <2>1
<1>8. TheLedger' = Book(al, Put(ac, a, ac[a] + n), cl, Put(cc, d, cc[d] + n), Put(outcome, o, v))
  <2>1. [b \in Accounts |-> account'[b].limit] = al
    BY <1>4, <1>7
  <2>2. [b \in Accounts |-> account'[b].consumed] = Put(ac, a, ac[a] + n)
    BY <1>2, <1>4 DEF Put
  <2>3. [c \in Cards |-> card'[c].limit] = cl
    BY <1>1, <1>4
  <2>4. [c \in Cards |-> Owed(c)'] = Put(cc, d, cc[d] + n)
    BY <1>2, <1>4 DEF Put
  <2> QED
    BY <1>1, <2>1, <2>2, <2>3, <2>4 DEF Led, Book
<1>9. /\ Op[o].offline \/ (Within(cc[d] + Op[o].amount, cl[d]) /\ Within(ac[a] + Op[o].amount, al[a])) =>
             L!Apply(Book(al, ac, cl, cc, outcome), o) =
               Book(al, Put(ac, a, ac[a] + Op[o].amount), cl, Put(cc, d, cc[d] + Op[o].amount),
                    Put(outcome, o, "ok"))
      /\ ~Op[o].offline /\ ~(Within(cc[d] + Op[o].amount, cl[d]) /\ Within(ac[a] + Op[o].amount, al[a])) =>
             L!Apply(Book(al, ac, cl, cc, outcome), o) = Book(al, ac, cl, cc, Put(outcome, o, "failed"))
  <2>1. Op[o].kind = "Charge" /\ d = Op[o].card /\ a = Owner[d]
    BY <1>0, <1>2 DEF ChargeOf
  <2> QED
    BY <2>1, ApplyChargeBook
<1>10. CASE ok
  <2>1. n = Op[o].amount /\ v = "ok"
    BY <1>n, <1>4, <1>10 DEF Verdict
  <2>2. L!Apply(Book(al, ac, cl, cc, outcome), o) =
          Book(al, Put(ac, a, ac[a] + Op[o].amount), cl, Put(cc, d, cc[d] + Op[o].amount), Put(outcome, o, "ok"))
    BY <1>6, <1>10, <1>9
  <2>3. TheLedger' = L!Apply(TheLedger, o)
    BY <1>5, <1>8, <2>1, <2>2
  <2> QED
    BY <1>1, <1>3, <2>3, EffectOne
<1>11. CASE ~ok
  <2>1. v = "failed" /\ Put(ac, a, ac[a] + n) = ac /\ Put(cc, d, cc[d] + n) = cc
    <3>1. n = 0 /\ v = "failed"
      BY <1>n, <1>11 DEF Verdict
    <3>2. account[a].consumed \in Nat /\ card[d].consumed \in Nat
      BY <1>2, AccountType, CardType
    <3>3. ac[a] + n = ac[a] /\ cc[d] + n = cc[d]
      BY <1>2, <1>4, <3>1, <3>2
    <3>4. Put(ac, a, ac[a]) = ac /\ Put(cc, d, cc[d]) = cc
      BY <1>4 DEF Put
    <3> QED
      BY <3>1, <3>3, <3>4
  <2>2. L!Apply(Book(al, ac, cl, cc, outcome), o) = Book(al, ac, cl, cc, Put(outcome, o, "failed"))
    BY <1>6, <1>11, <1>9
  <2>3. TheLedger' = L!Apply(TheLedger, o)
    BY <1>5, <1>8, <2>1, <2>2
  <2> QED
    BY <1>1, <1>3, <2>3, EffectOne
<1> QED
  BY <1>10, <1>11

\* ApplyAccountLimit: the limit takes effect when the account handles it.
LEMMA AccountLimitEffect ==
  ASSUME AllOK, AllOK', OrderInv, Grows, OutcomesKnown, TheLedger = Led, TheLedger' = Led',
         NEW a \in Accounts, AccountLimit(a)
  PROVE  L!TakeEffect
<1>0. PICK h, o : h = Head(mailbox[a]) /\ o = h.op
  OBVIOUS
<1>k. PICK ok \in BOOLEAN : ok = Within(account[a].consumed, Op[o].limit)
  BY DEF Within
<1>v. PICK v : v = Verdict(ok)
  OBVIOUS
<1>1. /\ mailbox[a] # <<>> /\ h.type = "ApplyAccountLimit" /\ UNCHANGED <<sent, card>>
      /\ account' = IF ok THEN [account EXCEPT ![a].limit = Op[o].limit] ELSE account
      /\ outcome' = Put(outcome, o, v)
  BY <1>0, <1>k, <1>v DEF AccountLimit, HasMail, Put
<1>2. o \in Ops /\ Op[o].kind = "LimitAccount" /\ Op[o].account = a /\ outcome[o] = "none"
  <2>1. a \in Actors /\ h \in InMail(a)
    BY <1>0, <1>1, ActorsApart, AllParts, HeadLemma
  <2>2. Op[o].account = a /\ outcome[o] = "none"
    BY <1>0, <1>1, <2>1 DEF OutcomesKnown, Tells
  <2>3. h.type \in Telling
    BY <1>1 DEF Telling
  <2> QED
    BY <1>0, <1>1, <2>1, <2>2, <2>3, TellingOps
<1>3. Open(o)
  BY <1>2 DEF Open
<1>4. PICK al, ac, cl, cc :
        /\ al = [b \in Accounts |-> account[b].limit] /\ ac = [b \in Accounts |-> account[b].consumed]
        /\ cl = [c \in Cards |-> card[c].limit] /\ cc = [c \in Cards |-> Owed(c)]
  OBVIOUS
<1>5. TheLedger = Book(al, ac, cl, cc, outcome)
  BY <1>4 DEF Led, Book
<1>6. ok <=> Within(ac[a], Op[o].limit)
  BY <1>k, <1>4
<1>7. \A b \in Accounts : /\ account'[b].consumed = account[b].consumed
                          /\ account'[b].limit = IF ok /\ b = a THEN Op[o].limit ELSE account[b].limit
  <2>1. account \in [Accounts -> [limit : Limits, consumed : Nat,
                      pending : [op : Nat, remaining : Nat, spent : Spendings, billing : BOOLEAN]]]
    BY DEF AllOK, AccountsOK
  <2> QED
    BY <1>1, <2>1
<1>8. [c \in Cards |-> Owed(c)'] = cc
  <2>1. Calm
    BY AccountLimitOrder
  <2>2. \A c \in Cards : Owed(c)' = Owed(c)
    BY <1>1, <2>1, OwedFrame DEF Calm
  <2> QED
    BY <1>4, <2>2
<1>9. TheLedger' = Book([b \in Accounts |-> account'[b].limit], ac, cl, cc, Put(outcome, o, v))
  <2>1. [b \in Accounts |-> account'[b].consumed] = ac
    BY <1>4, <1>7
  <2>2. [c \in Cards |-> card'[c].limit] = cl
    BY <1>1, <1>4
  <2> QED
    BY <1>1, <1>8, <2>1, <2>2 DEF Led, Book
<1>10. /\ Within(ac[a], Op[o].limit) => L!Apply(Book(al, ac, cl, cc, outcome), o) =
                Book(Put(al, a, Op[o].limit), ac, cl, cc, Put(outcome, o, "ok"))
       /\ ~Within(ac[a], Op[o].limit) =>
             L!Apply(Book(al, ac, cl, cc, outcome), o) = Book(al, ac, cl, cc, Put(outcome, o, "failed"))
  BY <1>2, ApplyLimitBook
<1>11. CASE ok
  <2>1. [b \in Accounts |-> account'[b].limit] = Put(al, a, Op[o].limit) /\ v = "ok"
    BY <1>4, <1>7, <1>v, <1>11 DEF Put, Verdict
  <2>2. TheLedger' = L!Apply(TheLedger, o)
    BY <1>5, <1>6, <1>9, <1>10, <1>11, <2>1
  <2> QED
    BY <1>1, <1>3, <2>2, EffectOne
<1>12. CASE ~ok
  <2>1. [b \in Accounts |-> account'[b].limit] = al /\ v = "failed"
    BY <1>4, <1>7, <1>v, <1>12 DEF Verdict
  <2>2. TheLedger' = L!Apply(TheLedger, o)
    BY <1>5, <1>6, <1>9, <1>10, <1>12, <2>1
  <2> QED
    BY <1>1, <1>3, <2>2, EffectOne
<1> QED
  BY <1>11, <1>12

\* ExecuteCharge and ExecuteLimitChange: what an idle card decides at once takes
\* effect; a charge for the account, or for the queue, has no effect yet.
LEMMA CardTaskEffect ==
  ASSUME AllOK, AllOK', OrderInv, OrderInv', Grows, OutcomesKnown,
         TheLedger = Led, TheLedger' = Led', NEW c \in Cards, CardTask(c)
  PROVE  L!TakeEffect \/ TheLedger' = TheLedger
<1>0. PICK o, r, s : o = Head(mailbox[c]).op /\ r = Run(c, card[c].tasks) /\ s = Offer(r, o)
  OBVIOUS
<1>1. /\ Becomes(c, s) /\ Decides(c, s) /\ UNCHANGED <<sent, account>>
      /\ mailbox[c] # <<>> /\ Head(mailbox[c]).type = "Task"
  BY <1>0 DEF CardTask, HasMail
<1>2. o \in Executed /\ OfCard(o, c) /\ o \in Ops /\ sent \in Seq(Operation)
  BY <1>0, <1>1, TaskHead DEF OfCard, AllOK
<1>3. outcome[o] = "none"
  <2>1. c \in Actors /\ Head(mailbox[c]) \in InMail(c)
    BY <1>1, CardType, HeadLemma
  <2> QED
    BY <1>0, <1>1, <2>1 DEF OutcomesKnown, Tells
<1>4. \A d \in Cards : Owed(d)' = Owed(d)
  BY CardTaskOwed
<1>5. /\ r.limit = card[c].limit /\ r.consumed = card[c].consumed /\ r.tasks = card[c].tasks
      /\ r.done = <<>> /\ Len(r.done) = 0 /\ r \in CardRun
  <2>1. /\ card[c].limit \in Limits /\ card[c].consumed \in Nat /\ card[c].tasks \in Seq(Nat)
    BY CardType
  <2>2. r = [limit |-> card[c].limit, consumed |-> card[c].consumed, tasks |-> card[c].tasks,
             asks |-> <<>>, done |-> <<>>]
    BY <1>0 DEF Run
  <2> QED
    BY <2>1, <2>2 DEF CardRun
<1>6. s.consumed = card[c].consumed
  BY <1>0, <1>2, TaskShape
<1>7. \/ s.done = r.done /\ After(c, s) = After(c, r)
      \/ Len(s.done) = Len(r.done) + 1 /\ r.tasks = <<>> /\ After(c, s) = L!Apply(After(c, r), o)
  <2>1. s = Offer(r, o)
    BY <1>0
  <2>2. r \in CardRun /\ OfCard(o, c) /\ sent \in Seq(Operation) /\ outcome[o] = "none"
    BY <1>2, <1>3, <1>5
  <2>3. \A j \in 1..Len(r.done) : r.done[j].op # o
    <3>1. 1..0 = {}
      OBVIOUS
    <3> QED
      BY <1>5, <3>1
  <2> QED
    BY <2>1, <2>2, <2>3, OfferApplies
<1>8. CASE s.done = r.done /\ After(c, s) = After(c, r)
  <2>1. s.limit = card[c].limit
    <3>1. /\ After(c, s).cardLimit = [d \in Cards |-> IF d = c THEN s.limit ELSE card[d].limit]
          /\ After(c, r).cardLimit = [d \in Cards |-> IF d = c THEN r.limit ELSE card[d].limit]
      BY DEF After, Book
    <3>2. [d \in Cards |-> IF d = c THEN s.limit ELSE card[d].limit][c]
            = [d \in Cards |-> IF d = c THEN r.limit ELSE card[d].limit][c]
      BY <1>8, <3>1
    <3> QED
      BY <1>5, <3>2
  <2>2. \A d \in Cards : card'[d].limit = card[d].limit
    <3>1. card' = [card EXCEPT ![c] = [limit |-> s.limit, consumed |-> s.consumed, tasks |-> s.tasks]]
      BY <1>1, BecomesSends
    <3> QED
      BY <2>1, <3>1 DEF AllOK, CardsOK
  <2>3. outcome' = outcome
    <3>1. outcome = [p \in Ops |-> outcome[p]]
      BY DEF AllOK, HistoryOK
    <3>2. outcome' = [p \in Ops |-> outcome[p]]
      BY <1>1, <1>5, <1>8 DEF Decides
    <3> QED
      BY <3>1, <3>2
  <2> QED
    BY <1>1, <1>4, <2>2, <2>3, LedFrame
<1>9. CASE r.tasks = <<>> /\ After(c, s) = L!Apply(After(c, r), o)
  <2>1. Owed(c) = card[c].consumed
    <3>1. Outstanding(c) = 0 /\ card[c].consumed \in Nat
      BY <1>5, <1>9, OutstandingLemma, CardType
    <3> QED
      BY <3>1 DEF Owed
  <2>2. After(c, r) = Led
    BY <1>5, <2>1, IdleLed
  <2>3. Led' = After(c, s)
    BY <1>1, <1>4, <1>6, <2>1, BecomesLed
  <2>4. TheLedger' = L!Apply(TheLedger, o)
    BY <1>9, <2>2, <2>3
  <2>5. Open(o)
    BY <1>2, <1>3 DEF Open, OfCard
  <2> QED
    BY <1>1, <2>4, <2>5, EffectOne
<1> QED
  BY <1>7, <1>8, <1>9

\* Different, open operations, if any.
LEMMA EffectSome ==
  ASSUME AllOK, TheLedger = Led, sent' = sent, NEW v \in Seq(Nat),
         \A i \in DOMAIN v : Open(v[i]), \A i, j \in DOMAIN v : v[i] = v[j] => i = j,
         TheLedger' = L!ApplyAll(TheLedger, v)
  PROVE  L!TakeEffect \/ TheLedger' = TheLedger
<1>1. CASE v = <<>>
  <2>1. PICK X : X = TheLedger
    OBVIOUS
  <2>2. PICK g : g = [i \in {0} |-> X]
    OBVIOUS
  <2>3. Len(v) = 0 /\ 1..0 = {}
    BY <1>1
  <2>4. g[0] = X /\ \A i \in 1..Len(v) : g[i] = L!Apply(g[i - 1], v[i])
    BY <2>2, <2>3
  <2> HIDE <1>1
  <2>5. L!ApplyAll(X, v) = g[Len(v)]
    BY <2>4, ApplyAllIs
  <2> QED
    BY <2>1, <2>3, <2>4, <2>5
<1>2. CASE v # <<>>
  BY <1>2, Effect
<1> QED
  BY <1>1, <1>2

\* A prefix of a sequence of numbers.
LEMMA PrefixLemma ==
  ASSUME NEW w \in Seq(Nat), NEW k \in 0..Len(w)
  PROVE  /\ Prefix(w, k) \in Seq(Nat) /\ DOMAIN Prefix(w, k) = 1..k
         /\ \A i \in 1..k : i \in 1..Len(w) /\ Prefix(w, k)[i] = w[i]
<1>1. Len(w) \in Nat /\ \A i \in 1..Len(w) : w[i] \in Nat
  BY SeqLemma
<1>2. k \in Nat /\ \A i \in 1..k : i \in 1..Len(w) /\ w[i] \in Nat
  BY <1>1
<1>3. Prefix(w, k) \in [1..k -> Nat]
  BY <1>2 DEF Prefix
<1> QED
  BY <1>2, <1>3 DEF Prefix

\* AccountChargeReply: the charge took effect before; the tasks that were waiting and
\* are decided now take effect one after the other.
LEMMA CardReplyEffect ==
  ASSUME AllOK, AllOK', OrderInv, OrderInv', Grows, OutcomesKnown, Unreplaced,
         TheLedger = Led, TheLedger' = Led', NEW c \in Cards, CardReply(c)
  PROVE  L!TakeEffect \/ TheLedger' = TheLedger
<1>0. PICK m, e, tasks, w, n : /\ m = Head(mailbox[c]) /\ e = [op |-> m.op, ok |-> m.ok]
                               /\ tasks = card[c].tasks /\ w = Waiting(c) /\ n = ConsumedAfter(c, m)
  OBVIOUS
<1>i. PICK r, s : r = [Run(c, <<>>) EXCEPT !.consumed = n, !.done = <<e>>] /\ s = OfferAll(r, w)
  OBVIOUS
<1>1. s = AfterReply(c, m)
  BY <1>0, <1>i DEF AfterReply
<1>2. /\ tasks # <<>> /\ Head(tasks) = m.op /\ Owed(c) = n /\ \A d \in Cards : Owed(d)' = Owed(d)
  BY <1>0, CardReplyOwed
<1>3. /\ Becomes(c, s) /\ Decides(c, s) /\ UNCHANGED <<sent, account>>
      /\ mailbox[c] # <<>> /\ m.type = "AccountChargeReply"
  BY <1>0, <1>1, <1>2 DEF CardReply, AfterReply, HasMail
<1>4. m.ok \in BOOLEAN /\ m.op \in Nat /\ n \in Nat /\ m.op \in Ops
  <2>1. m.ok \in BOOLEAN /\ m.op \in Ops /\ n \in Nat
    BY <1>0, <1>3, ReplyHead
  <2> QED
    BY <2>1 DEF Ops
<1>5. outcome[m.op] # "none"
  <2>1. c \in Actors /\ m \in InMail(c)
    BY <1>0, <1>3, CardType, HeadLemma
  <2> QED
    BY <1>3, <2>1 DEF OutcomesKnown, Tells, Verdict
<1>6. r = [limit |-> card[c].limit, consumed |-> n, tasks |-> <<>>, asks |-> <<>>, done |-> <<e>>]
  BY <1>i DEF Run
<1>7. /\ r \in CardRun /\ r.tasks = <<>> /\ r.asks = <<>> /\ r.done = <<e>> /\ Len(r.done) = 1
      /\ r.done[1].op = m.op /\ r.limit = card[c].limit /\ r.consumed = n
  <2>1. card[c].limit \in Limits
    BY CardType
  <2>2. <<e>> \in Seq([op : Nat, ok : BOOLEAN]) /\ Len(<<e>>) = 1 /\ <<e>>[1] = e /\ e.op = m.op
    <3>1. e \in [op : Nat, ok : BOOLEAN] /\ e.op = m.op
      BY <1>0, <1>4
    <3>2. PICK T : T = [op : Nat, ok : BOOLEAN]
      OBVIOUS
    <3>3. e \in T
      BY <3>1, <3>2
    <3>4. <<e>> \in Seq(T) /\ Len(<<e>>) = 1 /\ <<e>>[1] = e
      BY <3>3
    <3> QED
      BY <3>1, <3>2, <3>4
  <2>3. r.done = <<e>> /\ r.tasks = <<>> /\ r.asks = <<>> /\ r.limit = card[c].limit /\ r.consumed = n
    BY <1>6
  <2>4. r \in CardRun
    BY <1>4, <1>6, <2>1, <2>2 DEF CardRun
  <2> QED
    BY <2>2, <2>3, <2>4
<1>8. /\ tasks \in Seq(Nat) /\ w \in Seq(Nat) /\ Len(w) \in Nat
      /\ \A j \in 1..Len(w) : j + 1 \in DOMAIN tasks /\ j + 1 > 1 /\ w[j] = tasks[j + 1]
  <2>1. tasks \in Seq(Nat) /\ w = Tail(tasks)
    BY <1>0, CardType DEF Waiting
  <2>2. Len(tasks) \in Nat /\ tasks # <<>> => Len(tasks) # 0
    BY <2>1, SeqLemma
  <2>3. w \in Seq(Nat) /\ Len(w) = Len(tasks) - 1 /\ \A j \in 1..(Len(tasks) - 1) : w[j] = tasks[j + 1]
    BY <1>2, <2>1
  <2>4. DOMAIN tasks = 1..Len(tasks) /\ Len(tasks) \in Nat /\ Len(w) \in Nat
    BY <2>1, <2>3, SeqLemma
  <2>5. \A j \in 1..Len(w) : j + 1 \in 1..Len(tasks) /\ j + 1 > 1
    BY <2>3, <2>4
  <2> QED
    BY <2>1, <2>3, <2>4, <2>5
<1>9. ASSUME NEW j \in 1..Len(w) PROVE OfCard(w[j], c) /\ outcome[w[j]] = "none" /\ w[j] # m.op
  <2>1. OfCard(w[j], c)
    <3>1. w[j] \in Range(tasks)
      BY <1>8 DEF Range
    <3> QED
      BY <1>0, <3>1, CardType
  <2>2. outcome[w[j]] = "none"
    BY <1>0, <1>8 DEF OutcomesKnown, QueueInv
  <2> QED
    BY <1>5, <2>1, <2>2
<1>10. \A i, j \in 1..Len(w) : w[i] = w[j] => i = j
  <2>1. \A i, j \in DOMAIN tasks : i < j => tasks[i] < tasks[j]
    BY <1>0 DEF OrderInv, TasksInv
  <2>2. ASSUME NEW i \in 1..Len(w), NEW j \in 1..Len(w), i < j PROVE w[i] # w[j]
    <3>1. i + 1 < j + 1
      BY <1>8, <2>2
    <3>2. w[i] < w[j] /\ w[i] \in Nat /\ w[j] \in Nat
      BY <1>8, <2>1, <3>1, SeqLemma
    <3> QED
      BY <3>2
  <2>3. \A i, j \in 1..Len(w) : i < j \/ j < i \/ i = j
    BY <1>8
  <2> QED
    BY <2>2, <2>3
<1>11. Waits(c, r, w)
  BY <1>7, <1>9, <1>10 DEF Waits
<1>12. PICK k \in 0..Len(w) : /\ Len(s.done) = 1 + k
                              /\ After(c, s) = L!ApplyAll(After(c, r), Prefix(w, k))
  <2>1. sent \in Seq(Operation) /\ w \in Seq(Nat) /\ s = OfferAll(r, w)
    BY <1>i, <1>8 DEF AllOK
  <2> QED
    BY <1>11, <2>1, RunApplies
<1>13. After(c, r) = Led
  <2>1. \A i \in 1..Len(r.done) : outcome[r.done[i].op] # "none"
    BY <1>5, <1>7
  <2> QED
    BY <1>2, <1>7, <2>1, IdleLed
<1>14. Led' = After(c, s)
  <2>1. s.consumed = n
    BY <1>0, <1>1, <1>2, <1>4, ReplyShape
  <2>2. Owed(c)' = s.consumed
    BY <1>2, <2>1
  <2> QED
    BY <1>2, <1>3, <2>2, BecomesLed
<1>15. PICK v : v = Prefix(w, k)
  OBVIOUS
<1>16. TheLedger' = L!ApplyAll(TheLedger, v)
  BY <1>12, <1>13, <1>14, <1>15
<1>17. \A i \in 1..Len(w) : Open(w[i])
  BY <1>9 DEF Open, OfCard
<1>18. /\ v \in Seq(Nat) /\ \A i \in DOMAIN v : Open(v[i])
       /\ \A i, j \in DOMAIN v : v[i] = v[j] => i = j
  BY <1>8, <1>10, <1>15, <1>17, PrefixLemma
<1> QED
  BY <1>3, <1>16, <1>18, EffectSome

-----------------------------------------------------------------------------
(* The refinement *)

\* No operation of a workload resets what is consumed.
NeverReset == \A w \in Workloads : \A i \in DOMAIN w : w[i].kind \notin {"Bill", "ReplaceDatabase"}

\* The router leaves what is in the ledger alone.
LEMMA RouterKeeps == RouterStep => UNCHANGED <<sent, account, card, outcome>>
<1>1. ASSUME NEW o, \/ ExecuteOnCard(o) \/ ExecuteLimitAccount(o) \/ ExecuteQuery(o)
                    \/ ExecuteGetDatabase(o) \/ ExecuteReplaceDatabase(o)
      PROVE  UNCHANGED <<sent, outcome>>
  BY <1>1 DEF ExecuteOnCard, ExecuteLimitAccount, ExecuteQuery, ExecuteGetDatabase,
              ExecuteReplaceDatabase, history
<1>2. ASSUME RouterCompleted \/ RouterDebug \/ RouterSnapshot PROVE UNCHANGED <<sent, outcome>>
  BY <1>2 DEF RouterCompleted, RouterDebug, RouterSnapshot
<1> QED
  BY <1>1, <1>2, RouterUnchanged DEF RouterStep

\* Only Send changes what is sent.
LEMMA SentUnchanged == [Next]_vars /\ ~Send => sent' = sent
<1>1. ASSUME NEW a, AccountStep(a) PROVE sent' = sent
  BY <1>1 DEF AccountStep, AccountCharge, AccountLimit, AccountStart, AccountQueryReply,
              AccountSnapshot, AccountReplace
<1>2. ASSUME NEW c, CardStep(c) PROVE sent' = sent
  BY <1>2 DEF CardStep, CardTask, CardReply, CardQuery, CardSnapshot, CardReplace
<1>3. Recv => sent' = sent
  BY DEF Recv
<1> QED
  BY <1>1, <1>2, <1>3, RouterKeeps DEF Next, vars

\* Then none is ever sent.
LEMMA StaysSimple ==
  ASSUME NeverReset, AllOK, Simple, [Next]_vars
  PROVE  Simple'
<1>1. CASE Send
  <2>1. PICK op \in NextOperations(sent) : sent' = Append(sent, op)
    BY <1>1 DEF Send
  <2>2. PICK w \in Workloads : Len(sent) < Len(w) /\ op = w[Len(sent) + 1]
    BY <2>1 DEF NextOperations
  <2>3. w \in Seq(Operation) /\ sent \in Seq(Operation)
    BY WorkloadsAssumption DEF AllOK
  <2>4. Len(sent) \in Nat /\ Len(w) \in Nat /\ DOMAIN w = 1..Len(w)
    BY <2>3, SeqLemma
  <2>5. Len(sent) + 1 \in DOMAIN w
    BY <2>2, <2>4
  <2>6. op \in Operation /\ op.kind # "Bill" /\ op.kind # "ReplaceDatabase"
    BY <2>2, <2>3, <2>4, <2>5, SeqLemma DEF NeverReset
  <2>7. /\ Len(sent') = Len(sent) + 1 /\ sent'[Len(sent) + 1] = op
        /\ \A i \in 1..Len(sent) : sent'[i] = sent[i]
    BY <2>1, <2>3, <2>6, AppendLemma
  <2>8. \A i \in 1..(Len(sent) + 1) : i \in 1..Len(sent) \/ i = Len(sent) + 1
    BY <2>4
  <2>9. ASSUME NEW i \in 1..Len(sent) PROVE sent[i].kind # "Bill" /\ sent[i].kind # "ReplaceDatabase"
    BY <2>9 DEF Simple, Unreplaced, HasKind, Ops, Op
  <2> QED
    BY <2>6, <2>7, <2>8, <2>9 DEF Simple, Unreplaced, HasKind, Ops, Op
<1>2. CASE ~Send
  <2>1. sent' = sent
    BY <1>2, SentUnchanged
  <2> QED
    BY <2>1 DEF Simple, Unreplaced, HasKind, Ops, Op
<1> QED
  BY <1>1, <1>2

\* The queries and snapshots of an account leave what is in the ledger alone.
LEMMA AccountReportsKeep ==
  ASSUME AllOK, Grows, Simple, NEW a \in Accounts,
         AccountStart(a) \/ AccountQueryReply(a) \/ AccountSnapshot(a)
  PROVE  /\ \A b \in Accounts : account'[b].limit = account[b].limit /\ account'[b].consumed = account[b].consumed
         /\ UNCHANGED <<sent, card, outcome>>
<1>1. account \in [Accounts -> [limit : Limits, consumed : Nat,
                    pending : [op : Nat, remaining : Nat, spent : Spendings, billing : BOOLEAN]]]
  BY DEF AllOK, AccountsOK
<1>2. UNCHANGED <<sent, card, outcome>>
  BY DEF AccountStart, AccountQueryReply, AccountSnapshot, history
<1>3. CASE AccountStart(a)
  <2>0. PICK m : m = Head(mailbox[a])
    OBVIOUS
  <2>1. mailbox[a] # <<>> /\ m.type = "Start" /\ a \in Actors /\ a # Router
    BY <1>3, <2>0, AccountType DEF AccountStart, HasMail
  <2>2. m.op \in Ops
    <3>1. Good(a, m)
      BY <2>0, <2>1, HeadLemma
    <3> QED
      BY <2>1, <3>1, GrowsLemma DEF Good, AccountMail
  <2>3. Op[m.op].kind # "Bill"
    BY <2>2 DEF Simple, HasKind
  <2>4. account' = account \/ \E p : account' = [account EXCEPT ![a].pending = p]
    BY <1>3, <2>0, <2>3 DEF AccountStart
  <2> QED
    BY <1>1, <1>2, <2>4
<1>4. CASE AccountQueryReply(a)
  <2>1. account[a].pending.billing = FALSE
    BY <1>1, AccountType DEF Simple
  <2>2. \/ account' = account
        \/ \E p : account' = [account EXCEPT ![a].pending = p]
        \/ account' = [account EXCEPT ![a] = [limit |-> account[a].limit,
                          consumed |-> account[a].consumed, pending |-> NoQuery]]
    BY <1>4, <2>1 DEF AccountQueryReply
  <2> QED
    BY <1>1, <1>2, <2>2
<1>5. CASE AccountSnapshot(a)
  BY <1>2, <1>5 DEF AccountSnapshot
<1> QED
  BY <1>3, <1>4, <1>5

\* Every step of the actors is a step of the ledger, or leaves it as it is.
LEMMA NextLedger ==
  ASSUME AllOK, OrderInv, OutcomesInv, Simple, Simple', TheLedger = Led, TheLedger' = Led', [Next]_vars
  PROVE  [L!Next]_<<sent, TheLedger>>
<1>1. AllOK' /\ Grows /\ OrderInv' /\ OutcomesKnown /\ Unreplaced
  BY NextOK, NextOrder DEF OutcomesInv, Simple
<1>2. ASSUME sent' = sent, TheLedger' = TheLedger PROVE [L!Next]_<<sent, TheLedger>>
  BY <1>2
<1>3. ASSUME L!TakeEffect PROVE [L!Next]_<<sent, TheLedger>>
  BY <1>3 DEF L!Next
<1>4. ASSUME Calm, UNCHANGED <<sent, card, outcome>>,
             \A a \in Accounts : account'[a].limit = account[a].limit /\ account'[a].consumed = account[a].consumed
      PROVE  [L!Next]_<<sent, TheLedger>>
  <2>1. TheLedger' = TheLedger
    BY <1>1, <1>4, LedgerFrame
  <2> QED
    BY <1>2, <1>4, <2>1
<1>5. CASE UNCHANGED vars \/ Recv
  <2>1. Calm /\ UNCHANGED <<sent, account, card, outcome>>
    BY <1>1, <1>5, IdleOrder DEF vars, Recv, routerVars, history
  <2> QED
    BY <1>4, <2>1
<1>6. CASE Send
  <2>1. Calm
    BY <1>1, <1>6, SendOrder
  <2>2. L!Submit
    BY <1>1, <1>6, <2>1, SendSubmits
  <2> QED
    BY <2>2 DEF L!Next
<1>7. CASE RouterStep
  <2>1. ASSUME NEW o \in Ops,
               \/ ExecuteOnCard(o) \/ ExecuteLimitAccount(o) \/ ExecuteQuery(o)
               \/ ExecuteGetDatabase(o) \/ ExecuteReplaceDatabase(o)
        PROVE  Calm
    BY <1>1, <2>1, ExecuteOnCardOrder, ExecuteLimitAccountOrder, ExecuteQueryOrder,
       ExecuteGetDatabaseOrder, ExecuteReplaceDatabaseOrder
  <2>2. Calm
    BY <1>1, <1>7, <2>1, RouterCompletedOrder, RouterDebugOrder, RouterSnapshotOrder DEF RouterStep
  <2>3. UNCHANGED <<sent, account, card, outcome>>
    BY <1>7, RouterKeeps
  <2> QED
    BY <1>4, <2>2, <2>3
<1>8. ASSUME NEW a \in Accounts, AccountStep(a) PROVE [L!Next]_<<sent, TheLedger>>
  <2>1. CASE AccountCharge(a)
    BY <1>1, <1>3, <2>1, AccountChargeEffect
  <2>2. CASE AccountLimit(a)
    BY <1>1, <1>3, <2>2, AccountLimitEffect
  <2>3. CASE AccountStart(a) \/ AccountQueryReply(a) \/ AccountSnapshot(a)
    <3>1. Calm
      BY <1>1, <2>3, AccountStartOrder, AccountQueryReplyOrder, AccountSnapshotOrder
    <3>2. /\ \A b \in Accounts : account'[b].limit = account[b].limit /\ account'[b].consumed = account[b].consumed
          /\ UNCHANGED <<sent, card, outcome>>
      BY <1>1, <2>3, AccountReportsKeep
    <3> QED
      BY <1>4, <3>1, <3>2
  <2> QED
    BY <1>1, <1>8, <2>1, <2>2, <2>3, NoReplaceState DEF AccountStep
<1>9. ASSUME NEW c \in Cards, CardStep(c) PROVE [L!Next]_<<sent, TheLedger>>
  <2>1. CASE CardTask(c)
    <3>1. L!TakeEffect \/ TheLedger' = TheLedger
      BY <1>1, <2>1, CardTaskEffect
    <3> QED
      BY <1>2, <1>3, <2>1, <3>1 DEF CardTask
  <2>2. CASE CardReply(c)
    <3>1. L!TakeEffect \/ TheLedger' = TheLedger
      BY <1>1, <2>2, CardReplyEffect
    <3> QED
      BY <1>2, <1>3, <2>2, <3>1 DEF CardReply
  <2>3. CASE CardQuery(c) \/ CardSnapshot(c)
    <3>1. Calm
      BY <1>1, <2>3, CardQueryOrder, CardSnapshotOrder
    <3>2. card' = card
      BY <1>1, <2>3, CardReportsOutcomes
    <3>3. UNCHANGED <<sent, account, outcome>>
      BY <2>3 DEF CardQuery, CardSnapshot, history
    <3> QED
      BY <1>4, <3>1, <3>2, <3>3
  <2> QED
    BY <1>1, <1>9, <2>1, <2>2, <2>3, NoReplaceState DEF CardStep
<1> QED
  BY <1>5, <1>6, <1>7, <1>8, <1>9 DEF Next

\* Initially the ledger is empty.
LEMMA InitLedger == Init => L!Init /\ Simple
<1> SUFFICES ASSUME Init PROVE L!Init /\ Simple
  OBVIOUS
<1>1. AllOK /\ OrderInv /\ Ops = {} /\ sent = <<>>
  BY InitOK, InitOrder DEF Init, Ops
<1>2. Simple
  BY <1>1 DEF Simple, Unreplaced, HasKind
<1>3. TheLedger = Led
  BY <1>1, <1>2, LedgerIs DEF Simple
<1>4. \A c \in Cards : Owed(c) = 0
  BY DEF Init, Owed, Outstanding, IsAccepted
<1>5. Led = L!EmptyLedger
  <2>1. \A a \in Accounts : account[a].limit = NoLimit /\ account[a].consumed = 0
    BY DEF Init
  <2>2. \A c \in Cards : card[c].limit = NoLimit
    BY DEF Init
  <2>3. outcome = <<>>
    BY DEF Init
  <2>4. L!NoLimit = NoLimit
    BY DEF L!NoLimit, NoLimit
  <2> QED
    BY <1>4, <2>1, <2>2, <2>3, <2>4 DEF Led, L!EmptyLedger
<1> QED
  BY <1>1, <1>2, <1>3, <1>5 DEF L!Init

\* The actors implement the ledger: every charge and every limit takes effect at one
\* instant, on the card and its account together, although cards and accounts decide at
\* different times and exchange messages.  Nothing is billed or replaced meanwhile.
THEOREM LedgerImplemented ==
  ASSUME NeverReset
  PROVE  Spec => ImplementsLedger
<1>1. Init => AllOK /\ OrderInv /\ OutcomesInv /\ Simple /\ L!Init
  BY InitOK, InitOrder, InitOutcomes, InitLedger
<1>2. AllOK /\ OrderInv /\ OutcomesInv /\ Simple /\ [Next]_vars
        => (AllOK /\ OrderInv /\ OutcomesInv /\ Simple)'
  BY NextOK, NextOrder, NextOutcomes, StaysSimple
<1>3. AllOK /\ OrderInv /\ Simple => TheLedger = Led
  BY LedgerIs DEF Simple
<1>4. AllOK /\ OrderInv /\ OutcomesInv /\ Simple /\ Simple' /\ [Next]_vars
        /\ TheLedger = Led /\ (TheLedger = Led)' => [L!Next]_<<sent, TheLedger>>
  BY NextLedger
<1> QED
  BY <1>1, <1>2, <1>3, <1>4, PTL DEF Spec, ImplementsLedger, L!Spec

-----------------------------------------------------------------------------
(* Answers: the steps of an actor *)

\* Actor x handles a message of a type of heads and sends messages of types.
Acts(x, new, heads, types) ==
  /\ Sends(x, new) /\ Head(mailbox[x]).type \in heads
  /\ \A y : \A m \in Range(Added(new, y)) : m.type \in types

\* One message to y, and none.
LEMMA ActsOne ==
  ASSUME NEW x \in Actors, mailbox[x] # <<>>, NEW y, NEW m, Deliver(x, To(y, m))
  PROVE  /\ Sends(x, To(y, m)) /\ Acts(x, To(y, m), {Head(mailbox[x]).type}, {m.type})
         /\ Range(Added(To(y, m), y)) = {m} /\ \A z : z # y => Range(Added(To(y, m), z)) = {}
         /\ \A M : AtMostOne(Added(To(y, m), y), M)
<1>1. /\ Sends(x, To(y, m)) /\ Range(Added(To(y, m), y)) = {m}
      /\ \A z : z # y => Range(Added(To(y, m), z)) = {}
  BY SendsOne
<1>2. Added(To(y, m), y) = <<m>>
  BY ToLemma DEF Added
<1>3. \A M : AtMostOne(Added(To(y, m), y), M)
  BY <1>2, FewLemma
<1> QED
  BY <1>1, <1>3 DEF Acts

\* The same, with the messages named.
LEMMA ActsTo ==
  ASSUME NEW x \in Actors, mailbox[x] # <<>>, NEW y, NEW m, NEW new, new = To(y, m), Deliver(x, new)
  PROVE  /\ Sends(x, new) /\ Acts(x, new, {Head(mailbox[x]).type}, {m.type})
         /\ Range(Added(new, y)) = {m} /\ \A z : z # y => Range(Added(new, z)) = {}
         /\ \A M : AtMostOne(Added(new, y), M)
<1>1. Deliver(x, To(y, m))
  OBVIOUS
<1>2. /\ Sends(x, To(y, m)) /\ Acts(x, To(y, m), {Head(mailbox[x]).type}, {m.type})
      /\ Range(Added(To(y, m), y)) = {m} /\ \A z : z # y => Range(Added(To(y, m), z)) = {}
      /\ \A M : AtMostOne(Added(To(y, m), y), M)
  BY <1>1, ActsOne
<1> QED
  BY <1>2

\* The same for an actor that sends nothing.
LEMMA ActsNone ==
  ASSUME NEW x \in Actors, mailbox[x] # <<>>, Deliver(x, Nothing)
  PROVE  /\ Sends(x, Nothing) /\ \A types : Acts(x, Nothing, {Head(mailbox[x]).type}, types)
         /\ \A z : Range(Added(Nothing, z)) = {}
BY SendsNone DEF Acts

\* What the mailbox of y holds of M after a step.
LEMMA MailOf ==
  ASSUME AllOK, NEW x, NEW new, Sends(x, new), NEW y \in Actors, NEW M
  PROVE  /\ InMail(y)' \cap M # {} => InMail(y) \cap M # {} \/ Range(Added(new, y)) \cap M # {}
         /\ Range(Added(new, y)) \cap M # {} => InMail(y)' \cap M # {}
         /\ InMail(y) \cap M # {} /\ (y # x \/ Head(mailbox[x]) \notin M) => InMail(y)' \cap M # {}
         /\ y = x /\ Head(mailbox[x]) \in M => InMail(y) \cap M # {}
         /\ /\ y = x /\ Head(mailbox[x]) \in M /\ Range(Added(new, y)) \cap M = {}
            /\ AtMostOne(mailbox[y], M)
            => InMail(y)' \cap M = {}
<1>1. TypeOK
  BY AllParts
<1> QED
  BY <1>1, DeliverLemma

\* A mailbox to which no message of M is sent.
LEMMA MailSame ==
  ASSUME AllOK, NEW x, NEW new, Sends(x, new), NEW y \in Actors, NEW M,
         Range(Added(new, y)) \cap M = {}, y # x \/ Head(mailbox[x]) \notin M
  PROVE  /\ InMail(y)' \cap M = InMail(y) \cap M
         /\ AtMostOne(mailbox[y], M) => AtMostOne(mailbox'[y], M)
BY NoneNewLemma DEF NoneNew

\* The order of two kinds of messages, when those of the first are sent only to a
\* mailbox without the second.
LEMMA PrecedeLemma ==
  ASSUME AllOK, NEW x, NEW new, Sends(x, new), NEW y \in Actors, NEW M, NEW N,
         Precede(mailbox[y], M, N),
         Range(Added(new, y)) \cap M = {} \/ (InMail(y) \cap N = {} /\ Range(Added(new, y)) \cap N = {})
  PROVE  Precede(mailbox'[y], M, N)
<1> DEFINE s == mailbox[y]
           r == IF y = x THEN Tail(s) ELSE s
           t == Added(new, y)
<1>T. PICK T : T = Letter(y) \cup Range(Added(new, y))
  OBVIOUS
<1>1. s \in Seq(T) /\ t \in Seq(T) /\ x \in Actors /\ mailbox[x] # <<>>
  <2>1. s \in Seq(Letter(y)) /\ x \in Actors /\ mailbox[x] # <<>>
    BY DEF AllOK, MailboxOK, Sends
  <2>2. t \in Seq(Range(t))
    <3>1. CASE y \in DOMAIN new
      BY <3>1 DEF Sends, Added
    <3>2. CASE y \notin DOMAIN new
      BY <3>2 DEF Added
    <3> QED
      BY <3>1, <3>2
  <2> QED
    BY <1>T, <2>1, <2>2, SeqMonotonic
<1>2. r \in Seq(T)
  BY <1>1
<1>3. mailbox'[y] = r \o t
  <2>1. mailbox'[y] = IF y \in DOMAIN new THEN r \o new[y] ELSE r
    BY DEF Sends, Deliver
  <2>2. r \o <<>> = r
    BY <1>2
  <2>3. CASE y \in DOMAIN new
    BY <2>1, <2>3 DEF Added
  <2>4. CASE y \notin DOMAIN new
    <3>1. t = <<>>
      BY <2>4 DEF Added
    <3> HIDE DEF r, t
    <3> QED
      BY <2>1, <2>2, <2>4, <3>1
  <2> QED
    BY <2>3, <2>4
<1>4. /\ DOMAIN s = 1..Len(s) /\ Len(s) \in Nat /\ DOMAIN t = 1..Len(t) /\ Len(t) \in Nat
      /\ DOMAIN r = 1..Len(r) /\ Len(r) \in Nat
  BY <1>1, <1>2, SeqLemma
<1>5. PICK d \in {0, 1} : Len(r) = Len(s) - d /\ \A i \in 1..Len(r) : r[i] = s[i + d] /\ i + d \in 1..Len(s)
  <2>1. CASE y = x
    <3>1. Len(r) = Len(s) - 1 /\ \A i \in 1..Len(r) : r[i] = s[i + 1]
      BY <1>1, <2>1
    <3> QED
      BY <1>4, <3>1
  <2>2. CASE y # x
    BY <1>4, <2>2
  <2> QED
    BY <2>1, <2>2
<1>6. /\ DOMAIN (r \o t) = 1..(Len(r) + Len(t))
      /\ \A i \in 1..(Len(r) + Len(t)) : (r \o t)[i] = IF i <= Len(r) THEN r[i] ELSE t[i - Len(r)]
  BY <1>2, <1>1
<1> HIDE DEF r
<1>7. SUFFICES ASSUME NEW i \in DOMAIN (r \o t), NEW j \in DOMAIN (r \o t),
                      (r \o t)[i] \in M, (r \o t)[j] \in N
               PROVE  i < j
  BY <1>3 DEF Precede
<1>8. ASSUME i <= Len(r) PROVE r[i] \in M /\ s[i + d] \in M /\ i + d \in DOMAIN s
  BY <1>4, <1>5, <1>6, <1>7, <1>8
<1>9. ASSUME j <= Len(r) PROVE r[j] \in N /\ s[j + d] \in N /\ j + d \in DOMAIN s /\ s[j + d] \in InMail(y)
  <2>1. r[j] \in N /\ s[j + d] \in N /\ j + d \in DOMAIN s
    BY <1>4, <1>5, <1>6, <1>7, <1>9
  <2> QED
    BY <2>1 DEF InMail, Range
<1>10. ASSUME ~(i <= Len(r)) PROVE t[i - Len(r)] \in M /\ t[i - Len(r)] \in Range(t)
  <2>1. i - Len(r) \in DOMAIN t /\ (r \o t)[i] = t[i - Len(r)]
    BY <1>4, <1>6, <1>10
  <2> QED
    BY <1>7, <2>1 DEF Range
<1>11. ASSUME ~(j <= Len(r)) PROVE t[j - Len(r)] \in N /\ t[j - Len(r)] \in Range(t)
  <2>1. j - Len(r) \in DOMAIN t /\ (r \o t)[j] = t[j - Len(r)]
    BY <1>4, <1>6, <1>11
  <2> QED
    BY <1>7, <2>1 DEF Range
<1>12. i \in Nat /\ j \in Nat
  BY <1>4, <1>6
<1>13. CASE i <= Len(r) /\ j <= Len(r)
  <2>1. i + d < j + d
    BY <1>8, <1>9, <1>13 DEF Precede
  <2> QED
    BY <1>5, <1>12, <2>1
<1>14. CASE ~(i <= Len(r))
  <2>1. Range(t) \cap M # {}
    BY <1>10, <1>14
  <2> QED
    BY <1>9, <1>11, <2>1
<1>15. CASE i <= Len(r) /\ ~(j <= Len(r))
  BY <1>4, <1>12, <1>15
<1> QED
  BY <1>13, <1>14, <1>15

-----------------------------------------------------------------------------
(* Places *)

\* There is one message of M at most, in all mailboxes together.
Unique(M) ==
  /\ \A y \in Actors : AtMostOne(mailbox[y], M)
  /\ \A y, z \in Actors : InMail(y) \cap M # {} /\ InMail(z) \cap M # {} => y = z
Present(M) == \E y \in Actors : InMail(y) \cap M # {}

\* No message of M is sent.
LEMMA UniqueKept ==
  ASSUME AllOK, NEW x, NEW new, Sends(x, new), NEW M, \A y : Range(Added(new, y)) \cap M = {}
  PROVE  /\ Unique(M) => Unique(M)'
         /\ Present(M)' => Present(M)
         /\ Head(mailbox[x]) \notin M => (Present(M) => Present(M)')
         /\ Unique(M) /\ Head(mailbox[x]) \in M => Present(M) /\ ~Present(M)'
<1>1. x \in Actors /\ Actors' = Actors
  BY DEF Sends, Actors
<1>2. \A y \in Actors : AtMostOne(mailbox[y], M) => AtMostOne(mailbox'[y], M)
  BY NoneNewLemma DEF NoneNew
<1>3. \A y \in Actors : InMail(y)' \cap M # {} => InMail(y) \cap M # {}
  BY MailOf
<1>4. Head(mailbox[x]) \notin M => \A y \in Actors : InMail(y) \cap M # {} => InMail(y)' \cap M # {}
  BY MailOf
<1>5. ASSUME Unique(M), Head(mailbox[x]) \in M PROVE Present(M) /\ ~Present(M)'
  <2>1. InMail(x) \cap M # {} /\ InMail(x)' \cap M = {}
    BY <1>1, <1>5, MailOf DEF Unique
  <2> QED
    BY <1>1, <1>3, <1>5, <2>1 DEF Unique, Present
<1> QED
  BY <1>1, <1>2, <1>3, <1>4, <1>5 DEF Unique, Present

\* One message of M is sent, to y, and none was there but the one that is handled.
LEMMA UniqueNew ==
  ASSUME AllOK, NEW x, NEW new, Sends(x, new), NEW M, NEW y \in Actors, y # x, Unique(M),
         Head(mailbox[x]) \in M \/ ~Present(M),
         AtMostOne(Added(new, y), M), Range(Added(new, y)) \cap M # {},
         \A z : z # y => Range(Added(new, z)) \cap M = {}
  PROVE  Unique(M)' /\ Present(M)'
<1>1. x \in Actors /\ Actors' = Actors /\ TypeOK
  BY AllParts DEF Sends, Actors
<1>2. InMail(y) \cap M = {}
  <2>1. Head(mailbox[x]) \in M => InMail(x) \cap M # {}
    BY <1>1, MailOf
  <2> QED
    BY <1>1, <2>1 DEF Unique, Present
<1>3. \A z \in Actors : z # y => InMail(z)' \cap M = {}
  <2> SUFFICES ASSUME NEW z \in Actors, z # y PROVE InMail(z)' \cap M = {}
    OBVIOUS
  <2>1. CASE z = x /\ Head(mailbox[x]) \in M
    BY <2>1, MailOf DEF Unique
  <2>2. CASE ~(z = x /\ Head(mailbox[x]) \in M)
    <3>1. InMail(z) \cap M = {}
      <4>1. CASE Head(mailbox[x]) \in M
        <5>1. InMail(x) \cap M # {}
          BY <1>1, <4>1, MailOf
        <5> QED
          BY <1>1, <2>2, <4>1, <5>1 DEF Unique
      <4>2. CASE ~Present(M)
        BY <4>2 DEF Present
      <4> QED
        BY <4>1, <4>2
    <3>2. Range(Added(new, z)) \cap M = {}
      OBVIOUS
    <3> QED
      BY <3>1, <3>2, MailOf
  <2> QED
    BY <2>1, <2>2
<1>4. InMail(y)' \cap M # {}
  BY MailOf
<1>5. \A z \in Actors : AtMostOne(mailbox'[z], M)
  <2>1. AtMostOne(mailbox'[y], M)
    BY <1>1, <1>2, DeliverLemma DEF Unique
  <2>2. \A z \in Actors : z # y => AtMostOne(mailbox'[z], M)
    BY NoneNewLemma DEF NoneNew, Unique
  <2> QED
    BY <2>1, <2>2
<1> QED
  BY <1>1, <1>3, <1>4, <1>5 DEF Unique, Present

\* What carries an operation.
LEMMA Carrying ==
  /\ \A o : Carriers(o)' = Carriers(o)
  /\ \A o, m : m \in Carriers(o) => m.type \in CarrierTypes /\ m.op = o
  /\ \A y \in Actors : \A m \in Letter(y) : m.type \in CarrierTypes => m \in Carriers(m.op)
<1>1. \A o : Carriers(o)' = Carriers(o)
  BY DEF Carriers
<1>2. \A o, m : m \in Carriers(o) => m.type \in CarrierTypes /\ m.op = o
  BY DEF Carriers
<1>3. \A y \in Actors : \A m \in Letter(y) : m.type \in CarrierTypes => m \in Carriers(m.op)
  BY DEF Carriers, Letter
<1> QED
  BY <1>1, <1>2, <1>3

ResultOnce(o) == \A i, j \in DOMAIN results : results[i].op = o /\ results[j].op = o => i = j

\* No result but one of p is added.
Adds(p) == results' = results \/ \E r \in ActorEvent : results' = Append(results, r) /\ r.op = p

\* The results of another operation.
LEMMA ResultsSame ==
  ASSUME AllOK, NEW p, Adds(p), NEW o, o # p
  PROVE  (Answered(o)' <=> Answered(o)) /\ (ResultOnce(o) => ResultOnce(o)')
<1>1. CASE results' = results
  BY <1>1 DEF Answered, ResultOnce
<1>2. ASSUME NEW r \in ActorEvent, results' = Append(results, r), r.op = p
      PROVE  (Answered(o)' <=> Answered(o)) /\ (ResultOnce(o) => ResultOnce(o)')
  <2>1. results \in Seq(ActorEvent)
    BY DEF AllOK, EventsOK
  <2>2. /\ DOMAIN results = 1..Len(results) /\ Len(results) \in Nat
        /\ Range(results') = Range(results) \cup {r}
        /\ DOMAIN results' = 1..(Len(results) + 1) /\ results'[Len(results) + 1] = r
        /\ \A i \in 1..Len(results) : results'[i] = results[i]
    BY <1>2, <2>1, AppendLemma, SeqLemma
  <2>3. Answered(o)' <=> Answered(o)
    BY <1>2, <2>2 DEF Answered
  <2>4. \A i \in DOMAIN results' : results'[i].op = o =>
          i \in DOMAIN results /\ results[i].op = o
    BY <1>2, <2>2
  <2> QED
    BY <2>3, <2>4 DEF ResultOnce
<1> QED
  BY <1>1, <1>2 DEF Adds

\* The first result of an operation.
LEMMA ResultsAdded ==
  ASSUME AllOK, NEW o, ~Answered(o), NEW r \in ActorEvent, results' = Append(results, r), r.op = o
  PROVE  Answered(o)' /\ ResultOnce(o)'
<1>1. results \in Seq(ActorEvent)
  BY DEF AllOK, EventsOK
<1>2. /\ DOMAIN results = 1..Len(results) /\ Len(results) \in Nat
      /\ Range(results') = Range(results) \cup {r}
      /\ DOMAIN results' = 1..(Len(results) + 1)
      /\ \A i \in 1..Len(results) : results'[i] = results[i]
  BY <1>1, AppendLemma, SeqLemma
<1>3. \A i \in DOMAIN results : results[i].op # o
  BY DEF Answered, Range
<1>4. \A i \in DOMAIN results' : results'[i].op = o => i = Len(results) + 1
  BY <1>2, <1>3
<1> QED
  BY <1>2, <1>4 DEF Answered, ResultOnce

\* OnceInv in these terms.
LEMMA OnceParts ==
  \A o : OnceInv(o) <=>
    (~OnCard(o) =>
       /\ Unique(Carriers(o)) /\ ResultOnce(o)
       /\ Present(Carriers(o)) => ~Awaited(o) /\ ~Answered(o)
       /\ Awaited(o) => ~Answered(o))
BY DEF OnceInv, Unique, Present, Carried, ResultOnce

\* The same after a step.
LEMMA OncePartsNext ==
  \A o : OnceInv(o)' <=>
    (~OnCard(o)' =>
       /\ Unique(Carriers(o))' /\ ResultOnce(o)'
       /\ Present(Carriers(o))' => ~Awaited(o)' /\ ~Answered(o)'
       /\ Awaited(o)' => ~Answered(o)')
BY DEF OnceInv, Unique, Present, Carried, ResultOnce

\* An operation that a step does not move.
LEMMA PlaceStays ==
  ASSUME AllOK, sent' = sent, NEW x, NEW new, Sends(x, new), NEW o \in Ops,
         PlaceInv(o), OnceInv(o), Head(mailbox[x]) \notin Carriers(o),
         \A y : Range(Added(new, y)) \cap Carriers(o) = {},
         Awaited(o)' <=> Awaited(o), NEW p, Adds(p), p # o
  PROVE  PlaceInv(o)' /\ OnceInv(o)'
<1> DEFINE M == Carriers(o)
<1>0. M' = M /\ OnCard(o)' = OnCard(o) /\ o \in Ops'
  BY Carrying DEF OnCard, Op, Ops
<1>1. (Answered(o)' <=> Answered(o)) /\ (ResultOnce(o) => ResultOnce(o)')
  BY ResultsSame
<1> HIDE DEF M
<1>2. /\ Unique(M) => Unique(M)'
      /\ Present(M)' <=> Present(M)
  BY UniqueKept DEF M
<1>3. Carried(o)' <=> Carried(o)
  BY <1>0, <1>2 DEF Carried, Present, M
<1>4. PlaceInv(o)'
  BY <1>1, <1>3 DEF PlaceInv
<1>5. Unique(Carriers(o))' = Unique(M)' /\ Present(Carriers(o))' = Present(M)'
  BY <1>0 DEF M, Unique, Present
<1> QED
  BY <1>0, <1>1, <1>2, <1>4, <1>5, OnceParts, OncePartsNext DEF M

\* An operation that is carried, or waits, moves on: it is carried to y, waits, or is
\* answered.
LEMMA PlaceMoves ==
  ASSUME AllOK, sent' = sent, NEW x, NEW new, Sends(x, new), NEW o \in Ops, ~OnCard(o),
         OnceInv(o), Head(mailbox[x]) \in Carriers(o) \/ Awaited(o),
         \/ \E y \in Actors :
              /\ y # x /\ AtMostOne(Added(new, y), Carriers(o))
              /\ Range(Added(new, y)) \cap Carriers(o) # {}
              /\ \A z : z # y => Range(Added(new, z)) \cap Carriers(o) = {}
              /\ ~Awaited(o)' /\ results' = results
         \/ /\ \A z : Range(Added(new, z)) \cap Carriers(o) = {}
            /\ \/ Awaited(o)' /\ results' = results
               \/ /\ ~Awaited(o)'
                  /\ \E r \in ActorEvent : results' = Append(results, r) /\ r.op = o
  PROVE  PlaceInv(o)' /\ OnceInv(o)'
<1> DEFINE M == Carriers(o)
<1>0. M' = M /\ OnCard(o)' = OnCard(o) /\ x \in Actors
  BY Carrying DEF OnCard, Op, Sends
<1>1. /\ Unique(M) /\ ResultOnce(o)
      /\ Present(M) => ~Awaited(o) /\ ~Answered(o)
      /\ Awaited(o) => ~Answered(o)
  BY OnceParts
<1>2. Head(mailbox[x]) \in M => Present(M)
  BY <1>0, MailOf DEF Present
<1>3. ~Answered(o) /\ (Head(mailbox[x]) \in M \/ ~Present(M))
  BY <1>1, <1>2
<1>4. /\ Unique(Carriers(o))' = Unique(M)' /\ Present(Carriers(o))' = Present(M)'
      /\ Carried(o)' = Present(M)'
  BY <1>0 DEF M, Unique, Present, Carried
<1> HIDE DEF M
<1>5. results' = results => ~Answered(o)' /\ ResultOnce(o)'
  BY <1>1, <1>3 DEF Answered, ResultOnce
<1>6. CASE \E y \in Actors :
              /\ y # x /\ AtMostOne(Added(new, y), Carriers(o))
              /\ Range(Added(new, y)) \cap Carriers(o) # {}
              /\ \A z : z # y => Range(Added(new, z)) \cap Carriers(o) = {}
              /\ ~Awaited(o)' /\ results' = results
  <2>1. PICK y \in Actors :
              /\ y # x /\ AtMostOne(Added(new, y), M)
              /\ Range(Added(new, y)) \cap M # {}
              /\ \A z : z # y => Range(Added(new, z)) \cap M = {}
              /\ ~Awaited(o)' /\ results' = results
    BY <1>6 DEF M
  <2>2. Unique(M)' /\ Present(M)'
    BY <1>1, <1>3, <2>1, UniqueNew
  <2> QED
    BY <1>0, <1>4, <1>5, <2>1, <2>2, OncePartsNext DEF PlaceInv
<1>7. CASE \A z : Range(Added(new, z)) \cap Carriers(o) = {}
  <2>1. Unique(M)' /\ ~Present(M)'
    <3>1. \A z : Range(Added(new, z)) \cap M = {}
      BY <1>7 DEF M
    <3> QED
      BY <1>1, <1>3, <3>1, UniqueKept
  <2>2. CASE Awaited(o)' /\ results' = results
    BY <1>0, <1>4, <1>5, <2>1, <2>2, OncePartsNext DEF PlaceInv
  <2>3. CASE ~Awaited(o)' /\ \E r \in ActorEvent : results' = Append(results, r) /\ r.op = o
    <3>1. Answered(o)' /\ ResultOnce(o)'
      BY <1>3, <2>3, ResultsAdded
    <3> QED
      BY <1>0, <1>4, <2>1, <2>3, <3>1, OncePartsNext DEF PlaceInv
  <2>4. (Awaited(o)' /\ results' = results)
          \/ (~Awaited(o)' /\ \E r \in ActorEvent : results' = Append(results, r) /\ r.op = o)
    BY <1>7
  <2> QED
    BY <2>2, <2>3, <2>4
<1> QED
  BY <1>6, <1>7

\* A step that moves the operation p only.
LEMMA PlacesMove ==
  ASSUME AllOK, sent' = sent, PlacesInv, NEW x, NEW new, Sends(x, new), NEW p,
         Head(mailbox[x]).type \in CarrierTypes => Head(mailbox[x]).op = p,
         \A y : \A m \in Range(Added(new, y)) : m.type \in CarrierTypes => m.op = p,
         Adds(p), \A o \in Ops : o # p => (Awaited(o)' <=> Awaited(o)),
         p \in Ops => PlaceInv(p)' /\ OnceInv(p)'
  PROVE  PlacesInv'
<1> SUFFICES ASSUME NEW o \in Ops PROVE PlaceInv(o)' /\ OnceInv(o)'
  BY DEF PlacesInv, Ops
<1>1. CASE o = p
  BY <1>1
<1>2. CASE o # p
  <2>1. Head(mailbox[x]) \notin Carriers(o) /\ \A y : Range(Added(new, y)) \cap Carriers(o) = {}
    BY <1>2, Carrying
  <2> QED
    BY <1>2, <2>1, PlaceStays DEF PlacesInv
<1> QED
  BY <1>1, <1>2

\* What a step leaves alone does not stop waiting.
LEMMA AwaitedSame ==
  ASSUME \A c \in Cards : card'[c].tasks = card[c].tasks,
         \A a \in Accounts : account'[a].pending = account[a].pending,
         snapshots' = snapshots, 0 \in DOMAIN snapshots => operations'[0] = operations[0]
  PROVE  \A o : Awaited(o)' <=> Awaited(o)
BY DEF Awaited

\* A step that moves no operation.
LEMMA PlacesFrame ==
  ASSUME AllOK, sent' = sent, PlacesInv, NEW x, NEW new, NEW heads, NEW types,
         Acts(x, new, heads, types), (heads \cup types) \cap CarrierTypes = {},
         \A o : Awaited(o)' <=> Awaited(o), results' = results
  PROVE  PlacesInv'
<1>1. 0 \notin Ops
  BY DEF Ops
<1>2. Adds(0)
  BY DEF Adds
<1> QED
  BY <1>1, <1>2, PlacesMove DEF Acts

-----------------------------------------------------------------------------
(* Places: what the actions do *)

\* A step of the router, an account or a card that changes no variable of the others.
LEMMA PlacesIdle ==
  ASSUME UNCHANGED <<sent, operations, snapshots, account, card, mailbox, results>>, PlacesInv
  PROVE  PlacesInv'
<1>1. /\ Ops' = Ops /\ Actors' = Actors /\ \A y : InMail(y)' = InMail(y)
      /\ \A o : Carriers(o)' = Carriers(o) /\ OnCard(o)' = OnCard(o)
  BY Carrying DEF Ops, Op, Actors, InMail, OnCard
<1>2. \A o : Carried(o)' = Carried(o) /\ Awaited(o)' = Awaited(o) /\ Answered(o)' = Answered(o)
  BY <1>1 DEF Carried, Awaited, Answered
<1> QED
  BY <1>1, <1>2 DEF PlacesInv, PlaceInv, OnceInv

\* Database::send: the new operation is with the router.
LEMMA SendPlaces ==
  ASSUME AllOK, AllOK', Grows, AddressInv, Send, PlacesInv
  PROVE  PlacesInv'
<1>0. PICK n, e : n = Len(sent) + 1 /\ e = [type |-> "Execute", op |-> n]
  OBVIOUS
<1>1. /\ mailbox' = [mailbox EXCEPT ![Router] = Append(mailbox[Router], e)]
      /\ UNCHANGED <<operations, snapshots, account, card, results>>
      /\ \E op : sent' = Append(sent, op)
  BY <1>0 DEF Send, routerVars
<1>2. /\ Router \in Actors /\ DOMAIN mailbox = Actors /\ mailbox[Router] \in Seq(RouterMsg)
      /\ Letter(Router) = RouterMsg
  BY ActorsApart DEF AllOK, MailboxOK
<1>3. \A y \in Actors : y # Router => mailbox'[y] = mailbox[y] /\ InMail(y)' = InMail(y)
  BY <1>1, <1>2 DEF InMail
<1>4. Len(sent) \in Nat /\ Ops = 1..Len(sent) /\ n \in Nat /\ n \notin Ops /\ n # 0
  BY <1>0, SeqLemma DEF AllOK, Ops
<1>5. e \in RouterMsg /\ e.type = "Execute" /\ e.op = n
  BY <1>0, <1>4, MakeMessages
<1>6. /\ InMail(Router)' = InMail(Router) \cup {e}
      /\ DOMAIN mailbox[Router] = 1..Len(mailbox[Router]) /\ Len(mailbox[Router]) \in Nat
      /\ DOMAIN mailbox'[Router] = 1..(Len(mailbox[Router]) + 1)
      /\ mailbox'[Router][Len(mailbox[Router]) + 1] = e
      /\ \A i \in 1..Len(mailbox[Router]) : mailbox'[Router][i] = mailbox[Router][i]
  BY <1>1, <1>2, <1>5, AppendLemma, SeqLemma DEF InMail
<1>7. Ops' = Ops \cup {n}
  <2>1. PICK op : sent' = Append(sent, op)
    BY <1>1
  <2>2. Len(sent') = Len(sent) + 1
    BY <2>1 DEF AllOK
  <2> QED
    BY <1>0, <1>4, <2>2 DEF Ops
<1>8. Actors' = Actors /\ \A o : Carriers(o)' = Carriers(o)
  BY Carrying DEF Actors
<1>9. \A o : (Awaited(o)' <=> Awaited(o)) /\ (Answered(o)' <=> Answered(o))
  BY <1>1 DEF Awaited, Answered
<1>10. ASSUME NEW y \in Actors, NEW m \in InMail(y), m.type \in CarrierTypes PROVE m.op \in Ops
  <2>1. Good(y, m) /\ m \in Letter(y) /\ (y = Router \/ y \in Accounts \/ y \in Cards) /\ Executed \subseteq Ops
    BY ActorsApart, SeqLemma, GrowsLemma DEF AllOK, MailboxOK, InMail
  <2>2. CASE y = Router
    <3>1. m.type \in {"Execute", "OperationCompleted", "AccountQueryCompleted"}
      BY <1>2, <1>10, <2>1, <2>2 DEF RouterMsg, Debug, CarrierTypes
    <3> QED
      BY <2>1, <2>2, <3>1 DEF Good, RouterMail
  <2>3. CASE y \in Accounts
    <3>1. m.type \in {"ApplyAccountLimit", "Start"}
      BY <1>10, <2>1, <2>3, ActorsApart DEF AccountMsg, StateMsg, CarrierTypes
    <3> QED
      BY <2>1, <2>3, <3>1, ActorsApart DEF Good, AccountMail
  <2>4. CASE y \in Cards
    <3>1. m.type = "Task"
      BY <1>10, <2>1, <2>4, ActorsApart DEF CardMsg, StateMsg, CarrierTypes
    <3> QED
      BY <2>1, <2>4, <3>1, ActorsApart DEF Good, CardMail
  <2> QED
    BY <2>1, <2>2, <2>3, <2>4
<1>11. ASSUME NEW o \in Ops PROVE PlaceInv(o)' /\ OnceInv(o)'
  <2> DEFINE M == Carriers(o)
  <2>1. e \notin M /\ PlaceInv(o) /\ OnceInv(o) /\ OnCard(o)' = OnCard(o)
    BY <1>4, <1>5, <1>11, Carrying DEF PlacesInv, OnCard, Grows
  <2> HIDE DEF M
  <2>2. \A y \in Actors : InMail(y)' \cap M = InMail(y) \cap M
    BY <1>3, <1>6, <2>1
  <2>3. \A y \in Actors : AtMostOne(mailbox[y], M) => AtMostOne(mailbox'[y], M)
    <3>1. ASSUME AtMostOne(mailbox[Router], M) PROVE AtMostOne(mailbox'[Router], M)
      <4>1. \A i \in DOMAIN mailbox'[Router] : mailbox'[Router][i] \in M =>
              i \in DOMAIN mailbox[Router] /\ mailbox[Router][i] \in M
        BY <1>6, <2>1
      <4> QED
        BY <3>1, <4>1 DEF AtMostOne
    <3> QED
      BY <1>3, <3>1
  <2>4. (Unique(M) => Unique(M)') /\ (Present(M)' <=> Present(M))
    BY <1>8, <2>2, <2>3 DEF Unique, Present
  <2>5. Unique(Carriers(o))' = Unique(M)' /\ Present(Carriers(o))' = Present(M)' /\ Carried(o)' = Present(M)'
    BY <1>8 DEF M, Unique, Present, Carried
  <2>6. (ResultOnce(o)' <=> ResultOnce(o)) /\ Carried(o) = Present(M)
    BY <1>1 DEF ResultOnce, M, Present, Carried
  <2>7. PlaceInv(o)'
    BY <1>9, <2>1, <2>4, <2>5, <2>6 DEF PlaceInv
  <2> QED
    BY <1>9, <2>1, <2>4, <2>5, <2>6, <2>7, OnceParts, OncePartsNext DEF M
<1>12. PlaceInv(n)' /\ OnceInv(n)'
  <2> DEFINE M == Carriers(n)
  <2>1. e \in M /\ \A y \in Actors : InMail(y) \cap M = {}
    <3>1. e \in M
      BY <1>2, <1>5, Carrying DEF CarrierTypes
    <3> QED
      BY <1>4, <1>10, <3>1, Carrying
  <2> HIDE DEF M
  <2>2. Present(M)' /\ Unique(M)'
    <3>1. InMail(Router)' \cap M = {e} /\ \A y \in Actors : y # Router => InMail(y)' \cap M = {}
      BY <1>2, <1>3, <1>6, <2>1
    <3>2. \A y \in Actors : AtMostOne(mailbox'[y], M)
      <4>1. \A i \in DOMAIN mailbox'[Router] : mailbox'[Router][i] \in M => i = Len(mailbox[Router]) + 1
        <5>1. \A i \in DOMAIN mailbox[Router] : mailbox[Router][i] \notin M
          BY <1>2, <2>1 DEF InMail, Range
        <5> QED
          BY <1>6, <5>1
      <4>2. \A y \in Actors : y # Router => \A i \in DOMAIN mailbox'[y] : mailbox'[y][i] \notin M
        BY <3>1 DEF InMail, Range
      <4> QED
        BY <4>1, <4>2 DEF AtMostOne
    <3> QED
      BY <1>2, <1>8, <3>1, <3>2 DEF Present, Unique
  <2>3. ~Awaited(n)
    <3>1. \A c \in Cards : n \notin Range(card[c].tasks)
      BY <1>4 DEF AllOK, CardsOK, TasksKnown, OfCard
    <3>2. \A a \in Accounts : account[a].pending.op # n
      BY <1>4, GrowsLemma DEF AddressInv
    <3>3. 0 \in DOMAIN snapshots => operations[0] # n
      BY <1>4 DEF AllOK, RouterOK, RouterInv
    <3> QED
      BY <3>1, <3>2, <3>3 DEF Awaited
  <2>4. \A r \in Range(results) : r.op # n
    BY <1>4 DEF AllOK, EventsOK, ResultsKnown
  <2>5. ~Answered(n)' /\ ResultOnce(n)' /\ ~Awaited(n)'
    BY <1>1, <1>9, <2>3, <2>4 DEF Answered, ResultOnce, Range
  <2>6. Unique(Carriers(n))' = Unique(M)' /\ Present(Carriers(n))' = Present(M)' /\ Carried(n)' = Present(M)'
    BY <1>8 DEF M, Unique, Present, Carried
  <2> QED
    BY <2>2, <2>5, <2>6, OncePartsNext DEF PlaceInv
<1> QED
  BY <1>7, <1>11, <1>12 DEF PlacesInv

\* What stays the same when the router executes an operation with an id of its own.
LEMMA ExecuteIds ==
  ASSUME AllOK, NEW o, NEW kinds, Execute(o, kinds), sent' = sent,
         {"GetDatabase", "ReplaceDatabase"} \cap kinds = {}
  PROVE  0 \in DOMAIN snapshots => operations'[0] = operations[0]
<1>1. operations' = Insert(operations, OpId(o), o) /\ Op[o].kind \in kinds /\ o \in Ops
  BY ExecuteLemma DEF Execute
<1>2. OpId(o) = o /\ o # 0
  BY <1>1 DEF OpId, Ops
<1>3. 0 \in DOMAIN snapshots => 0 \in DOMAIN operations
  BY DEF AllOK, RouterOK, RouterInv
<1> QED
  BY <1>1, <1>2, <1>3 DEF Insert

\* Handler<RouterCmd>: Charge and LimitCard.
LEMMA ExecuteOnCardActs ==
  ASSUME AllOK, NEW o, ExecuteOnCard(o), NEW new,
         new = To(Op[o].card, [type |-> "Task", op |-> o])
  PROVE  /\ Acts(Router, new, {"Execute"}, {"Task"})
         /\ o \in Ops /\ OnCard(o) /\ Head(mailbox[Router]).op = o
         /\ Range(Added(new, Op[o].card)) = {[type |-> "Task", op |-> o]} /\ Op[o].card \in Cards
         /\ \A y : \A m \in Range(Added(new, y)) : m.op = o
         /\ UNCHANGED <<sent, events, snapshots, account, card, results>>
         /\ 0 \in DOMAIN snapshots => operations'[0] = operations[0]
<1>1. /\ Execute(o, {"Charge", "LimitCard"}) /\ Deliver(Router, new)
      /\ UNCHANGED <<sent, events, snapshots, account, card, results>>
  BY DEF ExecuteOnCard, history
<1>2. /\ o \in Ops /\ Op[o].kind \in {"Charge", "LimitCard"} /\ Router \in Actors /\ mailbox[Router] # <<>>
      /\ Head(mailbox[Router]).type = "Execute" /\ Head(mailbox[Router]).op = o
  BY <1>1, ExecuteLemma
<1>m. PICK m, c : m = [type |-> "Task", op |-> o] /\ c = Op[o].card
  OBVIOUS
<1>3. /\ Sends(Router, new) /\ Acts(Router, new, {"Execute"}, {"Task"})
      /\ Range(Added(new, c)) = {m} /\ \A z : z # c => Range(Added(new, z)) = {}
  <2>1. new = To(c, m) /\ m.type = "Task" /\ Deliver(Router, new)
    BY <1>1, <1>m
  <2>2. Router \in Actors /\ mailbox[Router] # <<>>
    BY <1>2
  <2>3. /\ Sends(Router, new) /\ Acts(Router, new, {Head(mailbox[Router]).type}, {m.type})
        /\ Range(Added(new, c)) = {m} /\ \A z : z # c => Range(Added(new, z)) = {}
        /\ \A M : AtMostOne(Added(new, c), M)
    BY <2>1, <2>2, ActsTo
  <2> QED
    BY <1>2, <2>1, <2>3
<1>4. Op[o].card \in Cards
  BY <1>2, OperationType DEF AllOK, Ops, Op
<1>5. 0 \in DOMAIN snapshots => operations'[0] = operations[0]
  BY <1>1, ExecuteIds
<1>6. \A y : \A k \in Range(Added(new, y)) : k.op = o
  BY <1>3, <1>m
<1> QED
  BY <1>1, <1>2, <1>3, <1>4, <1>5, <1>6, <1>m DEF OnCard

\* An operation of a card moves.
LEMMA CardPlaces ==
  ASSUME NEW o, OnCard(o), sent' = sent, Carried(o)' \/ Awaited(o)' \/ Answered(o)'
  PROVE  PlaceInv(o)' /\ OnceInv(o)'
<1>1. OnCard(o)'
  BY DEF OnCard, Op
<1> QED
  BY <1>1 DEF PlaceInv, OnceInv

\* A message that carries o is sent to y.
LEMMA IsCarried ==
  ASSUME AllOK, NEW x, NEW new, Sends(x, new), NEW y \in Actors, NEW m \in Range(Added(new, y)),
         m \in Letter(y), m.type \in CarrierTypes
  PROVE  Carried(m.op)'
<1>1. m \in Carriers(m.op) /\ Carriers(m.op)' = Carriers(m.op) /\ y \in Actors'
  BY Carrying DEF Actors
<1>2. InMail(y)' \cap Carriers(m.op) # {}
  BY <1>1, MailOf
<1> QED
  BY <1>1, <1>2 DEF Carried

\* The same step: the operation is with its card.
LEMMA ExecuteOnCardPlaces ==
  ASSUME AllOK, PlacesInv, NEW o, ExecuteOnCard(o)
  PROVE  PlacesInv'
<1>0. PICK new, c, m : /\ new = To(Op[o].card, [type |-> "Task", op |-> o]) /\ c = Op[o].card
                       /\ m = [type |-> "Task", op |-> o]
  OBVIOUS
<1>1. /\ Acts(Router, new, {"Execute"}, {"Task"}) /\ o \in Ops /\ OnCard(o)
      /\ Head(mailbox[Router]).op = o /\ Range(Added(new, c)) = {m} /\ c \in Cards
      /\ \A y : \A k \in Range(Added(new, y)) : k.op = o
      /\ UNCHANGED <<sent, events, snapshots, account, card, results>>
      /\ 0 \in DOMAIN snapshots => operations'[0] = operations[0]
  BY <1>0, ExecuteOnCardActs
<1>2. Carried(o)'
  <2>0. m \in CardMsg
    <3>1. o \in Nat
      BY <1>1 DEF Ops
    <3>2. [type |-> "Task", op |-> o] \in CardMsg
      BY <3>1, MakeMessages
    <3> QED
      BY <1>0, <3>2
  <2>1. c \in Actors /\ m \in Letter(c)
    BY <1>1, <2>0, ActorsApart
  <2> QED
    BY <1>0, <1>1, <2>1, IsCarried DEF Acts, CarrierTypes
<1>3. PlaceInv(o)' /\ OnceInv(o)'
  BY <1>1, <1>2, CardPlaces
<1>4. (\A p : Awaited(p)' <=> Awaited(p)) /\ Adds(o)
  BY <1>1, AwaitedSame DEF Adds
<1> QED
  BY <1>1, <1>3, <1>4, PlacesMove DEF Acts

\* Handler<RouterCmd>: LimitAccount.
LEMMA ExecuteLimitAccountActs ==
  ASSUME AllOK, NEW o, ExecuteLimitAccount(o), NEW new,
         new = To(Op[o].account, [type |-> "ApplyAccountLimit", op |-> o])
  PROVE  /\ Acts(Router, new, {"Execute"}, {"ApplyAccountLimit"})
         /\ o \in Ops /\ ~OnCard(o) /\ Head(mailbox[Router]).op = o
         /\ Range(Added(new, Op[o].account)) = {[type |-> "ApplyAccountLimit", op |-> o]}
         /\ \A y : y # Op[o].account => Range(Added(new, y)) = {}
         /\ \A M : AtMostOne(Added(new, Op[o].account), M) /\ Op[o].account \in Accounts
         /\ UNCHANGED <<sent, events, snapshots, account, card, results>>
         /\ 0 \in DOMAIN snapshots => operations'[0] = operations[0]
<1>1. /\ Execute(o, {"LimitAccount"}) /\ Deliver(Router, new)
      /\ UNCHANGED <<sent, events, snapshots, account, card, results>>
  BY DEF ExecuteLimitAccount, history
<1>2. /\ o \in Ops /\ Op[o].kind = "LimitAccount" /\ Router \in Actors /\ mailbox[Router] # <<>>
      /\ Head(mailbox[Router]).type = "Execute" /\ Head(mailbox[Router]).op = o
  BY <1>1, ExecuteLemma
<1>m. PICK m, a : m = [type |-> "ApplyAccountLimit", op |-> o] /\ a = Op[o].account
  OBVIOUS
<1>3. /\ Sends(Router, new) /\ Acts(Router, new, {"Execute"}, {"ApplyAccountLimit"})
      /\ Range(Added(new, a)) = {m} /\ \A z : z # a => Range(Added(new, z)) = {}
      /\ \A M : AtMostOne(Added(new, a), M)
  <2>1. new = To(a, m) /\ m.type = "ApplyAccountLimit" /\ Deliver(Router, new)
    BY <1>1, <1>m
  <2>2. Router \in Actors /\ mailbox[Router] # <<>>
    BY <1>2
  <2>3. /\ Sends(Router, new) /\ Acts(Router, new, {Head(mailbox[Router]).type}, {m.type})
        /\ Range(Added(new, a)) = {m} /\ \A z : z # a => Range(Added(new, z)) = {}
        /\ \A M : AtMostOne(Added(new, a), M)
    BY <2>1, <2>2, ActsTo
  <2> QED
    BY <1>2, <2>1, <2>3
<1>4. Op[o].account \in Accounts
  BY <1>2, OperationType DEF AllOK, Ops, Op
<1>5. 0 \in DOMAIN snapshots => operations'[0] = operations[0]
  BY <1>1, ExecuteIds
<1> QED
  BY <1>1, <1>2, <1>3, <1>4, <1>5, <1>m DEF OnCard

\* An operation goes from the head of x to y and nothing else happens.
LEMMA PlacePassed ==
  ASSUME AllOK, PlacesInv, NEW x, NEW new, Sends(x, new), NEW o \in Ops, ~OnCard(o), sent' = sent,
         Head(mailbox[x]).type \in CarrierTypes, Head(mailbox[x]).op = o,
         NEW y \in Actors, y # x, NEW m \in Letter(y), m.type \in CarrierTypes, m.op = o,
         \A M : AtMostOne(Added(new, y), M), Range(Added(new, y)) = {m},
         \A z : z # y => \A k \in Range(Added(new, z)) : k.type \notin CarrierTypes,
         results' = results, \A p : Awaited(p)' <=> Awaited(p)
  PROVE  PlacesInv'
<1>1. x \in Actors /\ Head(mailbox[x]) \in Letter(x)
  BY HeadLemma DEF Sends
<1>2. Head(mailbox[x]) \in Carriers(o) /\ m \in Carriers(o)
  BY <1>1, Carrying
<1>3. \A z : z # y => Range(Added(new, z)) \cap Carriers(o) = {}
  BY Carrying
<1>4. ~Awaited(o)'
  <2>1. InMail(x) \cap Carriers(o) # {}
    BY <1>1, <1>2, MailOf
  <2>2. Present(Carriers(o))
    BY <1>1, <2>1 DEF Present
  <2> QED
    BY <2>2, OnceParts DEF PlacesInv
<1>5. PlaceInv(o)' /\ OnceInv(o)'
  BY <1>2, <1>3, <1>4, PlaceMoves DEF PlacesInv
<1>6. Adds(o) /\ \A z : \A k \in Range(Added(new, z)) : k.type \in CarrierTypes => k.op = o
  BY DEF Adds
<1> QED
  BY <1>5, <1>6, PlacesMove

\* The same step: the limit is with its account.
LEMMA ExecuteLimitAccountPlaces ==
  ASSUME AllOK, PlacesInv, NEW o, ExecuteLimitAccount(o)
  PROVE  PlacesInv'
<1>0. PICK new, a, m : /\ new = To(Op[o].account, [type |-> "ApplyAccountLimit", op |-> o])
                       /\ a = Op[o].account /\ m = [type |-> "ApplyAccountLimit", op |-> o]
  OBVIOUS
<1>1. /\ Acts(Router, new, {"Execute"}, {"ApplyAccountLimit"}) /\ o \in Ops /\ ~OnCard(o)
      /\ Head(mailbox[Router]).op = o /\ Range(Added(new, a)) = {m} /\ a \in Accounts
      /\ \A y : y # a => Range(Added(new, y)) = {}
      /\ \A M : AtMostOne(Added(new, a), M)
      /\ UNCHANGED <<sent, events, snapshots, account, card, results>>
      /\ 0 \in DOMAIN snapshots => operations'[0] = operations[0]
  BY <1>0, ExecuteLimitAccountActs
<1>2. a \in Actors /\ m \in Letter(a) /\ a # Router
  <2>1. m \in AccountMsg
    <3>1. o \in Nat
      BY <1>1 DEF Ops
    <3>2. [type |-> "ApplyAccountLimit", op |-> o] \in AccountMsg
      BY <3>1, MakeMessages
    <3> QED
      BY <1>0, <3>2
  <2> QED
    BY <1>1, <2>1, ActorsApart
<1>3. \A p : Awaited(p)' <=> Awaited(p)
  BY <1>1, AwaitedSame
<1>4. m.type \in CarrierTypes /\ m.op = o /\ Head(mailbox[Router]).type \in CarrierTypes
  BY <1>0, <1>1 DEF CarrierTypes, Acts
<1> QED
  BY <1>1, <1>2, <1>3, <1>4, PlacePassed DEF Acts

\* Query o is sent to account a and its cards mine.
AsksAll(new, o, a, mine, m) ==
  /\ Acts(Router, new, {"Execute"}, {"Start", "QueryCardState"})
  /\ o \in Ops /\ IsQuery(o) /\ Head(mailbox[Router]).op = o /\ a \in Accounts /\ mine \subseteq Cards
  /\ m \in AccountMsg
  /\ Range(Added(new, a)) = {m} /\ \A M : AtMostOne(Added(new, a), M)
  /\ \A y \in mine : /\ Range(Added(new, y)) = {[type |-> "QueryCardState", op |-> o]}
                     /\ \A M : AtMostOne(Added(new, y), M)
  /\ \A y : y # a /\ y \notin mine => Range(Added(new, y)) = {}
  /\ UNCHANGED <<sent, events, snapshots, account, card, results>>
  /\ 0 \in DOMAIN snapshots => operations'[0] = operations[0]

\* Handler<RouterCmd>: AccountQuery and Bill.
LEMMA ExecuteQueryActs ==
  ASSUME AllOK, NEW o, ExecuteQuery(o), NEW a, a = Op[o].account,
         NEW mine, mine = {c \in cards : Owner[c] = a},
         NEW m, m = [type |-> "Start", op |-> o, num_cards |-> Cardinality(mine)]
  PROVE  \E new : AsksAll(new, o, a, mine, m)
<1>q. PICK q : q = [type |-> "QueryCardState", op |-> o]
  OBVIOUS
<1>n. PICK new : new = [y \in {a} \cup mine |-> IF y = a THEN <<m>> ELSE <<q>>]
  OBVIOUS
<1>1. /\ Execute(o, {"AccountQuery", "Bill"}) /\ Deliver(Router, new)
      /\ UNCHANGED <<sent, events, snapshots, account, card, results>>
  BY <1>q, <1>n DEF ExecuteQuery, history
<1>2. /\ o \in Ops /\ Op[o].kind \in {"AccountQuery", "Bill"} /\ Router \in Actors /\ mailbox[Router] # <<>>
      /\ Head(mailbox[Router]).type = "Execute" /\ Head(mailbox[Router]).op = o
  BY <1>1, ExecuteLemma
<1>3. a \in Accounts /\ mine \subseteq Cards
  <2>1. a \in Accounts
    BY <1>2, OperationType DEF AllOK, Ops, Op
  <2> QED
    BY <2>1 DEF AllOK, RouterOK
<1>4. m \in AccountMsg
  <2>1. IsFiniteSet(mine)
    BY <1>3, ActorsAssumption, FS_Subset
  <2> QED
    BY <1>2, <2>1, FS_CardinalityType, MakeMessages DEF Ops
<1>5. a \notin mine
  BY <1>3, ActorsApart
<1>6. /\ Added(new, a) = <<m>> /\ \A y \in mine : Added(new, y) = <<q>>
      /\ \A y : y # a /\ y \notin mine => Added(new, y) = <<>>
  BY <1>n, <1>5 DEF Added
<1>7. /\ Range(Added(new, a)) = {m} /\ \A M : AtMostOne(Added(new, a), M)
      /\ \A y \in mine : Range(Added(new, y)) = {q} /\ \A M : AtMostOne(Added(new, y), M)
      /\ \A y : y # a /\ y \notin mine => Range(Added(new, y)) = {}
  <2>1. Range(<<>>) = {} /\ Range(<<m>>) = {m} /\ Range(<<q>>) = {q}
    BY FewLemma
  <2>2. (\A M : AtMostOne(<<m>>, M)) /\ \A M : AtMostOne(<<q>>, M)
    BY FewLemma
  <2>3. Range(Added(new, a)) = {m} /\ \A M : AtMostOne(Added(new, a), M)
    BY <1>6, <2>1, <2>2
  <2>4. ASSUME NEW y \in mine PROVE Range(Added(new, y)) = {q} /\ \A M : AtMostOne(Added(new, y), M)
    <3>1. Added(new, y) = <<q>>
      BY <1>6
    <3> QED
      BY <2>1, <2>2, <3>1
  <2>5. \A y : y # a /\ y \notin mine => Range(Added(new, y)) = {}
    BY <1>6, <2>1
  <2> QED
    BY <2>3, <2>4, <2>5
<1>8. Sends(Router, new)
  <2>1. \A y \in DOMAIN new : new[y] \in Seq(Range(new[y]))
    <3> SUFFICES ASSUME NEW y \in DOMAIN new PROVE new[y] \in Seq(Range(new[y]))
      OBVIOUS
    <3>1. PICK k : new[y] = <<k>>
      BY <1>n
    <3>2. Range(<<k>>) = {k} /\ <<k>> \in Seq({k})
      BY FewLemma
    <3> QED
      BY <3>1, <3>2
  <2> QED
    BY <1>1, <1>2, <2>1 DEF Sends
<1>9. Acts(Router, new, {"Execute"}, {"Start", "QueryCardState"})
  <2>1. m.type = "Start" /\ q.type = "QueryCardState"
    BY <1>q
  <2>2. \A y : \A k \in Range(Added(new, y)) : k = m \/ k = q
    BY <1>7
  <2> QED
    BY <1>2, <1>8, <2>1, <2>2 DEF Acts
<1>10. 0 \in DOMAIN snapshots => operations'[0] = operations[0]
  BY <1>1, ExecuteIds
<1> QED
  BY <1>1, <1>2, <1>3, <1>4, <1>7, <1>9, <1>10, <1>q DEF IsQuery, AsksAll

\* The same step: the query is with its account.
LEMMA ExecuteQueryPlaces ==
  ASSUME AllOK, PlacesInv, NEW o, ExecuteQuery(o)
  PROVE  PlacesInv'
<1>0. PICK a, mine : a = Op[o].account /\ mine = {c \in cards : Owner[c] = a}
  OBVIOUS
<1>m. PICK m : m = [type |-> "Start", op |-> o, num_cards |-> Cardinality(mine)]
  OBVIOUS
<1>p. PICK new : AsksAll(new, o, a, mine, m)
  BY <1>0, <1>m, ExecuteQueryActs
<1>1. /\ Acts(Router, new, {"Execute"}, {"Start", "QueryCardState"})
      /\ o \in Ops /\ IsQuery(o) /\ Head(mailbox[Router]).op = o /\ a \in Accounts /\ m \in AccountMsg
      /\ Range(Added(new, a)) = {m} /\ \A M : AtMostOne(Added(new, a), M)
      /\ \A y \in mine : Range(Added(new, y)) = {[type |-> "QueryCardState", op |-> o]}
      /\ \A y : y # a /\ y \notin mine => Range(Added(new, y)) = {}
      /\ UNCHANGED <<sent, events, snapshots, account, card, results>>
      /\ 0 \in DOMAIN snapshots => operations'[0] = operations[0]
  BY <1>p DEF AsksAll
<1>2. a \in Actors /\ m \in Letter(a) /\ a # Router /\ ~OnCard(o)
  BY <1>1, ActorsApart DEF IsQuery, OnCard
<1>3. \A p : Awaited(p)' <=> Awaited(p)
  BY <1>1, AwaitedSame
<1>4. m.type \in CarrierTypes /\ m.op = o /\ Head(mailbox[Router]).type \in CarrierTypes
  BY <1>m, <1>1 DEF CarrierTypes, Acts
<1>5. \A z : z # a => \A k \in Range(Added(new, z)) : k.type \notin CarrierTypes
  BY <1>1 DEF CarrierTypes
<1>6. Sends(Router, new) /\ sent' = sent /\ results' = results
  BY <1>1 DEF Acts
<1> QED
  BY <1>1, <1>2, <1>3, <1>4, <1>5, <1>6, PlacePassed

\* A result is put into the channel when there is room.
LEMMA ResultIs ==
  ASSUME AllOK, AllOK', HasRoom, NEW id, NEW ok, NEW value, EmitResult(id, ok, value)
  PROVE  \E r \in ActorEvent : /\ results' = Append(results, r) /\ events' = Append(events, r)
                               /\ r.op = operations'[id]
<1>1. PICK r : r = [type |-> "OperationResult", op |-> operations'[id], ok |-> ok, value |-> value]
  OBVIOUS
<1>2. r.op = operations'[id] /\ results' = Append(results, r) /\ events' = Append(events, r)
  BY <1>1 DEF EmitResult, Emit
<1>3. r \in ActorEvent
  <2>1. results \in Seq(ActorEvent) /\ results' \in Seq(ActorEvent)
    BY DEF AllOK, EventsOK
  <2>2. PICK T : T = ActorEvent \cup {r}
    OBVIOUS
  <2>3. results \in Seq(T) /\ r \in T
    BY <2>1, <2>2, SeqMonotonic
  <2>4. r \in Range(results')
    BY <1>2, <2>3, AppendLemma
  <2> QED
    BY <2>1, <2>4, SeqLemma
<1> QED
  BY <1>2, <1>3

\* Every account and card is asked for its state.
AsksEach(new, m) ==
  /\ Acts(Router, new, {"Execute"}, {"GetSnapshot"}) /\ m \in AccountMsg /\ m \in CardMsg
  /\ m.type = "GetSnapshot"
  /\ \A y \in accounts \cup cards : Range(Added(new, y)) = {m} /\ \A M : AtMostOne(Added(new, y), M)
  /\ \A y : y \notin accounts \cup cards => Range(Added(new, y)) = {}
  /\ accounts \cup cards # {}
  /\ snapshots' = Insert(snapshots, 0,
       [expected_accounts |-> Cardinality(accounts), accounts |-> <<>>,
        expected_cards |-> Cardinality(cards), cards |-> <<>>])
  /\ UNCHANGED <<events, results>>
\* An empty database is the answer.
AnswersEmpty ==
  /\ Acts(Router, Nothing, {"Execute"}, {}) /\ \A y : Range(Added(Nothing, y)) = {}
  /\ accounts \cup cards = {} /\ UNCHANGED snapshots
  /\ EmitResult(0, TRUE, [accounts |-> <<>>, cards |-> <<>>])

\* Handler<RouterCmd>: GetDatabase.
LEMMA ExecuteGetDatabaseActs ==
  ASSUME AllOK, NEW o, ExecuteGetDatabase(o), NEW m, m = [type |-> "GetSnapshot", op |-> o]
  PROVE  /\ o \in Ops /\ IsSnapshot(o) /\ Head(mailbox[Router]).op = o /\ operations'[0] = o
         /\ UNCHANGED <<sent, accounts, cards, account, card>>
         /\ AnswersEmpty \/ \E new : AsksEach(new, m)
<1>n. PICK new : new = OneEach(accounts \cup cards, m)
  OBVIOUS
<1>1. /\ Execute(o, {"GetDatabase"}) /\ UNCHANGED <<sent, accounts, cards, account, card>>
      /\ \/ /\ Deliver(Router, Nothing) /\ EmitResult(0, TRUE, [accounts |-> <<>>, cards |-> <<>>])
            /\ UNCHANGED snapshots /\ accounts \cup cards = {}
         \/ /\ Deliver(Router, new) /\ UNCHANGED <<events, results>> /\ accounts \cup cards # {}
            /\ snapshots' = Insert(snapshots, 0,
                 [expected_accounts |-> Cardinality(accounts), accounts |-> <<>>,
                  expected_cards |-> Cardinality(cards), cards |-> <<>>])
  BY <1>n DEF ExecuteGetDatabase
<1>2. /\ o \in Ops /\ Op[o].kind = "GetDatabase" /\ Router \in Actors /\ mailbox[Router] # <<>>
      /\ Head(mailbox[Router]).type = "Execute" /\ Head(mailbox[Router]).op = o
      /\ operations'[0] = o
  BY <1>1, ExecuteLemma
<1>3. CASE Deliver(Router, Nothing) /\ EmitResult(0, TRUE, [accounts |-> <<>>, cards |-> <<>>])
            /\ UNCHANGED snapshots /\ accounts \cup cards = {}
  <2>1. Acts(Router, Nothing, {Head(mailbox[Router]).type}, {}) /\ \A y : Range(Added(Nothing, y)) = {}
    BY <1>2, <1>3, ActsNone
  <2> QED
    BY <1>1, <1>2, <1>3, <2>1 DEF AnswersEmpty, IsSnapshot
<1>4. CASE /\ Deliver(Router, new) /\ UNCHANGED <<events, results>> /\ accounts \cup cards # {}
           /\ snapshots' = Insert(snapshots, 0,
                 [expected_accounts |-> Cardinality(accounts), accounts |-> <<>>,
                  expected_cards |-> Cardinality(cards), cards |-> <<>>])
  <2>1. Range(<<m>>) = {m} /\ <<m>> \in Seq({m}) /\ \A M : AtMostOne(<<m>>, M)
    BY FewLemma
  <2>2. DOMAIN new = accounts \cup cards /\ \A y \in DOMAIN new : new[y] = <<m>>
    BY <1>n DEF OneEach
  <2>3. /\ \A y \in accounts \cup cards : Range(Added(new, y)) = {m} /\ \A M : AtMostOne(Added(new, y), M)
        /\ \A y : y \notin accounts \cup cards => Range(Added(new, y)) = {}
    <3>1. Range(<<>>) = {}
      BY FewLemma
    <3>2. \A y : Added(new, y) = IF y \in accounts \cup cards THEN <<m>> ELSE <<>>
      BY <2>2 DEF Added
    <3>3. ASSUME NEW y \in accounts \cup cards PROVE Range(Added(new, y)) = {m} /\ \A M : AtMostOne(Added(new, y), M)
      <4>1. Added(new, y) = <<m>>
        BY <3>2
      <4> QED
        BY <2>1, <4>1
    <3> QED
      BY <3>1, <3>2, <3>3
  <2>4. Acts(Router, new, {"Execute"}, {"GetSnapshot"})
    <3>1. Sends(Router, new)
      BY <1>2, <1>4, <2>1, <2>2 DEF Sends
    <3>2. \A y : \A k \in Range(Added(new, y)) : k = m
      BY <2>3
    <3>3. m.type = "GetSnapshot"
      OBVIOUS
    <3> HIDE DEF Range
    <3> QED
      BY <1>2, <3>1, <3>2, <3>3 DEF Acts
  <2>5. m \in AccountMsg /\ m \in CardMsg /\ m.type = "GetSnapshot"
    <3>1. o \in Nat
      BY <1>2 DEF Ops
    <3> QED
      BY <3>1, MakeMessages
  <2>6. AsksEach(new, m)
    BY <1>4, <2>3, <2>4, <2>5 DEF AsksEach
  <2> QED
    BY <1>1, <1>2, <2>6 DEF IsSnapshot
<1> QED
  BY <1>1, <1>3, <1>4

\* The first snapshot: no other is pending.
LEMMA FirstSnapshot ==
  ASSUME AllOK, Alone, PlacesInv, NEW o, ExecuteGetDatabase(o)
  PROVE  0 \notin DOMAIN snapshots
<1>1. o \in Ops /\ IsSnapshot(o) /\ Head(mailbox[Router]).op = o
  BY ExecuteGetDatabaseActs
<1>2. Router \in Actors /\ mailbox[Router] # <<>> /\ Head(mailbox[Router]).type = "Execute"
  BY ActorsApart DEF ExecuteGetDatabase, Execute, HasMail
<1>3. Head(mailbox[Router]) \in InMail(Router) /\ Head(mailbox[Router]) \in Carriers(o)
  <2>1. Head(mailbox[Router]) \in InMail(Router) /\ Head(mailbox[Router]) \in Letter(Router)
    BY <1>2, HeadLemma
  <2> QED
    BY <1>1, <1>2, <2>1, Carrying DEF CarrierTypes
<1>4. ~Awaited(o)
  <2>1. Present(Carriers(o)) /\ ~OnCard(o)
    BY <1>1, <1>2, <1>3 DEF Present, IsSnapshot, OnCard
  <2> QED
    BY <1>1, <2>1, OnceParts DEF PlacesInv
<1>5. ASSUME 0 \in DOMAIN snapshots PROVE FALSE
  <2>1. 0 \in DOMAIN operations /\ operations[0] \in Ops
        /\ Op[operations[0]].kind \in {"GetDatabase", "ReplaceDatabase"}
    BY <1>5 DEF AllOK, RouterOK, RouterInv
  <2>2. IsSnapshot(operations[0])
    BY <2>1 DEF Alone, Unreplaced, HasKind, IsSnapshot
  <2>3. operations[0] = o
    BY <1>1, <2>1, <2>2 DEF Alone
  <2> QED
    BY <1>4, <1>5, <2>3 DEF Awaited
<1> QED
  BY <1>5

\* An operation of no card that waits in no account is awaited in a snapshot only.
LEMMA AwaitedBySnapshot ==
  ASSUME AllOK, AddressInv, NEW o \in Ops, IsSnapshot(o)
  PROVE  /\ \A c \in Cards : o \notin Range(card[c].tasks)
         /\ \A a \in Accounts : account[a].pending.op # o
<1>1. \A c \in Cards : o \notin Range(card[c].tasks)
  BY DEF AllOK, CardsOK, TasksKnown, OfCard, IsSnapshot
<1>2. \A a \in Accounts : account[a].pending.op # o
  <2>1. o # 0
    BY DEF Ops
  <2> QED
    BY <2>1 DEF AddressInv, IsQuery, IsSnapshot
<1> QED
  BY <1>1, <1>2

\* GetDatabase: the operation is answered, or its fragments are awaited.
LEMMA ExecuteGetDatabasePlaces ==
  ASSUME AllOK, AllOK', Alone, PlacesInv, AddressInv, HasRoom, NEW o, ExecuteGetDatabase(o)
  PROVE  PlacesInv'
<1>0. PICK m : m = [type |-> "GetSnapshot", op |-> o]
  OBVIOUS
<1>1. /\ o \in Ops /\ IsSnapshot(o) /\ Head(mailbox[Router]).op = o /\ operations'[0] = o
      /\ UNCHANGED <<sent, accounts, cards, account, card>>
      /\ AnswersEmpty \/ \E new : AsksEach(new, m)
  BY <1>0, ExecuteGetDatabaseActs
<1>2. 0 \notin DOMAIN snapshots
  BY FirstSnapshot
<1>3. ~OnCard(o) /\ OnceInv(o)
  BY <1>1 DEF IsSnapshot, OnCard, PlacesInv
<1>4. /\ \A p : Awaited(p) <=> \/ \E c \in Cards : p \in Range(card[c].tasks)
                               \/ \E a \in Accounts : account[a].pending.op = p
      /\ \A p : Awaited(p)' <=> \/ Awaited(p) \/ (0 \in DOMAIN snapshots' /\ p = o)
      /\ ~Awaited(o)
  <2>1. ~Awaited(o)
    BY <1>1, <1>2, AwaitedBySnapshot DEF Awaited
  <2> QED
    BY <1>1, <1>2, <2>1 DEF Awaited
<1>5. ASSUME NEW new, NEW types, Acts(Router, new, {"Execute"}, types), types \cap CarrierTypes = {},
             Adds(o), \/ Awaited(o)' /\ results' = results
                      \/ /\ ~Awaited(o)'
                         /\ \E r \in ActorEvent : results' = Append(results, r) /\ r.op = o
      PROVE  PlacesInv'
  <2>1. Sends(Router, new) /\ Head(mailbox[Router]).type = "Execute"
        /\ \A y : \A k \in Range(Added(new, y)) : k.type \notin CarrierTypes
    BY <1>5 DEF Acts
  <2>2. Head(mailbox[Router]) \in Carriers(o) /\ \A y : Range(Added(new, y)) \cap Carriers(o) = {}
    <3>1. Head(mailbox[Router]) \in Letter(Router) /\ Router \in Actors
      BY <2>1, HeadLemma DEF Sends
    <3> QED
      BY <1>1, <2>1, <3>1, Carrying DEF CarrierTypes
  <2>3. PlaceInv(o)' /\ OnceInv(o)'
    BY <1>1, <1>3, <1>5, <2>1, <2>2, PlaceMoves
  <2>4. \A p \in Ops : p # o => (Awaited(p)' <=> Awaited(p))
    BY <1>4
  <2> QED
    BY <1>1, <1>5, <2>1, <2>3, <2>4, PlacesMove
<1>6. CASE AnswersEmpty
  <2>1. \E r \in ActorEvent : results' = Append(results, r) /\ r.op = o
    <3>1. EmitResult(0, TRUE, [accounts |-> <<>>, cards |-> <<>>])
      BY <1>6 DEF AnswersEmpty
    <3> QED
      BY <1>1, <3>1, ResultIs
  <2>2. ~Awaited(o)' /\ Adds(o)
    BY <1>2, <1>4, <1>6, <2>1 DEF AnswersEmpty, Adds
  <2>3. Acts(Router, Nothing, {"Execute"}, {})
    BY <1>6 DEF AnswersEmpty
  <2> QED
    BY <1>5, <2>1, <2>2, <2>3
<1>7. ASSUME NEW new, AsksEach(new, m) PROVE PlacesInv'
  <2>1. Acts(Router, new, {"Execute"}, {"GetSnapshot"}) /\ {"GetSnapshot"} \cap CarrierTypes = {}
    BY <1>7 DEF AsksEach, CarrierTypes
  <2>2. 0 \in DOMAIN snapshots' /\ results' = results
    BY <1>7 DEF AsksEach, Insert
  <2>3. Awaited(o)' /\ Adds(o)
    BY <1>4, <2>2 DEF Adds
  <2> QED
    BY <1>5, <2>1, <2>2, <2>3
<1> QED
  BY <1>1, <1>6, <1>7

\* Handler<RouterInternalMsg>: a result.
LEMMA RouterCompletedActs ==
  ASSUME AllOK, AllOK', HasRoom, RouterCompleted, NEW o, o = Head(mailbox[Router]).op
  PROVE  /\ Acts(Router, Nothing, {"OperationCompleted", "AccountQueryCompleted"}, {})
         /\ \A y : Range(Added(Nothing, y)) = {}
         /\ o \in Ops
         /\ \E r \in ActorEvent : /\ results' = Append(results, r) /\ events' = Append(events, r)
                                  /\ r.op = o
         /\ UNCHANGED <<sent, accounts, cards, operations, snapshots, account, card>>
<1>m. PICK m : m = Head(mailbox[Router])
  OBVIOUS
<1>1. /\ mailbox[Router] # <<>> /\ m.type \in {"OperationCompleted", "AccountQueryCompleted"}
      /\ Deliver(Router, Nothing) /\ EmitResult(m.op, m.ok, m.value) /\ Router \in Actors
      /\ UNCHANGED <<sent, accounts, cards, operations, snapshots, account, card>>
  BY <1>m, ActorsApart DEF RouterCompleted, HasMail
<1>2. o \in Executed /\ operations[o] = o /\ o \in Ops
  <2>1. Good(Router, m) /\ RouterInv /\ Executed \subseteq Ops
    BY <1>m, <1>1, HeadLemma DEF AllOK, RouterOK, Executed
  <2> QED
    BY <1>m, <1>1, <2>1 DEF Good, RouterMail, RouterInv
<1>3. \E r \in ActorEvent : /\ results' = Append(results, r) /\ events' = Append(events, r)
                            /\ r.op = operations'[m.op]
  BY <1>1, ResultIs
<1>4. Acts(Router, Nothing, {m.type}, {}) /\ \A y : Range(Added(Nothing, y)) = {}
  BY <1>m, <1>1, ActsNone
<1>5. Acts(Router, Nothing, {"OperationCompleted", "AccountQueryCompleted"}, {})
  BY <1>1, <1>4 DEF Acts
<1> QED
  BY <1>m, <1>1, <1>2, <1>3, <1>4, <1>5

\* The same step: the operation has its result.
LEMMA RouterCompletedPlaces ==
  ASSUME AllOK, AllOK', HasRoom, RouterCompleted, PlacesInv
  PROVE  PlacesInv'
<1>m. PICK m, o : m = Head(mailbox[Router]) /\ o = m.op
  OBVIOUS
<1>1. /\ Acts(Router, Nothing, {"OperationCompleted", "AccountQueryCompleted"}, {})
      /\ \A y : Range(Added(Nothing, y)) = {}
      /\ o \in Ops
      /\ \E r \in ActorEvent : /\ results' = Append(results, r) /\ events' = Append(events, r)
                               /\ r.op = o
      /\ UNCHANGED <<sent, accounts, cards, operations, snapshots, account, card>>
  BY <1>m, RouterCompletedActs
<1>2. /\ Sends(Router, Nothing) /\ Router \in Actors /\ m \in InMail(Router) /\ m \in Letter(Router)
      /\ m.type \in CarrierTypes
  <2>1. Sends(Router, Nothing) /\ m.type \in {"OperationCompleted", "AccountQueryCompleted"}
    BY <1>m, <1>1 DEF Acts
  <2> QED
    BY <1>m, <2>1, HeadLemma DEF Sends, CarrierTypes
<1>3. m \in Carriers(o)
  BY <1>m, <1>2, Carrying
<1>4. (\A p : Awaited(p)' <=> Awaited(p)) /\ Adds(o)
  BY <1>1, AwaitedSame DEF Adds
<1>5. PICK r \in ActorEvent : results' = Append(results, r) /\ r.op = o
  BY <1>1
<1>6. PlaceInv(o)' /\ OnceInv(o)'
  <2>1. CASE OnCard(o)
    <3>1. Answered(o)'
      <4>1. Range(results') = Range(results) \cup {r}
        <5>1. results \in Seq(ActorEvent)
          BY DEF AllOK, EventsOK
        <5> QED
          BY <1>5, <5>1, AppendLemma
      <4> QED
        BY <1>5, <4>1 DEF Answered
    <3> QED
      BY <1>1, <2>1, <3>1, CardPlaces
  <2>2. CASE ~OnCard(o)
    <3>1. ~Awaited(o)'
      <4>1. Present(Carriers(o))
        BY <1>2, <1>3 DEF Present
      <4> QED
        BY <1>1, <1>4, <2>2, <4>1, OnceParts DEF PlacesInv
    <3>2. OnceInv(o)
      BY <1>1 DEF PlacesInv
    <3>3. \A z : Range(Added(Nothing, z)) \cap Carriers(o) = {}
      BY <1>1
    <3> QED
      BY <1>m, <1>1, <1>2, <1>3, <1>5, <2>2, <3>1, <3>2, <3>3, PlaceMoves
  <2> QED
    BY <2>1, <2>2
<1> QED
  BY <1>m, <1>1, <1>2, <1>4, <1>6, PlacesMove

\* Handler<RouterInternalMsg>: the fragments of a snapshot.
FragmentLost  == 0 \notin DOMAIN snapshots /\ EmitDebug /\ UNCHANGED snapshots
FragmentAdded(m) == /\ 0 \in DOMAIN snapshots /\ ~SnapshotDone(AddFragment(snapshots[0], m))
                    /\ snapshots' = [snapshots EXCEPT ![0] = AddFragment(snapshots[0], m)]
                    /\ UNCHANGED <<events, results>>
FragmentLast(m) == /\ 0 \in DOMAIN snapshots /\ SnapshotDone(AddFragment(snapshots[0], m))
                   /\ DOMAIN snapshots' = {} /\ \E value : EmitResult(0, TRUE, value)

\* What is common to its cases.
LEMMA RouterSnapshotActs ==
  ASSUME AllOK, RouterSnapshot, NEW m, m = Head(mailbox[Router])
  PROVE  /\ Acts(Router, Nothing, {"AccountSnapshotCollected", "CardSnapshotCollected"}, {})
         /\ \A y : Range(Added(Nothing, y)) = {}
         /\ UNCHANGED <<sent, accounts, cards, operations, account, card>>
         /\ FragmentLost \/ FragmentAdded(m) \/ FragmentLast(m)
<1>1. /\ mailbox[Router] # <<>> /\ m.type \in {"AccountSnapshotCollected", "CardSnapshotCollected"}
      /\ Deliver(Router, Nothing) /\ Router \in Actors
      /\ UNCHANGED <<sent, accounts, cards, operations, account, card>>
  BY ActorsApart DEF RouterSnapshot, HasMail
<1>2. PICK p : p = AddFragment(snapshots[0], m)
  OBVIOUS
<1>3. \/ 0 \notin DOMAIN snapshots /\ EmitDebug /\ UNCHANGED <<snapshots, operations>>
      \/ /\ 0 \in DOMAIN snapshots /\ ~SnapshotDone(p)
         /\ snapshots' = [snapshots EXCEPT ![0] = p]
         /\ UNCHANGED <<operations, events, results>>
      \/ /\ 0 \in DOMAIN snapshots /\ SnapshotDone(p)
         /\ snapshots' = Restrict(snapshots, DOMAIN snapshots \ {0})
         /\ EmitResult(0, TRUE, [accounts |-> p.accounts, cards |-> p.cards])
  BY <1>2 DEF RouterSnapshot
<1>4. FragmentLost \/ FragmentAdded(m) \/ FragmentLast(m)
  <2>1. snapshots' = Restrict(snapshots, DOMAIN snapshots \ {0}) => DOMAIN snapshots' = {}
    BY DEF Restrict, AllOK, RouterOK
  <2> QED
    BY <1>2, <1>3, <2>1 DEF FragmentLost, FragmentAdded, FragmentLast
<1>5. Acts(Router, Nothing, {m.type}, {}) /\ \A y : Range(Added(Nothing, y)) = {}
  BY <1>1, ActsNone
<1>6. Acts(Router, Nothing, {"AccountSnapshotCollected", "CardSnapshotCollected"}, {})
  BY <1>1, <1>5 DEF Acts
<1> QED
  BY <1>1, <1>4, <1>5, <1>6

\* The same step: the snapshot is awaited until it is complete and answered.
LEMMA RouterSnapshotPlaces ==
  ASSUME AllOK, AllOK', HasRoom, Alone, AddressInv, RouterSnapshot, PlacesInv
  PROVE  PlacesInv'
<1>m. PICK m : m = Head(mailbox[Router])
  OBVIOUS
<1>1. /\ Acts(Router, Nothing, {"AccountSnapshotCollected", "CardSnapshotCollected"}, {})
      /\ \A y : Range(Added(Nothing, y)) = {}
      /\ UNCHANGED <<sent, accounts, cards, operations, account, card>>
      /\ FragmentLost \/ FragmentAdded(m) \/ FragmentLast(m)
  BY <1>m, RouterSnapshotActs
<1>2. /\ {"AccountSnapshotCollected", "CardSnapshotCollected"} \cap CarrierTypes = {}
      /\ Sends(Router, Nothing) /\ Head(mailbox[Router]).type \notin CarrierTypes
  BY <1>1 DEF CarrierTypes, Acts
<1>3. CASE FragmentLost \/ FragmentAdded(m)
  <2>1. DOMAIN snapshots' = DOMAIN snapshots /\ results' = results
    BY <1>3 DEF FragmentLost, FragmentAdded, EmitDebug
  <2>2. \A o : Awaited(o)' <=> Awaited(o)
    BY <1>1, <2>1 DEF Awaited
  <2>3. ({"AccountSnapshotCollected", "CardSnapshotCollected"} \cup {}) \cap CarrierTypes = {}
    BY <1>2
  <2> QED
    BY <1>1, <2>1, <2>2, <2>3, PlacesFrame
<1>4. CASE FragmentLast(m)
  <2>1. PICK o : o = operations[0]
    OBVIOUS
  <2>2. o \in Ops /\ IsSnapshot(o) /\ Awaited(o)
    <3>1. 0 \in DOMAIN snapshots /\ 0 \in DOMAIN operations
      BY <1>4 DEF FragmentLast, AllOK, RouterOK, RouterInv
    <3>2. operations[0] \in Ops /\ Op[operations[0]].kind \in {"GetDatabase", "ReplaceDatabase"}
      BY <3>1 DEF AllOK, RouterOK, RouterInv
    <3> QED
      BY <2>1, <3>1, <3>2 DEF Alone, Unreplaced, HasKind, IsSnapshot, Awaited
  <2>3. (\A c \in Cards : o \notin Range(card[c].tasks)) /\ (\A a \in Accounts : account[a].pending.op # o)
    BY <2>2, AwaitedBySnapshot
  <2>4. ~Awaited(o)' /\ \A p : p # o => (Awaited(p)' <=> Awaited(p))
    BY <1>1, <1>4, <2>1, <2>3 DEF Awaited, FragmentLast
  <2>5. PICK r \in ActorEvent : results' = Append(results, r) /\ r.op = o
    <3>1. PICK value : EmitResult(0, TRUE, value)
      BY <1>4 DEF FragmentLast
    <3>2. \E r \in ActorEvent : /\ results' = Append(results, r) /\ events' = Append(events, r)
                                /\ r.op = operations'[0]
      BY <3>1, ResultIs
    <3> QED
      BY <1>1, <2>1, <3>2
  <2>6. OnceInv(o) /\ ~OnCard(o)
    BY <2>2 DEF PlacesInv, IsSnapshot, OnCard
  <2>7. PlaceInv(o)' /\ OnceInv(o)'
    <3>1. \A z : Range(Added(Nothing, z)) \cap Carriers(o) = {}
      BY <1>1
    <3> QED
      BY <1>1, <1>2, <2>2, <2>4, <2>5, <2>6, <3>1, PlaceMoves
  <2>8. Adds(o) /\ \A y : \A k \in Range(Added(Nothing, y)) : k.type \in CarrierTypes => k.op = o
    BY <1>1, <2>5 DEF Adds
  <2> QED
    BY <1>1, <1>2, <2>4, <2>7, <2>8, PlacesMove
<1> QED
  BY <1>1, <1>3, <1>4

\* A debug event is reported and moves nothing.
LEMMA RouterDebugPlaces ==
  ASSUME AllOK, RouterDebug, PlacesInv
  PROVE  PlacesInv'
<1>1. /\ mailbox[Router] # <<>> /\ Head(mailbox[Router]).type = "Debug" /\ Deliver(Router, Nothing)
      /\ UNCHANGED <<sent, operations, snapshots, account, card, results>> /\ Router \in Actors
  BY ActorsApart DEF RouterDebug, HasMail, EmitDebug, routerVars
<1>2. Acts(Router, Nothing, {Head(mailbox[Router]).type}, {})
  BY <1>1, ActsNone
<1>3. ({Head(mailbox[Router]).type} \cup {}) \cap CarrierTypes = {}
  BY <1>1 DEF CarrierTypes
<1>4. \A o : Awaited(o)' <=> Awaited(o)
  BY <1>1, AwaitedSame
<1> QED
  BY <1>1, <1>2, <1>3, <1>4, PlacesFrame

-----------------------------------------------------------------------------
(* Places: what the accounts do *)

\* Actor x handles a message and tells only other actors.
Passes(x, new, heads, types) ==
  Acts(x, new, heads, types) /\ UNCHANGED <<sent, events, routerVars, results>>
Pendings  == \A a \in Accounts : account'[a].pending = account[a].pending
TasksKept == \A c \in Cards : card'[c].tasks = card[c].tasks

\* It sends the message m to y, and nothing else.
SendsTo(x, new, y, m) ==
  /\ Sends(x, new) /\ Acts(x, new, {Head(mailbox[x]).type}, {m.type})
  /\ Range(Added(new, y)) = {m} /\ \A z : z # y => Range(Added(new, z)) = {}
  /\ \A M : AtMostOne(Added(new, y), M)
PassesTo(x, new, y, m, head, type) ==
  /\ SendsTo(x, new, y, m) /\ Passes(x, new, {head}, {type})
  /\ m \in Letter(y) /\ m.type = type /\ Head(mailbox[x]).type = head

\* One message to y, in these terms.
LEMMA SendsToIs ==
  ASSUME NEW x \in Actors, mailbox[x] # <<>>, NEW y, NEW m, NEW new, new = To(y, m), Deliver(x, new)
  PROVE  SendsTo(x, new, y, m)
<1>1. Deliver(x, To(y, m))
  OBVIOUS
<1>2. SendsTo(x, To(y, m), y, m)
  BY <1>1, ActsOne DEF SendsTo
<1> QED
  BY <1>2

\* The same with what stays.
LEMMA PassesToIs ==
  ASSUME NEW x \in Actors, mailbox[x] # <<>>, NEW y, NEW m \in Letter(y), NEW new, new = To(y, m), Deliver(x, new),
         UNCHANGED <<sent, events, routerVars, results>>
  PROVE  PassesTo(x, new, y, m, Head(mailbox[x]).type, m.type)
<1>1. SendsTo(x, new, y, m)
  BY SendsToIs
<1> QED
  BY <1>1 DEF PassesTo, SendsTo, Passes

\* A change of the limit or the consumption of an account leaves its query alone.
LEMMA PendingSame ==
  ASSUME AllOK, NEW a \in Accounts,
         \/ account' = account
         \/ \E n : account' = [account EXCEPT ![a].consumed = n]
         \/ \E l : account' = [account EXCEPT ![a].limit = l]
  PROVE  Pendings
<1>1. DOMAIN account = Accounts
  BY DEF AllOK, AccountsOK
<1>2. ASSUME NEW n, NEW l, account' = [account EXCEPT ![a] =
                [limit |-> l, consumed |-> n, pending |-> account[a].pending]]
      PROVE  Pendings
  BY <1>1, <1>2 DEF Pendings
<1>3. CASE account' = account
  BY <1>3 DEF Pendings
<1>4. ASSUME NEW n, account' = [account EXCEPT ![a].consumed = n] PROVE Pendings
  <2>1. account' = [account EXCEPT ![a] =
           [limit |-> account[a].limit, consumed |-> n, pending |-> account[a].pending]]
    BY <1>4, AccountExcept
  <2> QED
    BY <1>2, <2>1
<1>5. ASSUME NEW l, account' = [account EXCEPT ![a].limit = l] PROVE Pendings
  <2>1. account' = [account EXCEPT ![a] =
           [limit |-> l, consumed |-> account[a].consumed, pending |-> account[a].pending]]
    BY <1>5, AccountExcept
  <2> QED
    BY <1>2, <2>1
<1> QED
  BY <1>3, <1>4, <1>5

\* A step that tells other actors, of no operation that they carry.
LEMMA PassesFrame ==
  ASSUME AllOK, PlacesInv, NEW x, NEW new, NEW heads, NEW types, Passes(x, new, heads, types),
         (heads \cup types) \cap CarrierTypes = {}, Pendings, TasksKept
  PROVE  PlacesInv'
<1>1. \A o : Awaited(o)' <=> Awaited(o)
  BY AwaitedSame DEF Pendings, TasksKept, Passes, routerVars
<1> QED
  BY <1>1, PlacesFrame DEF Passes

\* ApplyChargeFromCard.
LEMMA AccountChargeActs ==
  ASSUME AllOK, NEW a \in Accounts, AccountCharge(a)
  PROVE  /\ \E new : Passes(a, new, {"ApplyCharge"}, {"AccountChargeReply"})
         /\ Pendings /\ card' = card
<1>0. PICK o : o = Head(mailbox[a]).op
  OBVIOUS
<1>m. PICK m, y : m = [type |-> "AccountChargeReply", op |-> o, ok |-> ChargeAllowed(a, o)] /\ y = Op[o].card
  OBVIOUS
<1>n. PICK new : new = To(y, m)
  OBVIOUS
<1>1. /\ mailbox[a] # <<>> /\ Head(mailbox[a]).type = "ApplyCharge" /\ a \in Actors
      /\ Deliver(a, new) /\ UNCHANGED <<sent, events, routerVars, card, results>>
  BY <1>0, <1>m, <1>n, ActorsApart DEF AccountCharge, HasMail
<1>2. Acts(a, new, {Head(mailbox[a]).type}, {m.type})
  BY <1>1, <1>n, ActsTo
<1>3. Passes(a, new, {"ApplyCharge"}, {"AccountChargeReply"})
  BY <1>1, <1>2, <1>m DEF Passes
<1>4. account' = account \/ \E n : account' = [account EXCEPT ![a].consumed = n]
  <2>1. ChargeAllowed(a, o) =>
          account' = [account EXCEPT ![a].consumed = account[a].consumed + Op[o].amount]
    BY <1>0 DEF AccountCharge
  <2>2. ~ChargeAllowed(a, o) => account' = account
    BY <1>0 DEF AccountCharge
  <2> QED
    BY <2>1, <2>2
<1>5. Pendings
  BY <1>4, PendingSame
<1> QED
  BY <1>1, <1>3, <1>5

\* ApplyAccountLimit.
LEMMA AccountLimitActs ==
  ASSUME AllOK, NEW a \in Accounts, AccountLimit(a), NEW o, o = Head(mailbox[a]).op
  PROVE  /\ \E new, m : /\ PassesTo(a, new, Router, m, "ApplyAccountLimit", "OperationCompleted")
                        /\ m.op = o
         /\ Pendings /\ card' = card /\ o \in Ops /\ ~OnCard(o)
<1>m. PICK m : m = Completed(o, Within(account[a].consumed, Op[o].limit))
  OBVIOUS
<1>n. PICK new : new = To(Router, m)
  OBVIOUS
<1>1. /\ mailbox[a] # <<>> /\ Head(mailbox[a]).type = "ApplyAccountLimit" /\ a \in Actors
      /\ Deliver(a, new) /\ UNCHANGED <<sent, events, routerVars, card, results>>
      /\ account' = account \/ account' = [account EXCEPT ![a].limit = Op[o].limit]
  BY <1>m, <1>n, ActorsApart DEF AccountLimit, HasMail
<1>2. m.op = o /\ m.type = "OperationCompleted"
  BY <1>m DEF Completed
<1>3. o \in Ops /\ Op[o].kind = "LimitAccount"
  <2>1. AccountMail(a, Head(mailbox[a])) /\ Executed \subseteq Ops
    BY <1>1, HeadLemma, ActorsApart DEF Good, AllOK, RouterOK, Executed
  <2> QED
    BY <1>1, <2>1 DEF AccountMail
<1>4. m \in Letter(Router)
  <2>1. o \in Nat /\ Within(account[a].consumed, Op[o].limit) \in BOOLEAN
    BY <1>3 DEF Ops, Within
  <2>2. Completed(o, Within(account[a].consumed, Op[o].limit)) \in RouterMsg
    BY <2>1, MakeMessages
  <2> QED
    BY <1>m, <2>2, ActorsApart
<1>5. PassesTo(a, new, Router, m, Head(mailbox[a]).type, m.type)
  BY <1>1, <1>4, <1>n, PassesToIs
<1>6. Pendings
  BY <1>1, PendingSame
<1> QED
  BY <1>1, <1>2, <1>3, <1>5, <1>6 DEF OnCard

\* The same step: the operation is on its way to the node.
LEMMA AccountLimitPlaces ==
  ASSUME AllOK, PlacesInv, NEW a \in Accounts, AccountLimit(a)
  PROVE  PlacesInv'
<1>0. PICK o : o = Head(mailbox[a]).op
  OBVIOUS
<1>1. Pendings /\ card' = card /\ o \in Ops /\ ~OnCard(o)
  BY <1>0, AccountLimitActs
<1>2. PICK new, m : PassesTo(a, new, Router, m, "ApplyAccountLimit", "OperationCompleted") /\ m.op = o
  BY <1>0, AccountLimitActs
<1>3. \A p : Awaited(p)' <=> Awaited(p)
  BY <1>1, <1>2, AwaitedSame DEF PassesTo, Passes, Pendings, routerVars
<1>4. /\ Sends(a, new) /\ Head(mailbox[a]).type \in CarrierTypes /\ m.type \in CarrierTypes
      /\ m \in Letter(Router) /\ sent' = sent /\ results' = results
      /\ Range(Added(new, Router)) = {m} /\ \A M : AtMostOne(Added(new, Router), M)
      /\ \A z : z # Router => \A k \in Range(Added(new, z)) : k.type \notin CarrierTypes
  BY <1>2 DEF PassesTo, SendsTo, Passes, CarrierTypes
<1>5. Router \in Actors /\ Router # a
  BY ActorsApart
<1> QED
  BY <1>0, <1>1, <1>2, <1>3, <1>4, <1>5, PlacePassed

\* GetSnapshot of an account.
LEMMA AccountSnapshotActs ==
  ASSUME AllOK, NEW a \in Accounts, AccountSnapshot(a)
  PROVE  /\ \E new, m : /\ PassesTo(a, new, Router, m, "GetSnapshot", "AccountSnapshotCollected")
                        /\ m.fragment.account = a
         /\ UNCHANGED <<account, card>>
<1>f. PICK f : f = [account |-> a, limit |-> account[a].limit, consumed |-> account[a].consumed]
  OBVIOUS
<1>m. PICK m : m = [type |-> "AccountSnapshotCollected", fragment |-> f]
  OBVIOUS
<1>n. PICK new : new = To(Router, m)
  OBVIOUS
<1>1. /\ mailbox[a] # <<>> /\ Head(mailbox[a]).type = "GetSnapshot" /\ a \in Actors
      /\ Deliver(a, new) /\ UNCHANGED <<sent, events, routerVars, account, card, results>>
  BY <1>f, <1>m, <1>n, ActorsApart DEF AccountSnapshot, HasMail, history
<1>2. m \in Letter(Router) /\ m.type = "AccountSnapshotCollected" /\ m.fragment.account = a
  <2>1. f \in AccountSnapshots
    BY <1>f, AccountType DEF AccountSnapshots
  <2>2. [type |-> "AccountSnapshotCollected", fragment |-> f] \in RouterMsg
    BY <2>1, MakeMessages
  <2> QED
    BY <1>f, <1>m, <2>2, ActorsApart
<1>3. PassesTo(a, new, Router, m, Head(mailbox[a]).type, m.type)
  BY <1>1, <1>2, <1>n, PassesToIs
<1> QED
  BY <1>1, <1>2, <1>3

\* GetSnapshot of a card.
LEMMA CardSnapshotActs ==
  ASSUME AllOK, NEW c \in Cards, CardSnapshot(c)
  PROVE  /\ \E new, m : /\ PassesTo(c, new, Router, m, "GetSnapshot", "CardSnapshotCollected")
                        /\ m.fragment.card = c
         /\ UNCHANGED <<account, card>>
<1>f. PICK f : f = [card |-> c, limit |-> card[c].limit, consumed |-> card[c].consumed]
  OBVIOUS
<1>m. PICK m : m = [type |-> "CardSnapshotCollected", fragment |-> f]
  OBVIOUS
<1>n. PICK new : new = To(Router, m)
  OBVIOUS
<1>1. /\ mailbox[c] # <<>> /\ Head(mailbox[c]).type = "GetSnapshot" /\ c \in Actors
      /\ Deliver(c, new) /\ UNCHANGED <<sent, events, routerVars, account, card, results>>
  BY <1>f, <1>m, <1>n, ActorsApart DEF CardSnapshot, HasMail, history
<1>2. m \in Letter(Router) /\ m.type = "CardSnapshotCollected" /\ m.fragment.card = c
  <2>1. f \in CardSnapshots
    BY <1>f, CardType DEF CardSnapshots
  <2>2. [type |-> "CardSnapshotCollected", fragment |-> f] \in RouterMsg
    BY <2>1, MakeMessages
  <2> QED
    BY <1>f, <1>m, <2>2, ActorsApart
<1>3. PassesTo(c, new, Router, m, Head(mailbox[c]).type, m.type)
  BY <1>1, <1>2, <1>n, PassesToIs
<1> QED
  BY <1>1, <1>2, <1>3

\* QueryCardState.
LEMMA CardQueryActs ==
  ASSUME AllOK, NEW c \in Cards, CardQuery(c), NEW o, o = Head(mailbox[c]).op
  PROVE  /\ \E new, m : /\ PassesTo(c, new, Owner[c], m, "QueryCardState", "CardQueryReply")
                        /\ m.op = o /\ m.card = c
         /\ account' = account /\ TasksKept
<1>m. PICK m : m = [type |-> "CardQueryReply", op |-> o, card |-> c, consumed |-> card[c].consumed]
  OBVIOUS
<1>n. PICK new : new = To(Owner[c], m)
  OBVIOUS
<1>1. /\ mailbox[c] # <<>> /\ Head(mailbox[c]).type = "QueryCardState" /\ c \in Actors
      /\ Deliver(c, new) /\ UNCHANGED <<sent, events, routerVars, account, results>>
      /\ card' = card \/ card' = [card EXCEPT ![c].consumed = 0]
  BY <1>m, <1>n, ActorsApart DEF CardQuery, HasMail, history
<1>2. TasksKept
  <2>1. CASE card' = card
    BY <2>1 DEF TasksKept
  <2>2. CASE card' = [card EXCEPT ![c].consumed = 0]
    <3>1. card' = [card EXCEPT ![c] = [limit |-> card[c].limit, consumed |-> 0, tasks |-> card[c].tasks]]
      BY <2>2, CardExcept
    <3>2. DOMAIN card = Cards
      BY DEF AllOK, CardsOK
    <3> QED
      BY <3>1, <3>2 DEF TasksKept
  <2> QED
    BY <1>1, <2>1, <2>2
<1>3. m \in Letter(Owner[c]) /\ m.type = "CardQueryReply" /\ m.op = o /\ m.card = c
  <2>1. o \in Nat
    <3>1. Head(mailbox[c]) \in CardMsg
      BY <1>1, HeadLemma, ActorsApart
    <3> QED
      BY <1>1, <3>1, CardFields
  <2>2. [type |-> "CardQueryReply", op |-> o, card |-> c, consumed |-> card[c].consumed] \in AccountMsg
    BY <2>1, CardType, MakeMessages
  <2> QED
    BY <1>m, <2>2, CardType
<1>4. PassesTo(c, new, Owner[c], m, Head(mailbox[c]).type, m.type)
  BY <1>1, <1>3, <1>n, PassesToIs
<1> QED
  BY <1>1, <1>2, <1>3, <1>4

\* These steps move nothing.
LEMMA ReportPlaces ==
  ASSUME AllOK, PlacesInv,
         \/ \E a \in Accounts : AccountCharge(a) \/ AccountSnapshot(a)
         \/ \E c \in Cards : CardQuery(c) \/ CardSnapshot(c)
  PROVE  PlacesInv'
<1>1. ASSUME NEW a \in Accounts, AccountCharge(a) PROVE PlacesInv'
  <2>1. PICK new : Passes(a, new, {"ApplyCharge"}, {"AccountChargeReply"})
    BY <1>1, AccountChargeActs
  <2>2. Pendings /\ TasksKept
    BY <1>1, AccountChargeActs DEF TasksKept
  <2>3. ({"ApplyCharge"} \cup {"AccountChargeReply"}) \cap CarrierTypes = {}
    BY DEF CarrierTypes
  <2> QED
    BY <2>1, <2>2, <2>3, PassesFrame
<1>2. ASSUME NEW a \in Accounts, AccountSnapshot(a) PROVE PlacesInv'
  <2>1. PICK new, m : PassesTo(a, new, Router, m, "GetSnapshot", "AccountSnapshotCollected")
    BY <1>2, AccountSnapshotActs
  <2>2. Pendings /\ TasksKept /\ Passes(a, new, {"GetSnapshot"}, {"AccountSnapshotCollected"})
    BY <1>2, <2>1, AccountSnapshotActs DEF Pendings, TasksKept, PassesTo
  <2>3. ({"GetSnapshot"} \cup {"AccountSnapshotCollected"}) \cap CarrierTypes = {}
    BY DEF CarrierTypes
  <2> QED
    BY <2>2, <2>3, PassesFrame
<1>3. ASSUME NEW c \in Cards, CardQuery(c) PROVE PlacesInv'
  <2>o. PICK o : o = Head(mailbox[c]).op
    OBVIOUS
  <2>1. PICK new, m : PassesTo(c, new, Owner[c], m, "QueryCardState", "CardQueryReply")
    BY <1>3, <2>o, CardQueryActs
  <2>2. TasksKept /\ Passes(c, new, {"QueryCardState"}, {"CardQueryReply"}) /\ account' = account
    BY <1>3, <2>o, <2>1, CardQueryActs DEF PassesTo
  <2>3. ({"QueryCardState"} \cup {"CardQueryReply"}) \cap CarrierTypes = {} /\ Pendings
    BY <2>2 DEF CarrierTypes, Pendings
  <2> QED
    BY <2>2, <2>3, PassesFrame
<1>4. ASSUME NEW c \in Cards, CardSnapshot(c) PROVE PlacesInv'
  <2>1. PICK new, m : PassesTo(c, new, Router, m, "GetSnapshot", "CardSnapshotCollected")
    BY <1>4, CardSnapshotActs
  <2>2. Pendings /\ TasksKept /\ Passes(c, new, {"GetSnapshot"}, {"CardSnapshotCollected"})
    BY <1>4, <2>1, CardSnapshotActs DEF Pendings, TasksKept, PassesTo
  <2>3. ({"GetSnapshot"} \cup {"CardSnapshotCollected"}) \cap CarrierTypes = {}
    BY DEF CarrierTypes
  <2> QED
    BY <2>2, <2>3, PassesFrame
<1> QED
  BY <1>1, <1>2, <1>3, <1>4

\* The query of account a is p now, the others stay.
PendingIs(a, p) == /\ account'[a].pending = p
                   /\ \A b \in Accounts : b # a => account'[b].pending = account[b].pending
\* An assignment to one account sets its query and leaves those of the others.
LEMMA PendingSet ==
  ASSUME AllOK, NEW a \in Accounts, NEW l, NEW n, NEW p,
         account' = [account EXCEPT ![a] = [limit |-> l, consumed |-> n, pending |-> p]]
  PROVE  PendingIs(a, p)
BY DEF AllOK, AccountsOK, PendingIs

\* StartAccountQuery and StartAccountBill: an account without cards answers, the others wait.
StartAnswers(a, o) ==
  /\ \E new, k : PassesTo(a, new, Router, k, "Start", "AccountQueryCompleted") /\ k.op = o
  /\ Pendings
StartWaits(a, o, n) ==
  /\ Passes(a, Nothing, {"Start"}, {}) /\ \A z : Range(Added(Nothing, z)) = {}
  /\ \E p : PendingIs(a, p) /\ p.op = o /\ p.remaining = n
\* What the start of a query does: without cards it is answered at once, with n
\* cards the account waits for n reports (account.rs, StartAccountQuery, StartAccountBill).
LEMMA AccountStartActs ==
  ASSUME AllOK, NEW a \in Accounts, AccountStart(a), NEW m, m = Head(mailbox[a])
  PROVE  /\ m.op \in Executed /\ m.op \in Ops /\ IsQuery(m.op) /\ m \in InMail(a) /\ m \in AccountMsg
         /\ m.type = "Start" /\ m.num_cards \in Nat /\ card' = card
         /\ \/ m.num_cards = 0 /\ StartAnswers(a, m.op)
            \/ m.num_cards # 0 /\ StartWaits(a, m.op, m.num_cards)
<1>0. PICK h, o : h = m /\ o = m.op
  OBVIOUS
<1>b. PICK billing, p : /\ billing = (Op[o].kind = "Bill")
                        /\ p = [op |-> o, remaining |-> h.num_cards, spent |-> <<>>, billing |-> billing]
  OBVIOUS
<1>1. /\ mailbox[a] # <<>> /\ h = Head(mailbox[a]) /\ h.type = "Start" /\ a \in Actors
      /\ UNCHANGED <<sent, events, routerVars, card, results>>
      /\ \/ /\ h.num_cards = 0 /\ Deliver(a, To(Router, QueryDone(o, <<>>, account[a].consumed)))
            /\ account' = account \/ account' = [account EXCEPT ![a].consumed = 0]
         \/ /\ h.num_cards # 0 /\ Deliver(a, Nothing)
            /\ account' = [account EXCEPT ![a].pending = p]
  BY <1>0, <1>b, ActorsApart DEF AccountStart, HasMail, history
<1>2. h \in InMail(a) /\ h \in AccountMsg /\ o \in Executed /\ IsQuery(o) /\ h.num_cards \in Nat
  <2>1. h \in InMail(a) /\ h \in AccountMsg /\ AccountMail(a, h)
    BY <1>1, HeadLemma, ActorsApart DEF Good
  <2> QED
    BY <1>0, <1>1, <2>1, AccountFields DEF AccountMail
<1>3. o \in Ops
  BY <1>2 DEF AllOK, RouterOK, Executed
<1>4. CASE /\ h.num_cards = 0 /\ Deliver(a, To(Router, QueryDone(o, <<>>, account[a].consumed)))
           /\ account' = account \/ account' = [account EXCEPT ![a].consumed = 0]
  <2>n. PICK n \in Nat : n = account[a].consumed
    BY AccountType
  <2>k. PICK k : k = QueryDone(o, <<>>, n)
    OBVIOUS
  <2>w. PICK new : new = To(Router, k)
    OBVIOUS
  <2>1. k \in Letter(Router) /\ k.type = "AccountQueryCompleted" /\ k.op = o
    <3>1. <<>> \in Spendings /\ Grows
      BY <1>1, SameGrows DEF Spendings, routerVars
    <3>2. QueryDone(o, <<>>, n) \in Letter(Router)
      BY <1>2, <3>1, QueryDoneGood
    <3> QED
      BY <2>k, <3>2 DEF QueryDone
  <2>2. PassesTo(a, new, Router, k, Head(mailbox[a]).type, k.type)
    BY <1>1, <1>4, <2>n, <2>k, <2>w, <2>1, PassesToIs
  <2>3. Pendings
    BY <1>4, PendingSame
  <2> QED
    BY <1>0, <1>1, <1>2, <1>3, <1>4, <2>1, <2>2, <2>3 DEF StartAnswers
<1>5. CASE /\ h.num_cards # 0 /\ Deliver(a, Nothing)
           /\ account' = [account EXCEPT ![a].pending = p]
  <2>1. Acts(a, Nothing, {Head(mailbox[a]).type}, {}) /\ \A z : Range(Added(Nothing, z)) = {}
    BY <1>1, <1>5, ActsNone
  <2>2. Passes(a, Nothing, {"Start"}, {})
    BY <1>1, <2>1 DEF Passes
  <2>3. account' = [account EXCEPT ![a] = [limit |-> account[a].limit,
           consumed |-> account[a].consumed, pending |-> p]]
    BY <1>5, AccountExcept
  <2>4. PendingIs(a, p) /\ p.op = o /\ p.remaining = h.num_cards
    BY <2>3, <1>b, PendingSet
  <2> QED
    BY <1>0, <1>1, <1>2, <1>3, <1>5, <2>1, <2>2, <2>4 DEF StartWaits
<1> QED
  BY <1>1, <1>4, <1>5

\* A query of account a has been there, and no other is.
LEMMA QueryAlone ==
  ASSUME AllOK, Alone, AddressInv, NEW a \in Accounts, NEW o \in Ops, IsQuery(o), ~Awaited(o)
  PROVE  account[a].pending.op = 0
<1>1. ASSUME account[a].pending.op # 0 PROVE FALSE
  <2>1. PICK q : q = account[a].pending.op
    OBVIOUS
  <2>2. q \in Executed /\ IsQuery(q)
    BY <1>1, <2>1 DEF AddressInv
  <2>3. q \in Ops
    BY <2>2 DEF AllOK, RouterOK, Executed
  <2>4. q = o
    BY <2>2, <2>3 DEF Alone
  <2> QED
    BY <2>1, <2>4 DEF Awaited
<1> QED
  BY <1>1

\* What a message at the head of a mailbox carries is nowhere else.
LEMMA HeadCarries ==
  ASSUME AllOK, PlacesInv, NEW x, NEW new, Sends(x, new), NEW o \in Ops, ~OnCard(o),
         Head(mailbox[x]).type \in CarrierTypes, Head(mailbox[x]).op = o
  PROVE  Head(mailbox[x]) \in Carriers(o) /\ Present(Carriers(o)) /\ ~Awaited(o) /\ ~Answered(o)
<1>1. x \in Actors /\ Head(mailbox[x]) \in Letter(x) /\ Head(mailbox[x]) \in InMail(x)
  BY HeadLemma DEF Sends
<1>2. Head(mailbox[x]) \in Carriers(o)
  BY <1>1, Carrying
<1>3. Present(Carriers(o))
  BY <1>1, <1>2 DEF Present
<1> QED
  BY <1>2, <1>3, OnceParts DEF PlacesInv

\* StartAccountQuery and StartAccountBill: the query is answered or awaited.
LEMMA AccountStartPlaces ==
  ASSUME AllOK, Alone, AddressInv, PlacesInv, NEW a \in Accounts, AccountStart(a)
  PROVE  PlacesInv'
<1>0. PICK m, o : m = Head(mailbox[a]) /\ o = m.op
  OBVIOUS
<1>1. /\ o \in Executed /\ o \in Ops /\ IsQuery(o) /\ m \in InMail(a) /\ m \in AccountMsg
      /\ m.type = "Start" /\ card' = card
      /\ StartAnswers(a, o) \/ StartWaits(a, o, m.num_cards)
  BY <1>0, AccountStartActs
<1>2. ~OnCard(o) /\ Head(mailbox[a]).type \in CarrierTypes /\ Head(mailbox[a]).op = o /\ o # 0
  BY <1>0, <1>1 DEF IsQuery, OnCard, CarrierTypes, Ops
<1>3. CASE StartAnswers(a, o)
  <2>1. PICK new, k : PassesTo(a, new, Router, k, "Start", "AccountQueryCompleted") /\ k.op = o
    BY <1>3 DEF StartAnswers
  <2>2. \A p : Awaited(p)' <=> Awaited(p)
    BY <1>1, <1>3, <2>1, AwaitedSame DEF StartAnswers, PassesTo, Passes, Pendings, routerVars
  <2>3. /\ Sends(a, new) /\ k.type \in CarrierTypes
        /\ k \in Letter(Router) /\ sent' = sent /\ results' = results
        /\ Range(Added(new, Router)) = {k} /\ \A M : AtMostOne(Added(new, Router), M)
        /\ \A z : z # Router => \A n \in Range(Added(new, z)) : n.type \notin CarrierTypes
    BY <2>1 DEF PassesTo, SendsTo, Passes, CarrierTypes
  <2>4. Router \in Actors /\ Router # a
    BY ActorsApart
  <2> QED
    BY <1>1, <1>2, <2>1, <2>2, <2>3, <2>4, PlacePassed
<1>4. CASE StartWaits(a, o, m.num_cards)
  <2>1. PICK p : PendingIs(a, p) /\ p.op = o
    BY <1>4 DEF StartWaits
  <2>2. /\ Sends(a, Nothing) /\ (\A z : Range(Added(Nothing, z)) = {})
        /\ UNCHANGED <<sent, operations, snapshots, results>>
    BY <1>4 DEF StartWaits, Passes, Acts, routerVars
  <2>3. Head(mailbox[a]) \in Carriers(o) /\ ~Awaited(o)
    BY <1>1, <1>2, <2>2, HeadCarries
  <2>4. account[a].pending.op = 0
    BY <1>1, <2>3, QueryAlone
  <2>5. Awaited(o)'
    BY <2>1 DEF PendingIs, Awaited
  <2>6. \A q \in Ops : q # o => (Awaited(q)' <=> Awaited(q))
    <3> SUFFICES ASSUME NEW q \in Ops, q # o PROVE Awaited(q)' <=> Awaited(q)
      OBVIOUS
    <3>1. q # 0
      BY DEF Ops
    <3>2. \A b \in Accounts : account'[b].pending.op = q <=> account[b].pending.op = q
      BY <2>1, <2>4, <3>1 DEF PendingIs
    <3> QED
      BY <1>1, <2>2, <3>2 DEF Awaited
  <2>7. PlaceInv(o)' /\ OnceInv(o)'
    <3>1. OnceInv(o) /\ \A z : Range(Added(Nothing, z)) \cap Carriers(o) = {}
      BY <1>1, <2>2 DEF PlacesInv
    <3> QED
      BY <1>1, <1>2, <2>2, <2>3, <2>5, <3>1, PlaceMoves
  <2>8. Adds(o) /\ \A y : \A k \in Range(Added(Nothing, y)) : k.type \in CarrierTypes => k.op = o
    BY <2>2 DEF Adds
  <2> QED
    BY <1>2, <2>2, <2>6, <2>7, <2>8, PlacesMove
<1> QED
  BY <1>1, <1>3, <1>4

\* CardQueryReply: it is not awaited, one of several, or the last one.
ReplyDropped(a, o) ==
  /\ \E new : PassesTo(a, new, Router, Debug, "CardQueryReply", "Debug")
  /\ account' = account /\ account[a].pending.op # o
ReplyCounted(a, o) ==
  /\ Passes(a, Nothing, {"CardQueryReply"}, {}) /\ \A z : Range(Added(Nothing, z)) = {}
  /\ account[a].pending.op = o /\ account[a].pending.remaining > 1
  /\ \E p : PendingIs(a, p) /\ p.op = o /\ p.remaining = account[a].pending.remaining - 1
ReplyLast(a, o) ==
  /\ \E new, k : PassesTo(a, new, Router, k, "CardQueryReply", "AccountQueryCompleted") /\ k.op = o
  /\ account[a].pending.op = o /\ account[a].pending.remaining <= 1
  /\ PendingIs(a, NoQuery)
\* What a report does: it is dropped when its query is not pending, counted, or the
\* last one, after which the account answers (account.rs, CardQueryReply).
LEMMA AccountQueryReplyActs ==
  ASSUME AllOK, NEW a \in Accounts, AccountQueryReply(a), NEW m, m = Head(mailbox[a])
  PROVE  /\ m.op \in Executed /\ m.op \in Ops /\ IsQuery(m.op) /\ m \in InMail(a) /\ m \in AccountMsg
         /\ m.type = "CardQueryReply" /\ m.card \in Cards /\ card' = card
         /\ ReplyDropped(a, m.op) \/ ReplyCounted(a, m.op) \/ ReplyLast(a, m.op)
<1>0. PICK h, o, p : h = m /\ o = m.op /\ p = account[a].pending
  OBVIOUS
<1>s. PICK spent : spent = Append(p.spent, [card |-> h.card, consumed |-> h.consumed])
  OBVIOUS
<1>q. PICK q, r : /\ q = [op |-> p.op, remaining |-> p.remaining - 1, spent |-> spent, billing |-> p.billing]
                  /\ r = [limit |-> account[a].limit,
                          consumed |-> IF p.billing THEN 0 ELSE account[a].consumed, pending |-> NoQuery]
  OBVIOUS
<1>1. /\ mailbox[a] # <<>> /\ h = Head(mailbox[a]) /\ h.type = "CardQueryReply" /\ a \in Actors
      /\ UNCHANGED <<sent, events, routerVars, card, results>>
      /\ \/ p.op # o /\ Deliver(a, To(Router, Debug)) /\ UNCHANGED account
         \/ /\ p.op = o /\ p.remaining > 1 /\ Deliver(a, Nothing)
            /\ account' = [account EXCEPT ![a].pending = q]
         \/ /\ p.op = o /\ p.remaining <= 1
            /\ Deliver(a, To(Router, QueryDone(o, spent, Total(spent))))
            /\ account' = [account EXCEPT ![a] = r]
  BY <1>0, <1>s, <1>q, ActorsApart DEF AccountQueryReply, HasMail, history
<1>2. h \in InMail(a) /\ h \in AccountMsg /\ o \in Executed /\ IsQuery(o) /\ h.card \in Cards /\ h.consumed \in Nat
  <2>1. h \in InMail(a) /\ h \in AccountMsg /\ AccountMail(a, h)
    BY <1>1, HeadLemma, ActorsApart DEF Good
  <2> QED
    BY <1>0, <1>1, <2>1, AccountFields DEF AccountMail
<1>3. o \in Ops
  BY <1>2 DEF AllOK, RouterOK, Executed
<1>4. CASE p.op # o /\ Deliver(a, To(Router, Debug)) /\ UNCHANGED account
  <2>k. PICK k : k = Debug
    OBVIOUS
  <2>w. PICK new : new = To(Router, k)
    OBVIOUS
  <2>1. k \in Letter(Router) /\ k.type = "Debug"
    BY <2>k, ActorsApart, MakeMessages DEF Debug
  <2>2. PassesTo(a, new, Router, k, Head(mailbox[a]).type, k.type)
    BY <1>1, <1>4, <2>k, <2>w, <2>1, PassesToIs
  <2>3. ReplyDropped(a, o)
    BY <1>0, <1>1, <1>4, <2>k, <2>1, <2>2 DEF ReplyDropped
  <2> QED
    BY <1>0, <1>1, <1>2, <1>3, <2>3
<1>5. CASE /\ p.op = o /\ p.remaining > 1 /\ Deliver(a, Nothing)
           /\ account' = [account EXCEPT ![a].pending = q]
  <2>1. Acts(a, Nothing, {Head(mailbox[a]).type}, {}) /\ \A z : Range(Added(Nothing, z)) = {}
    BY <1>1, <1>5, ActsNone
  <2>2. Passes(a, Nothing, {"CardQueryReply"}, {})
    BY <1>1, <2>1 DEF Passes
  <2>3. account' = [account EXCEPT ![a] = [limit |-> account[a].limit,
           consumed |-> account[a].consumed, pending |-> q]]
    BY <1>5, AccountExcept
  <2>4. PendingIs(a, q) /\ q.op = p.op /\ q.remaining = p.remaining - 1
    BY <2>3, <1>q, PendingSet
  <2>5. ReplyCounted(a, o)
    BY <1>0, <1>5, <2>1, <2>2, <2>4 DEF ReplyCounted
  <2> QED
    BY <1>0, <1>1, <1>2, <1>3, <2>5
<1>6. CASE /\ p.op = o /\ p.remaining <= 1
           /\ Deliver(a, To(Router, QueryDone(o, spent, Total(spent))))
           /\ account' = [account EXCEPT ![a] = r]
  <2>k. PICK k, n : k = QueryDone(o, spent, n) /\ n = Total(spent)
    OBVIOUS
  <2>w. PICK new : new = To(Router, k)
    OBVIOUS
  <2>0. spent \in Spendings
    <3>1. [card |-> h.card, consumed |-> h.consumed] \in [card : Cards, consumed : Nat]
      BY <1>2
    <3>2. p.spent \in Seq([card : Cards, consumed : Nat])
      BY <1>0, AccountType DEF Spendings
    <3> QED
      BY <1>s, <3>1, <3>2, AppendLemma DEF Spendings
  <2>1. k \in Letter(Router) /\ k.type = "AccountQueryCompleted" /\ k.op = o
    <3>1. Grows /\ n \in Nat
      BY <1>1, <2>0, <2>k, SameGrows, TotalType DEF routerVars
    <3>2. QueryDone(o, spent, n) \in Letter(Router)
      BY <1>2, <2>0, <3>1, QueryDoneGood
    <3> QED
      BY <2>k, <3>2 DEF QueryDone
  <2>2. PassesTo(a, new, Router, k, Head(mailbox[a]).type, k.type)
    BY <1>1, <1>6, <2>k, <2>w, <2>1, PassesToIs
  <2>3. PendingIs(a, NoQuery)
    BY <1>6, <1>q, PendingSet
  <2>4. ReplyLast(a, o)
    BY <1>0, <1>1, <1>6, <2>1, <2>2, <2>3 DEF ReplyLast
  <2> QED
    BY <1>0, <1>1, <1>2, <1>3, <2>4
<1> QED
  BY <1>1, <1>4, <1>5, <1>6

\* CardQueryReply: the last one completes the query.
LEMMA AccountQueryReplyPlaces ==
  ASSUME AllOK, AddressInv, PlacesInv, NEW a \in Accounts, AccountQueryReply(a)
  PROVE  PlacesInv'
<1>0. PICK m, o : m = Head(mailbox[a]) /\ o = m.op
  OBVIOUS
<1>1. /\ o \in Executed /\ o \in Ops /\ IsQuery(o) /\ m.type = "CardQueryReply" /\ card' = card
      /\ ReplyDropped(a, o) \/ ReplyCounted(a, o) \/ ReplyLast(a, o)
  BY <1>0, AccountQueryReplyActs
<1>2. ~OnCard(o) /\ o # 0 /\ "CardQueryReply" \notin CarrierTypes /\ "Debug" \notin CarrierTypes
  BY <1>0, <1>1 DEF IsQuery, OnCard, CarrierTypes, Ops
<1>3. CASE ReplyDropped(a, o)
  <2>1. PICK new : PassesTo(a, new, Router, Debug, "CardQueryReply", "Debug")
    BY <1>3 DEF ReplyDropped
  <2>2. Pendings /\ TasksKept /\ Passes(a, new, {"CardQueryReply"}, {"Debug"})
    BY <1>1, <1>3, <2>1 DEF ReplyDropped, Pendings, TasksKept, PassesTo
  <2>3. ({"CardQueryReply"} \cup {"Debug"}) \cap CarrierTypes = {}
    BY <1>2
  <2> QED
    BY <2>2, <2>3, PassesFrame
<1>4. CASE ReplyCounted(a, o)
  <2>1. PICK p : PendingIs(a, p) /\ p.op = o
    BY <1>4 DEF ReplyCounted
  <2>2. Passes(a, Nothing, {"CardQueryReply"}, {}) /\ account[a].pending.op = o
    BY <1>4 DEF ReplyCounted
  <2>3. \A b \in Accounts : account'[b].pending.op = account[b].pending.op
    BY <2>1, <2>2 DEF PendingIs
  <2>4. \A q : Awaited(q)' <=> Awaited(q)
    BY <1>1, <2>2, <2>3 DEF Awaited, Passes, routerVars
  <2>5. ({"CardQueryReply"} \cup {}) \cap CarrierTypes = {}
    BY <1>2
  <2> QED
    BY <2>2, <2>4, <2>5, PlacesFrame DEF Passes
<1>5. CASE ReplyLast(a, o)
  <2>1. PICK new, k : PassesTo(a, new, Router, k, "CardQueryReply", "AccountQueryCompleted") /\ k.op = o
    BY <1>5 DEF ReplyLast
  <2>2. /\ Sends(a, new) /\ k.type \in CarrierTypes /\ Head(mailbox[a]).type \notin CarrierTypes
        /\ k \in Letter(Router) /\ UNCHANGED <<sent, operations, snapshots, results>>
        /\ Range(Added(new, Router)) = {k} /\ \A M : AtMostOne(Added(new, Router), M)
        /\ \A z : z # Router => Range(Added(new, z)) = {}
    BY <1>2, <2>1 DEF PassesTo, SendsTo, Passes, CarrierTypes, routerVars
  <2>3. Router \in Actors /\ Router # a
    BY ActorsApart
  <2>4. account[a].pending.op = o /\ PendingIs(a, NoQuery) /\ NoQuery.op = 0
    BY <1>5 DEF ReplyLast, NoQuery
  <2>5. Awaited(o)
    BY <2>4 DEF Awaited
  <2>6. ~Awaited(o)'
    <3>1. \A c \in Cards : o \notin Range(card[c].tasks)
      BY <1>1 DEF AllOK, CardsOK, TasksKnown, OfCard, IsQuery
    <3>2. \A b \in Accounts : b # a => account[b].pending.op # o
      BY <1>2, <2>4 DEF AddressInv
    <3>3. \A b \in Accounts : account'[b].pending.op # o
      BY <1>2, <2>4, <3>2 DEF PendingIs
    <3>4. ~(0 \in DOMAIN snapshots /\ operations[0] = o)
      <4>1. 0 \in DOMAIN snapshots => Op[operations[0]].kind \in {"GetDatabase", "ReplaceDatabase"}
        BY DEF AllOK, RouterOK, RouterInv
      <4> QED
        BY <1>1, <4>1 DEF IsQuery
    <3> QED
      BY <1>1, <2>2, <3>1, <3>3, <3>4 DEF Awaited
  <2>7. \A q \in Ops : q # o => (Awaited(q)' <=> Awaited(q))
    <3> SUFFICES ASSUME NEW q \in Ops, q # o PROVE Awaited(q)' <=> Awaited(q)
      OBVIOUS
    <3>1. q # 0
      BY DEF Ops
    <3>2. \A b \in Accounts : account'[b].pending.op = q <=> account[b].pending.op = q
      BY <2>4, <3>1 DEF PendingIs
    <3> QED
      BY <1>1, <2>2, <3>2 DEF Awaited
  <2>8. k \in Carriers(o)
    BY <2>1, <2>2, <2>3, Carrying
  <2>9. PlaceInv(o)' /\ OnceInv(o)'
    <3>1. OnceInv(o)
      BY <1>1 DEF PlacesInv
    <3>2. Range(Added(new, Router)) \cap Carriers(o) # {} /\ \A z : z # Router => Range(Added(new, z)) \cap Carriers(o) = {}
      BY <2>2, <2>8
    <3> QED
      BY <1>1, <1>2, <2>2, <2>3, <2>5, <2>6, <3>1, <3>2, PlaceMoves
  <2>10. Adds(o) /\ \A y : \A n \in Range(Added(new, y)) : n.type \in CarrierTypes => n.op = o
    BY <2>1, <2>2 DEF Adds
  <2> QED
    BY <1>2, <2>2, <2>7, <2>9, <2>10, PlacesMove
<1> QED
  BY <1>1, <1>3, <1>4, <1>5

-----------------------------------------------------------------------------
(* Places: what the cards do *)

\* A card runs tasks: each of them is done, or waits at the card.
LEMMA StepsPlaces ==
  ASSUME AllOK, PlacesInv, NEW c \in Cards, NEW s, NEW pre, NEW n, Steps(c, s, pre, n),
         UNCHANGED <<account, snapshots>>, Range(card[c].tasks) \subseteq Range(pre),
         Head(mailbox[c]).type \in CarrierTypes => Head(mailbox[c]).op \in Range(pre)
  PROVE  PlacesInv'
<1>n. PICK new : new = CardSends(c, s)
  OBVIOUS
<1>1. /\ Sends(c, new) /\ Added(new, Router) = DoneMail(s) /\ Added(new, Owner[c]) = AskMail(s)
      /\ \A y : y # Router /\ y # Owner[c] => Added(new, y) = <<>>
      /\ \A m \in Range(DoneMail(s)) : m.type = "OperationCompleted" /\ m \in RouterMsg
                                       /\ \E i \in 1..n : m.op = pre[i]
      /\ \A m \in Range(AskMail(s)) : m \in AskOf(Head(s.tasks))
      /\ card'[c].tasks = s.tasks /\ \A d \in Cards : d # c => card'[d] = card[d]
  BY <1>n, StepsMail
<1>2. /\ sent' = sent /\ UNCHANGED <<operations, results>> /\ Shape(c, s, pre, n)
  BY DEF Steps
<1>3. /\ DoneMail(s) \in Seq(RouterMsg) /\ Len(DoneMail(s)) = n /\ n \in Nat
      /\ \A i \in 1..n : DoneMail(s)[i].type = "OperationCompleted" /\ DoneMail(s)[i].op = pre[i]
  <2>1. DoneAre(c, s, pre, n)
    BY <1>2, ShapeMail
  <2> QED
    BY <2>1 DEF DoneAre
<1>k. PICK k : k = Len(pre)
  OBVIOUS
<1>4. /\ pre \in Seq(Nat) /\ DOMAIN pre = 1..k /\ k \in Nat /\ n \in Nat /\ n <= k
      /\ s.tasks \in Seq(Nat) /\ DOMAIN s.tasks = 1..(k - n)
      /\ \A j \in 1..(k - n) : s.tasks[j] = pre[n + j]
      /\ \A o \in Range(pre) : OfCard(o, c)
  <2>1. pre \in Seq(Nat) /\ s.tasks \in Seq(Nat)
    BY <1>2 DEF Shape, CardRun
  <2>2. DOMAIN pre = 1..k /\ k \in Nat /\ DOMAIN s.tasks = 1..Len(s.tasks)
    BY <1>k, <2>1, SeqLemma
  <2>3. n \in 0..k /\ Len(s.tasks) = k - n /\ \A j \in 1..(k - n) : s.tasks[j] = pre[n + j]
    BY <1>2, <1>k DEF Shape
  <2>4. n \in Nat /\ n <= k
    BY <2>2, <2>3
  <2> QED
    BY <1>2, <2>1, <2>2, <2>3, <2>4 DEF Shape
<1>5. \A i \in 1..n : pre[i] \in Range(pre)
  <2>1. \A i \in 1..n : i \in 1..k
    BY <1>4
  <2> QED
    BY <1>4, <2>1 DEF Range
<1>6. Range(s.tasks) \subseteq Range(pre)
  <2> SUFFICES ASSUME NEW j \in 1..(k - n) PROVE s.tasks[j] \in Range(pre)
    BY <1>4 DEF Range
  <2>1. n + j \in DOMAIN pre /\ s.tasks[j] = pre[n + j]
    BY <1>4
  <2> QED
    BY <2>1 DEF Range
<1>7. \A y : \A m \in Range(Added(new, y)) : m.type \in CarrierTypes => m.op \in Range(pre)
  <2> SUFFICES ASSUME NEW y, NEW m \in Range(Added(new, y)), m.type \in CarrierTypes
               PROVE  m.op \in Range(pre)
    OBVIOUS
  <2>1. CASE y = Router
    BY <1>1, <1>5, <2>1
  <2>2. CASE y = Owner[c]
    <3>1. m \in AskOf(Head(s.tasks))
      BY <1>1, <2>2
    <3>2. m.type = "ApplyCharge"
      BY <3>1 DEF AskOf
    <3> QED
      BY <3>2 DEF CarrierTypes
  <2>3. CASE y # Router /\ y # Owner[c]
    BY <1>1, <2>3, FewLemma
  <2> QED
    BY <2>1, <2>2, <2>3
<1>8. ASSUME NEW o \in Ops, o \notin Range(pre) PROVE PlaceInv(o)' /\ OnceInv(o)'
  <2>1. Head(mailbox[c]) \notin Carriers(o) /\ \A y : Range(Added(new, y)) \cap Carriers(o) = {}
    BY <1>7, <1>8, Carrying
  <2>2. Awaited(o)' <=> Awaited(o)
    <3>1. \A d \in Cards : o \in Range(card'[d].tasks) <=> o \in Range(card[d].tasks)
      BY <1>1, <1>6, <1>8
    <3> QED
      BY <1>2, <3>1 DEF Awaited
  <2>3. Adds(0) /\ 0 # o /\ PlaceInv(o) /\ OnceInv(o)
    BY <1>2 DEF Adds, PlacesInv, Ops
  <2> QED
    BY <1>1, <1>2, <2>1, <2>2, <2>3, PlaceStays
<1>9. ASSUME NEW o \in Ops, o \in Range(pre) PROVE PlaceInv(o)' /\ OnceInv(o)'
  <2>1. OnCard(o)
    BY <1>4, <1>9 DEF OfCard, OnCard
  <2>2. PICK j \in 1..k : pre[j] = o
    BY <1>4, <1>9 DEF Range
  <2>3. CASE j <= n
    <3>1. PICK m : m = DoneMail(s)[j]
      OBVIOUS
    <3>2. j \in 1..n
      BY <1>4, <2>3
    <3>3. m \in Range(DoneMail(s)) /\ m.op = o
      <4>1. DOMAIN DoneMail(s) = 1..n
        BY <1>3
      <4> QED
        BY <1>3, <2>2, <3>1, <3>2, <4>1 DEF Range
    <3>4. m \in Range(Added(new, Router)) /\ m \in Letter(Router) /\ m.type \in CarrierTypes /\ Router \in Actors
      BY <1>1, <3>3, ActorsApart DEF CarrierTypes
    <3>5. Carried(m.op)'
      BY <1>1, <3>4, IsCarried
    <3> QED
      BY <1>2, <2>1, <3>3, <3>5, CardPlaces
  <2>4. CASE ~(j <= n)
    <3>1. j - n \in 1..(k - n) /\ s.tasks[j - n] = pre[n + (j - n)] /\ n + (j - n) = j
      BY <1>4, <2>4
    <3>2. o \in Range(s.tasks)
      BY <1>4, <2>2, <3>1 DEF Range
    <3>3. Awaited(o)'
      BY <1>1, <3>2 DEF Awaited
    <3> QED
      BY <1>2, <2>1, <3>3, CardPlaces
  <2> QED
    BY <2>3, <2>4
<1> QED
  BY <1>2, <1>8, <1>9 DEF PlacesInv, Ops

\* ExecuteCharge and ExecuteLimitChange: the operation waits or is done.
LEMMA CardTaskPlaces ==
  ASSUME AllOK, OrderInv, PlacesInv, NEW c \in Cards, CardTask(c)
  PROVE  PlacesInv'
<1>0. PICK o, s, pre : /\ o = Head(mailbox[c]).op /\ s = Offer(Run(c, card[c].tasks), o)
                       /\ pre = Append(card[c].tasks, o)
  OBVIOUS
<1>1. /\ Head(mailbox[c]).type = "Task" /\ Range(pre) = Range(card[c].tasks) \cup {o}
      /\ \E n : Steps(c, s, pre, n)
  BY <1>0, TaskSteps
<1>2. PICK n : Steps(c, s, pre, n)
  BY <1>1
<1>3. UNCHANGED <<account, snapshots>>
  BY DEF CardTask, routerVars
<1> QED
  BY <1>0, <1>1, <1>2, <1>3, StepsPlaces

\* AccountChargeReply: it is dropped, or the queue runs.
LEMMA CardReplyActs ==
  ASSUME AllOK, NEW c \in Cards, CardReply(c), NEW m, m = Head(mailbox[c]),
         ~(card[c].tasks # <<>> /\ Head(card[c].tasks) = m.op)
  PROVE  /\ \E new : PassesTo(c, new, Router, Debug, "AccountChargeReply", "Debug")
         /\ UNCHANGED <<account, card>>
<1>k. PICK k : k = Debug
  OBVIOUS
<1>n. PICK new : new = To(Router, k)
  OBVIOUS
<1>1. /\ mailbox[c] # <<>> /\ Head(mailbox[c]).type = "AccountChargeReply" /\ c \in Actors
      /\ Deliver(c, new) /\ UNCHANGED <<sent, events, routerVars, account, card, results>>
  BY <1>k, <1>n, ActorsApart DEF CardReply, HasMail
<1>2. k \in Letter(Router) /\ k.type = "Debug"
  BY <1>k, ActorsApart, MakeMessages DEF Debug
<1>3. PassesTo(c, new, Router, k, Head(mailbox[c]).type, k.type)
  BY <1>1, <1>2, <1>n, PassesToIs
<1> QED
  BY <1>1, <1>2, <1>3, <1>k

\* The same step: every task is done or waits at the card.
LEMMA CardReplyPlaces ==
  ASSUME AllOK, OrderInv, PlacesInv, NEW c \in Cards, CardReply(c)
  PROVE  PlacesInv'
<1>0. PICK m, s : m = Head(mailbox[c]) /\ s = AfterReply(c, m)
  OBVIOUS
<1>1. CASE ~(card[c].tasks # <<>> /\ Head(card[c].tasks) = m.op)
  <2>1. PICK new : PassesTo(c, new, Router, Debug, "AccountChargeReply", "Debug")
    BY <1>0, <1>1, CardReplyActs
  <2>2. UNCHANGED <<account, card>>
    BY <1>0, <1>1, CardReplyActs
  <2>3. Pendings /\ TasksKept /\ Passes(c, new, {"AccountChargeReply"}, {"Debug"})
    BY <2>1, <2>2 DEF Pendings, TasksKept, PassesTo
  <2>4. ({"AccountChargeReply"} \cup {"Debug"}) \cap CarrierTypes = {}
    BY DEF CarrierTypes
  <2> QED
    BY <2>3, <2>4, PassesFrame
<1>2. CASE card[c].tasks # <<>> /\ Head(card[c].tasks) = m.op
  <2>1. m.type = "AccountChargeReply" /\ \E n \in Nat \ {0} : Steps(c, s, card[c].tasks, n)
    BY <1>0, <1>2, ReplySteps
  <2>2. PICK n : Steps(c, s, card[c].tasks, n)
    BY <2>1
  <2>3. UNCHANGED <<account, snapshots>>
    BY DEF CardReply, routerVars
  <2>4. Head(mailbox[c]).type \notin CarrierTypes
    BY <1>0, <2>1 DEF CarrierTypes
  <2> QED
    BY <2>2, <2>3, <2>4, StepsPlaces
<1> QED
  BY <1>1, <1>2

-----------------------------------------------------------------------------
(* Queries *)

\* QueryInv for a query o of account a.
Due(o, a) == {c \in Cards : ToReport(o, c) \/ InMail(a) \cap ReportOf(o, c) # {}}
ReportsOnce(o, a) ==
  \A c \in Cards :
    /\ AtMostOne(mailbox[c], QueryTo(o)) /\ AtMostOne(mailbox[a], ReportOf(o, c))
    /\ ~(ToReport(o, c) /\ InMail(a) \cap ReportOf(o, c) # {})
    /\ Precede(mailbox[a], StartOf(o), ReportOf(o, c))
QueryIs(o, a) ==
  /\ ReportsOnce(o, a)
  /\ \A m \in InMail(a) \cap StartOf(o) : m.num_cards = Cardinality(Due(o, a))
  /\ account[a].pending.op = o =>
       account[a].pending.remaining = Cardinality(Due(o, a)) /\ Due(o, a) # {}
  /\ Due(o, a) # {} => InMail(a) \cap StartOf(o) # {} \/ account[a].pending.op = o
\* QueryInv of a query of account a, through the cards whose reports are due.
LEMMA QueryParts ==
  ASSUME NEW o, NEW a, a = Op[o].account
  PROVE  QueryInv(o) <=> (IsQuery(o) => QueryIs(o, a))
<1>1. Reporting(o) = Due(o, a) /\ \A c : Reported(o, c) <=> InMail(a) \cap ReportOf(o, c) # {}
  BY DEF Reporting, Due, Reported
<1>2. PICK R : R = Due(o, a)
  OBVIOUS
<1> QED
  BY <1>1, <1>2 DEF QueryInv, QueryIs, ReportsOnce
\* The same after a step.
LEMMA QueryPartsNext ==
  ASSUME NEW o, NEW a, a = Op'[o].account
  PROVE  QueryInv(o)' <=> (IsQuery(o)' => QueryIs(o, a)')
<1>1. Reporting(o)' = Due(o, a)' /\ \A c : Reported(o, c)' <=> InMail(a)' \cap ReportOf(o, c) # {}
  BY DEF Reporting, Due, Reported, ReportOf
<1>2. PICK R : R = Due(o, a)'
  OBVIOUS
<1> QED
  BY <1>1, <1>2 DEF QueryInv, QueryIs, ReportsOnce, ReportOf

\* The messages about query o
QueryTypes == {"Start", "QueryCardState", "CardQueryReply"}
\* The messages about a query are told apart by their types, in every state.
LEMMA QueryMessages ==
  /\ \A o, m : m \in StartOf(o) => m.type = "Start" /\ m.op = o
  /\ \A o, m : m \in QueryTo(o) => m.type = "QueryCardState" /\ m.op = o
  /\ \A o, c, m : m \in ReportOf(o, c) => m.type = "CardQueryReply" /\ m.op = o /\ m.card = c
  /\ \A m \in AccountMsg : m.type = "Start" => m \in StartOf(m.op)
  /\ \A m \in AccountMsg : m.type = "CardQueryReply" => m \in ReportOf(m.op, m.card)
  /\ \A m \in CardMsg : m.type = "QueryCardState" => m \in QueryTo(m.op)
  /\ \A o, c : StartOf(o)' = StartOf(o) /\ QueryTo(o)' = QueryTo(o) /\ ReportOf(o, c)' = ReportOf(o, c)
<1>1. \A o, m : m \in StartOf(o) => m.type = "Start" /\ m.op = o
  BY DEF StartOf
<1>2. \A o, m : m \in QueryTo(o) => m.type = "QueryCardState" /\ m.op = o
  BY DEF QueryTo
<1>3. \A o, c, m : m \in ReportOf(o, c) => m.type = "CardQueryReply" /\ m.op = o /\ m.card = c
  BY DEF ReportOf
<1>4. \A m \in AccountMsg : m.type = "Start" => m \in StartOf(m.op)
  BY DEF StartOf
<1>5. \A m \in AccountMsg : m.type = "CardQueryReply" => m \in ReportOf(m.op, m.card)
  BY DEF ReportOf
<1>6. \A m \in CardMsg : m.type = "QueryCardState" => m \in QueryTo(m.op)
  <2> SUFFICES ASSUME NEW m \in CardMsg, m.type = "QueryCardState"
               PROVE  m = [type |-> "QueryCardState", op |-> m.op]
    BY DEF QueryTo
  <2>1. m \in [type : {"Task", "QueryCardState"}, op : Nat]
    BY DEF CardMsg, StateMsg
  <2> QED
    BY <2>1
<1>7. \A o, c : StartOf(o)' = StartOf(o) /\ QueryTo(o)' = QueryTo(o) /\ ReportOf(o, c)' = ReportOf(o, c)
  BY DEF StartOf, QueryTo, ReportOf
<1> QED
  BY <1>1, <1>2, <1>3, <1>4, <1>5, <1>6, <1>7

\* A step that says nothing of the reports on query o leaves them as they are.
LEMMA ReportsStay ==
  ASSUME AllOK, NEW x, NEW new, Sends(x, new), NEW o, NEW a \in Accounts, ReportsOnce(o, a),
         \A c \in Cards : /\ Head(mailbox[x]) \notin QueryTo(o) \cup ReportOf(o, c)
                          /\ \A y : Range(Added(new, y)) \cap (QueryTo(o) \cup ReportOf(o, c)) = {},
         \A y : Range(Added(new, y)) \cap StartOf(o) = {}
  PROVE  ReportsOnce(o, a)' /\ Due(o, a)' = Due(o, a)
<1>1. a \in Actors /\ \A c \in Cards : c \in Actors
  BY ActorsApart
<1>2. /\ \A c \in Cards : /\ InMail(c)' \cap QueryTo(o) = InMail(c) \cap QueryTo(o)
                          /\ AtMostOne(mailbox[c], QueryTo(o)) => AtMostOne(mailbox'[c], QueryTo(o))
      /\ \A c \in Cards : /\ InMail(a)' \cap ReportOf(o, c) = InMail(a) \cap ReportOf(o, c)
                          /\ AtMostOne(mailbox[a], ReportOf(o, c)) => AtMostOne(mailbox'[a], ReportOf(o, c))
  <2>1. ASSUME NEW c \in Cards
        PROVE  /\ InMail(c)' \cap QueryTo(o) = InMail(c) \cap QueryTo(o)
               /\ AtMostOne(mailbox[c], QueryTo(o)) => AtMostOne(mailbox'[c], QueryTo(o))
    <3>1. Range(Added(new, c)) \cap QueryTo(o) = {} /\ Head(mailbox[x]) \notin QueryTo(o)
      OBVIOUS
    <3> QED
      BY <1>1, <3>1, MailSame
  <2>2. ASSUME NEW c \in Cards
        PROVE  /\ InMail(a)' \cap ReportOf(o, c) = InMail(a) \cap ReportOf(o, c)
               /\ AtMostOne(mailbox[a], ReportOf(o, c)) => AtMostOne(mailbox'[a], ReportOf(o, c))
    <3>1. Range(Added(new, a)) \cap ReportOf(o, c) = {} /\ Head(mailbox[x]) \notin ReportOf(o, c)
      OBVIOUS
    <3> QED
      BY <1>1, <3>1, MailSame
  <2> QED
    BY <2>1, <2>2
<1>3. \A c \in Cards : Precede(mailbox'[a], StartOf(o), ReportOf(o, c))
  BY <1>1, PrecedeLemma DEF ReportsOnce
<1>4. \A c \in Cards : ToReport(o, c)' <=> ToReport(o, c)
  BY <1>2 DEF ToReport, QueryTo
<1>5. Due(o, a)' = Due(o, a)
  BY <1>2, <1>4, QueryMessages DEF Due
<1> QED
  BY <1>2, <1>3, <1>4, <1>5, QueryMessages DEF ReportsOnce

\* A step that says nothing of query o leaves the query as it is.
LEMMA QueryStays ==
  ASSUME AllOK, NEW x, NEW new, Sends(x, new), NEW o, NEW a \in Accounts, QueryIs(o, a),
         \A c \in Cards : /\ Head(mailbox[x]) \notin QueryTo(o) \cup ReportOf(o, c)
                          /\ \A y : Range(Added(new, y)) \cap (QueryTo(o) \cup ReportOf(o, c)) = {},
         Head(mailbox[x]) \notin StartOf(o), \A y : Range(Added(new, y)) \cap StartOf(o) = {},
         account'[a].pending.op = o <=> account[a].pending.op = o,
         account[a].pending.op = o => account'[a].pending.remaining = account[a].pending.remaining
  PROVE  QueryIs(o, a)'
<1>1. ReportsOnce(o, a)' /\ Due(o, a)' = Due(o, a)
  BY ReportsStay DEF QueryIs
<1>2. InMail(a)' \cap StartOf(o) = InMail(a) \cap StartOf(o)
  BY ActorsApart, MailSame
<1> QED
  BY <1>1, <1>2, QueryMessages DEF QueryIs

\* The account and the cards of every query are its own, after a step too.
LEMMA AddressStep ==
  ASSUME AllOK, sent' = sent, Grows, AddressInv, NEW x, NEW new, Sends(x, new),
         \A a \in Accounts : \/ account'[a].pending.op \in {0, account[a].pending.op}
                             \/ LET o == account'[a].pending.op
                                IN  o \in Executed /\ IsQuery(o) /\ Op[o].account = a,
         \A a \in Accounts : \A m \in Range(Added(new, a)) :
           m.type \in {"Start", "CardQueryReply"} => Op[m.op].account = a,
         \A c \in Cards : \A m \in Range(Added(new, c)) :
           m.type = "QueryCardState" => Op[m.op].account = Owner[c]
  PROVE  AddressInv'
<1>1. \A y \in Actors : InMail(y)' \subseteq InMail(y) \cup Range(Added(new, y))
  BY AllParts, DeliverLemma
<1>2. Op' = Op /\ (\A o : IsQuery(o)' = IsQuery(o)) /\ Executed \subseteq Executed'
  BY DEF Op, IsQuery, Grows
<1>3. ASSUME NEW a \in Accounts, NEW o, o = account'[a].pending.op, o # 0
      PROVE  o \in Executed' /\ Op'[o].kind \in {"AccountQuery", "Bill"} /\ Op'[o].account = a
  <2>1. o \in Executed /\ IsQuery(o) /\ Op[o].account = a
    BY <1>3 DEF AddressInv
  <2> QED
    BY <1>2, <2>1 DEF IsQuery
<1>4. \A a \in Accounts : \A m \in InMail(a)' : m.type \in {"Start", "CardQueryReply"} => Op'[m.op].account = a
  BY <1>1, <1>2, ActorsApart DEF AddressInv
<1>5. \A c \in Cards : \A m \in InMail(c)' : m.type = "QueryCardState" => Op'[m.op].account = Owner[c]
  BY <1>1, <1>2, ActorsApart DEF AddressInv
<1> QED
  BY <1>3, <1>4, <1>5 DEF AddressInv, IsQuery

\* A step about no query.
LEMMA QueriesFrame ==
  ASSUME AllOK, sent' = sent, Grows, QueriesInv, NEW x, NEW new, NEW heads, NEW types,
         Acts(x, new, heads, types), (heads \cup types) \cap QueryTypes = {}, Pendings
  PROVE  QueriesInv'
<1>1. /\ Sends(x, new) /\ Head(mailbox[x]).type \notin QueryTypes
      /\ \A y : \A m \in Range(Added(new, y)) : m.type \notin QueryTypes
  BY DEF Acts
<1>2. AddressInv'
  BY <1>1, AddressStep DEF QueriesInv, Pendings, QueryTypes
<1>3. ASSUME NEW o \in Ops PROVE QueryInv(o)'
  <2>1. PICK a : a = Op[o].account /\ a = Op'[o].account
    BY DEF Op
  <2>2. CASE ~IsQuery(o)
    <3>1. ~IsQuery(o)'
      BY <2>2 DEF IsQuery, Op
    <3> QED
      BY <2>1, <3>1, QueryPartsNext
  <2>3. CASE IsQuery(o)
    <3>1. a \in Accounts
      BY <2>1, <2>3, OperationType DEF AllOK, Ops, Op, IsQuery
    <3>2. QueryIs(o, a)
      BY <2>1, <2>3, QueryParts DEF QueriesInv
    <3>3. /\ \A c \in Cards : /\ Head(mailbox[x]) \notin QueryTo(o) \cup ReportOf(o, c)
                              /\ \A y : Range(Added(new, y)) \cap (QueryTo(o) \cup ReportOf(o, c)) = {}
          /\ Head(mailbox[x]) \notin StartOf(o) /\ \A y : Range(Added(new, y)) \cap StartOf(o) = {}
      BY <1>1, QueryMessages DEF QueryTypes
    <3>4. QueryIs(o, a)'
      BY <1>1, <3>1, <3>2, <3>3, QueryStays DEF Pendings
    <3> QED
      BY <2>1, <3>4, QueryPartsNext
  <2> QED
    BY <2>2, <2>3
<1> QED
  BY <1>2, <1>3 DEF QueriesInv, Ops

\* There is no query but o.
LEMMA QueriesOnly ==
  ASSUME Alone, sent' = sent, NEW o \in Ops, IsQuery(o), NEW a, a = Op[o].account,
         AddressInv', QueryIs(o, a)'
  PROVE  QueriesInv'
<1>1. Op' = Op /\ Ops' = Ops /\ \A p : IsQuery(p)' = IsQuery(p)
  BY DEF Op, Ops, IsQuery
<1>2. ASSUME NEW p \in Ops PROVE QueryInv(p)'
  <2>1. PICK b : b = Op'[p].account
    OBVIOUS
  <2>2. IsQuery(p)' => QueryIs(p, b)'
    <3>1. IsQuery(p) => p = o
      BY DEF Alone
    <3> QED
      BY <1>1, <2>1, <3>1
  <2> QED
    BY <2>1, <2>2, QueryPartsNext
<1> QED
  BY <1>1, <1>2 DEF QueriesInv

\* What a query is in a state.
LEMMA QueryNow ==
  ASSUME AllOK, QueriesInv, NEW o \in Ops, IsQuery(o), NEW a, a = Op[o].account
  PROVE  a \in Accounts /\ QueryIs(o, a)
<1>1. a \in Accounts
  BY OperationType DEF AllOK, Ops, Op, IsQuery
<1> QED
  BY <1>1, QueryParts DEF QueriesInv

\* ExecuteQuery: the account learns how many cards are asked.
LEMMA ExecuteQueryQueries ==
  ASSUME AllOK, Alone, Grows, PlacesInv, QueriesInv, NEW o, ExecuteQuery(o)
  PROVE  QueriesInv'
<1>0. PICK a, mine : a = Op[o].account /\ mine = {c \in cards : Owner[c] = a}
  OBVIOUS
<1>m. PICK m : m = [type |-> "Start", op |-> o, num_cards |-> Cardinality(mine)]
  OBVIOUS
<1>p. PICK new : AsksAll(new, o, a, mine, m)
  BY <1>0, <1>m, ExecuteQueryActs
<1>q. PICK q : q = [type |-> "QueryCardState", op |-> o]
  OBVIOUS
<1>1. /\ Sends(Router, new) /\ Head(mailbox[Router]).type = "Execute"
      /\ o \in Ops /\ IsQuery(o) /\ Head(mailbox[Router]).op = o /\ a \in Accounts /\ m \in AccountMsg
      /\ Range(Added(new, a)) = {m} /\ mine \subseteq Cards
      /\ \A y \in mine : Range(Added(new, y)) = {q} /\ \A M : AtMostOne(Added(new, y), M)
      /\ \A y : y # a /\ y \notin mine => Range(Added(new, y)) = {}
      /\ UNCHANGED <<sent, events, snapshots, account, card, results>>
  BY <1>p, <1>q DEF AsksAll, Acts
<1>2. QueryIs(o, a) /\ a \in Actors /\ a # Router /\ a \notin Cards /\ \A c \in Cards : c \in Actors /\ c # Router
  BY <1>0, <1>1, QueryNow, ActorsApart
<1>3. m.type = "Start" /\ m.op = o /\ m.num_cards = Cardinality(mine) /\ q.type = "QueryCardState" /\ q.op = o
  BY <1>m, <1>q
<1>4. Present(Carriers(o)) /\ ~Awaited(o) /\ ~OnCard(o) /\ Head(mailbox[Router]) \in Carriers(o)
  <2>1. ~OnCard(o) /\ "Execute" \in CarrierTypes
    BY <1>1 DEF IsQuery, OnCard, CarrierTypes
  <2> QED
    BY <1>1, <2>1, HeadCarries
<1>5. account[a].pending.op # o
  BY <1>1, <1>4 DEF Awaited
<1>6. InMail(a) \cap StartOf(o) = {}
  <2> SUFFICES ASSUME NEW k \in InMail(a), k \in StartOf(o) PROVE FALSE
    OBVIOUS
  <2>1. k \in Letter(a)
    BY <1>2, SeqLemma DEF AllOK, MailboxOK, InMail
  <2>2. k \in Carriers(o)
    BY <1>2, <2>1, Carrying, QueryMessages DEF CarrierTypes
  <2>3. InMail(Router) \cap Carriers(o) # {}
    BY <1>1, <1>4, MailOf, ActorsApart
  <2>4. Unique(Carriers(o))
    BY <1>1, <1>4, OnceParts DEF PlacesInv
  <2> QED
    BY <1>2, <2>2, <2>3, <2>4, ActorsApart DEF Unique
<1>7. Due(o, a) = {} /\ \A c \in Cards : InMail(a) \cap ReportOf(o, c) = {} /\ InMail(c) \cap QueryTo(o) = {}
  <2>1. Due(o, a) = {}
    BY <1>2, <1>5, <1>6 DEF QueryIs
  <2> QED
    BY <2>1 DEF Due, ToReport
<1>8. /\ \A y \in Actors : InMail(y)' \subseteq InMail(y) \cup Range(Added(new, y))
      /\ \A y \in Actors : Range(Added(new, y)) \subseteq InMail(y)'
  BY <1>1, AllParts, DeliverLemma
<1>9. InMail(a)' \cap StartOf(o) = {m}
  <2>1. m \in StartOf(o)
    BY <1>1, <1>3, QueryMessages
  <2> QED
    BY <1>1, <1>2, <1>6, <1>8, <2>1
<1>10. ASSUME NEW c \in Cards
       PROVE  /\ InMail(a)' \cap ReportOf(o, c) = {} /\ AtMostOne(mailbox'[a], ReportOf(o, c))
              /\ Precede(mailbox'[a], StartOf(o), ReportOf(o, c))
  <2>1. Range(Added(new, a)) \cap ReportOf(o, c) = {} /\ Head(mailbox[Router]) \notin ReportOf(o, c)
    BY <1>1, <1>3, QueryMessages
  <2>2. InMail(a)' \cap ReportOf(o, c) = {}
    BY <1>1, <1>2, <1>7, <2>1, MailSame
  <2>3. AtMostOne(mailbox'[a], ReportOf(o, c))
    BY <1>1, <1>2, <2>1, MailSame DEF QueryIs, ReportsOnce
  <2>4. Precede(mailbox'[a], StartOf(o), ReportOf(o, c))
    BY <1>1, <1>2, <1>7, <2>1, PrecedeLemma DEF QueryIs, ReportsOnce
  <2> QED
    BY <2>2, <2>3, <2>4
<1>11. ASSUME NEW c \in Cards
       PROVE  (InMail(c)' \cap QueryTo(o) # {} <=> c \in mine) /\ AtMostOne(mailbox'[c], QueryTo(o))
  <2>1. CASE c \in mine
    <3>1. q \in QueryTo(o) /\ q \in InMail(c)'
      BY <1>1, <1>2, <1>8, <2>1, <1>q DEF QueryTo
    <3>2. AtMostOne(mailbox'[c], QueryTo(o))
      BY <1>1, <1>2, <1>7, <2>1, AllParts, DeliverLemma DEF QueryIs, ReportsOnce
    <3> QED
      BY <2>1, <3>1, <3>2
  <2>2. CASE c \notin mine
    <3>1. Range(Added(new, c)) = {}
      BY <1>1, <1>2, <2>2
    <3>2. Range(Added(new, c)) \cap QueryTo(o) = {} /\ c # Router
      BY <1>2, <3>1
    <3> QED
      BY <1>1, <1>2, <1>7, <2>2, <3>2, MailSame DEF QueryIs, ReportsOnce
  <2> QED
    BY <2>1, <2>2
<1>12. Due(o, a)' = mine
  BY <1>1, <1>10, <1>11, QueryMessages DEF Due, ToReport
<1>13. QueryIs(o, a)'
  <2>1. \A k \in InMail(a)' \cap StartOf(o) : k.num_cards = Cardinality(Due(o, a)')
    BY <1>3, <1>9, <1>12
  <2>2. \A c \in Cards : ~ToReport(o, c)' \/ InMail(a)' \cap ReportOf(o, c) = {}
    BY <1>10
  <2>3. account'[a].pending.op # o
    BY <1>1, <1>5
  <2> QED
    BY <1>9, <1>10, <1>11, <2>1, <2>2, <2>3, QueryMessages DEF QueryIs, ReportsOnce
<1>14. AddressInv'
  <2>1. \A b \in Accounts : \A k \in Range(Added(new, b)) : Op[k.op].account = b
    BY <1>0, <1>1, <1>3, ActorsApart
  <2>2. \A c \in Cards : \A k \in Range(Added(new, c)) : Op[k.op].account = Owner[c]
    BY <1>0, <1>1, <1>2, <1>3
  <2> QED
    BY <1>1, <2>1, <2>2, AddressStep DEF QueriesInv
<1> QED
  BY <1>0, <1>1, <1>13, <1>14, QueriesOnly

\* The cards that are to report on a query are finitely many.
LEMMA DueFinite ==
  ASSUME NEW o, NEW a
  PROVE  /\ IsFiniteSet(Due(o, a)) /\ Cardinality(Due(o, a)) \in Nat
         /\ Cardinality(Due(o, a)) = 0 <=> Due(o, a) = {}
         /\ \A c \in Due(o, a) : /\ IsFiniteSet(Due(o, a) \ {c})
                                 /\ Cardinality(Due(o, a) \ {c}) = Cardinality(Due(o, a)) - 1
<1>1. IsFiniteSet(Due(o, a))
  BY ActorsAssumption, FS_Subset DEF Due
<1>2. Cardinality(Due(o, a)) \in Nat /\ (Cardinality(Due(o, a)) = 0 <=> Due(o, a) = {})
  BY <1>1, FS_CardinalityType, FS_EmptySet
<1> QED
  BY <1>1, <1>2, FS_RemoveElement

\* StartAccountQuery and StartAccountBill: the account waits for the reports to come.
LEMMA AccountStartQueries ==
  ASSUME AllOK, Alone, Grows, PlacesInv, QueriesInv, NEW a \in Accounts, AccountStart(a)
  PROVE  QueriesInv'
<1>0. PICK m, o : m = Head(mailbox[a]) /\ o = m.op
  OBVIOUS
<1>1. /\ o \in Executed /\ o \in Ops /\ IsQuery(o) /\ m \in InMail(a) /\ m \in AccountMsg
      /\ m.type = "Start" /\ m.num_cards \in Nat /\ card' = card
      /\ \/ m.num_cards = 0 /\ StartAnswers(a, o)
         \/ m.num_cards # 0 /\ StartWaits(a, o, m.num_cards)
  BY <1>0, AccountStartActs
<1>2. a = Op[o].account
  BY <1>0, <1>1 DEF QueriesInv, AddressInv
<1>3. QueryIs(o, a) /\ a \in Actors /\ a # Router
  BY <1>1, <1>2, QueryNow, ActorsApart
<1>4. m \in StartOf(o) /\ m.num_cards = Cardinality(Due(o, a))
  <2>1. m \in StartOf(o)
    BY <1>0, <1>1, QueryMessages
  <2> QED
    BY <1>1, <1>3, <2>1 DEF QueryIs
<1>5. ~OnCard(o) /\ "Start" \in CarrierTypes
  BY <1>1 DEF IsQuery, OnCard, CarrierTypes
<1>6. ASSUME NEW new, Sends(a, new), \A y : \A k \in Range(Added(new, y)) : k.type \notin QueryTypes
      PROVE  /\ ReportsOnce(o, a)' /\ Due(o, a)' = Due(o, a) /\ InMail(a)' \cap StartOf(o) = {}
             /\ ~Awaited(o)
  <2>1. /\ \A y : Range(Added(new, y)) \cap StartOf(o) = {}
        /\ \A c \in Cards : /\ Head(mailbox[a]) \notin QueryTo(o) \cup ReportOf(o, c)
                            /\ \A y : Range(Added(new, y)) \cap (QueryTo(o) \cup ReportOf(o, c)) = {}
    BY <1>0, <1>1, <1>6, QueryMessages DEF QueryTypes
  <2>2. ReportsOnce(o, a)' /\ Due(o, a)' = Due(o, a)
    BY <1>3, <1>6, <2>1, ReportsStay DEF QueryIs
  <2>3. ~Awaited(o) /\ Unique(Carriers(o))
    BY <1>0, <1>1, <1>5, <1>6, HeadCarries, OnceParts DEF PlacesInv
  <2>4. AtMostOne(mailbox[a], StartOf(o))
    <3>1. \A k \in InMail(a) : k \in StartOf(o) => k \in Carriers(o)
      <4>1. \A k \in InMail(a) : k \in Letter(a)
        BY <1>3, SeqLemma DEF AllOK, MailboxOK, InMail
      <4> QED
        BY <1>3, <1>5, <4>1, Carrying, QueryMessages
    <3>2. \A i \in DOMAIN mailbox[a] : mailbox[a][i] \in StartOf(o) => mailbox[a][i] \in Carriers(o)
      BY <3>1 DEF InMail, Range
    <3> QED
      BY <1>3, <2>3, <3>2 DEF Unique, AtMostOne
  <2>5. InMail(a)' \cap StartOf(o) = {}
    BY <1>0, <1>3, <1>4, <1>6, <2>1, <2>4, MailOf
  <2> QED
    BY <2>2, <2>3, <2>5
<1>7. CASE m.num_cards = 0 /\ StartAnswers(a, o)
  <2>1. PICK new, k : PassesTo(a, new, Router, k, "Start", "AccountQueryCompleted") /\ k.op = o
    BY <1>7 DEF StartAnswers
  <2>2. Sends(a, new) /\ sent' = sent /\ Pendings /\ \A y : \A n \in Range(Added(new, y)) : n.type \notin QueryTypes
    BY <1>7, <2>1 DEF StartAnswers, PassesTo, SendsTo, Passes, QueryTypes
  <2>3. /\ ReportsOnce(o, a)' /\ Due(o, a)' = Due(o, a) /\ InMail(a)' \cap StartOf(o) = {} /\ ~Awaited(o)
    BY <1>6, <2>2
  <2>4. Due(o, a) = {} /\ account'[a].pending.op # o
    BY <1>4, <1>7, <2>2, <2>3, DueFinite DEF Pendings, Awaited
  <2>5. QueryIs(o, a)'
    BY <2>3, <2>4, QueryMessages DEF QueryIs
  <2>6. AddressInv'
    BY <2>2, AddressStep DEF QueriesInv, Pendings, QueryTypes
  <2> QED
    BY <1>1, <1>2, <2>2, <2>5, <2>6, QueriesOnly
<1>8. CASE m.num_cards # 0 /\ StartWaits(a, o, m.num_cards)
  <2>1. PICK p : PendingIs(a, p) /\ p.op = o /\ p.remaining = m.num_cards
    BY <1>8 DEF StartWaits
  <2>2. Sends(a, Nothing) /\ sent' = sent /\ \A y : Range(Added(Nothing, y)) = {}
    BY <1>8 DEF StartWaits, Passes, Acts
  <2>3. /\ ReportsOnce(o, a)' /\ Due(o, a)' = Due(o, a) /\ InMail(a)' \cap StartOf(o) = {}
    BY <1>6, <2>2
  <2>4. Due(o, a) # {} /\ account'[a].pending.op = o /\ account'[a].pending.remaining = Cardinality(Due(o, a))
    BY <1>4, <1>8, <2>1, DueFinite DEF PendingIs
  <2>5. QueryIs(o, a)'
    BY <2>3, <2>4, QueryMessages DEF QueryIs
  <2>6. AddressInv'
    <3>1. \A b \in Accounts : \/ account'[b].pending.op \in {0, account[b].pending.op}
                              \/ LET r == account'[b].pending.op
                                 IN  r \in Executed /\ IsQuery(r) /\ Op[r].account = b
      BY <1>1, <1>2, <2>1 DEF PendingIs
    <3> QED
      BY <2>2, <3>1, AddressStep DEF QueriesInv
  <2> QED
    BY <1>1, <1>2, <2>2, <2>5, <2>6, QueriesOnly
<1> QED
  BY <1>1, <1>7, <1>8

\* CardQueryReply: the account waits for it, and for one report less then.
LEMMA AccountQueryReplyQueries ==
  ASSUME AllOK, Alone, Grows, QueriesInv, NEW a \in Accounts, AccountQueryReply(a)
  PROVE  QueriesInv' /\ ~ReplyDropped(a, Head(mailbox[a]).op)
<1>0. PICK m, o, c : m = Head(mailbox[a]) /\ o = m.op /\ c = m.card
  OBVIOUS
<1>1. /\ o \in Executed /\ o \in Ops /\ IsQuery(o) /\ m \in InMail(a) /\ m \in AccountMsg
      /\ m.type = "CardQueryReply" /\ c \in Cards /\ card' = card
      /\ ReplyDropped(a, o) \/ ReplyCounted(a, o) \/ ReplyLast(a, o)
  BY <1>0, AccountQueryReplyActs
<1>2. a = Op[o].account
  BY <1>0, <1>1 DEF QueriesInv, AddressInv
<1>3. QueryIs(o, a) /\ a \in Actors /\ (\A d \in Cards : d \in Actors /\ d # a) /\ o # 0
  BY <1>1, <1>2, QueryNow, ActorsApart DEF Ops
<1>4. /\ m \in ReportOf(o, c) /\ c \in Due(o, a) /\ ~ToReport(o, c)
      /\ \A d \in Cards : d # c => m \notin ReportOf(o, d)
  <2>1. m \in ReportOf(o, c) /\ \A d \in Cards : d # c => m \notin ReportOf(o, d)
    BY <1>0, <1>1, QueryMessages
  <2> QED
    BY <1>1, <1>3, <2>1 DEF Due, QueryIs, ReportsOnce
<1>5. InMail(a) \cap StartOf(o) = {}
  <2> SUFFICES ASSUME NEW i \in DOMAIN mailbox[a], mailbox[a][i] \in StartOf(o) PROVE FALSE
    BY DEF InMail, Range
  <2>1. mailbox[a] \in Seq(Letter(a)) /\ mailbox[a] # <<>>
    BY <1>3, FewLemma DEF AllOK, MailboxOK, AccountQueryReply, HasMail
  <2>2. m = mailbox[a][1] /\ 1 \in DOMAIN mailbox[a] /\ DOMAIN mailbox[a] = 1..Len(mailbox[a])
    BY <1>0, <2>1, SeqLemma
  <2>3. i < 1
    BY <1>1, <1>3, <1>4, <2>2 DEF QueryIs, ReportsOnce, Precede
  <2> QED
    BY <2>2, <2>3
<1>6. account[a].pending.op = o /\ account[a].pending.remaining = Cardinality(Due(o, a))
  BY <1>3, <1>4, <1>5 DEF QueryIs
<1>7. ASSUME NEW new, Sends(a, new), \A y : \A k \in Range(Added(new, y)) : k.type \notin QueryTypes
      PROVE  /\ ReportsOnce(o, a)' /\ Due(o, a)' = Due(o, a) \ {c} /\ InMail(a)' \cap StartOf(o) = {}
  <2>1. /\ \A y : Range(Added(new, y)) \cap StartOf(o) = {}
        /\ \A d \in Cards : /\ m \notin QueryTo(o)
                            /\ \A y : Range(Added(new, y)) \cap QueryTo(o) = {}
                            /\ \A y : Range(Added(new, y)) \cap ReportOf(o, d) = {}
    BY <1>0, <1>1, <1>7, QueryMessages DEF QueryTypes
  <2>2. ASSUME NEW d \in Cards
        PROVE  /\ InMail(d)' \cap QueryTo(o) = InMail(d) \cap QueryTo(o) /\ AtMostOne(mailbox'[d], QueryTo(o))
               /\ AtMostOne(mailbox'[a], ReportOf(o, d)) /\ Precede(mailbox'[a], StartOf(o), ReportOf(o, d))
    <3>1. Range(Added(new, d)) \cap QueryTo(o) = {} /\ Range(Added(new, a)) \cap ReportOf(o, d) = {}
          /\ Range(Added(new, a)) \cap StartOf(o) = {}
      BY <2>1
    <3>2. InMail(d)' \cap QueryTo(o) = InMail(d) \cap QueryTo(o) /\ AtMostOne(mailbox'[d], QueryTo(o))
      BY <1>0, <1>3, <1>7, <2>1, <3>1, MailSame DEF QueryIs, ReportsOnce
    <3>3. AtMostOne(mailbox'[a], ReportOf(o, d))
      BY <1>3, <1>7, <3>1, NoneNewLemma DEF NoneNew, QueryIs, ReportsOnce
    <3>4. Precede(mailbox'[a], StartOf(o), ReportOf(o, d))
      BY <1>3, <1>7, <3>1, PrecedeLemma DEF QueryIs, ReportsOnce
    <3> QED
      BY <3>2, <3>3, <3>4
  <2>3. InMail(a)' \cap ReportOf(o, c) = {}
    BY <1>0, <1>1, <1>3, <1>4, <1>7, <2>1, MailOf DEF QueryIs, ReportsOnce
  <2>4. \A d \in Cards : d # c => InMail(a)' \cap ReportOf(o, d) = InMail(a) \cap ReportOf(o, d)
    <3> SUFFICES ASSUME NEW d \in Cards, d # c
                 PROVE  InMail(a)' \cap ReportOf(o, d) = InMail(a) \cap ReportOf(o, d)
      OBVIOUS
    <3>1. Range(Added(new, a)) \cap ReportOf(o, d) = {} /\ Head(mailbox[a]) \notin ReportOf(o, d)
      BY <1>0, <1>4, <2>1
    <3> QED
      BY <1>3, <1>7, <3>1, MailSame
  <2>5. \A d \in Cards : ToReport(o, d)' <=> ToReport(o, d)
    BY <2>2 DEF ToReport, QueryTo
  <2>6. Due(o, a)' = Due(o, a) \ {c}
    BY <1>4, <2>3, <2>4, <2>5, QueryMessages DEF Due
  <2>7. InMail(a)' \cap StartOf(o) = {}
    <3>1. Range(Added(new, a)) \cap StartOf(o) = {} /\ Head(mailbox[a]) \notin StartOf(o)
      BY <1>0, <1>1, <2>1, QueryMessages
    <3> QED
      BY <1>3, <1>5, <1>7, <3>1, MailSame
  <2>8. ReportsOnce(o, a)'
    <3>1. \A d \in Cards : ~(ToReport(o, d)' /\ InMail(a)' \cap ReportOf(o, d) # {})
      BY <1>3, <1>4, <2>3, <2>4, <2>5 DEF QueryIs, ReportsOnce
    <3> QED
      BY <2>2, <3>1, QueryMessages DEF ReportsOnce
  <2> QED
    BY <2>6, <2>7, <2>8
<1>8. ~ReplyDropped(a, o)
  BY <1>6 DEF ReplyDropped
<1>9. CASE ReplyCounted(a, o)
  <2>1. PICK p : PendingIs(a, p) /\ p.op = o /\ p.remaining = account[a].pending.remaining - 1
    BY <1>9 DEF ReplyCounted
  <2>2. Sends(a, Nothing) /\ sent' = sent /\ (\A y : Range(Added(Nothing, y)) = {})
        /\ account[a].pending.remaining > 1
    BY <1>9 DEF ReplyCounted, Passes, Acts
  <2>3. ReportsOnce(o, a)' /\ Due(o, a)' = Due(o, a) \ {c} /\ InMail(a)' \cap StartOf(o) = {}
    BY <1>7, <2>2
  <2>4. /\ account'[a].pending.op = o /\ account'[a].pending.remaining = Cardinality(Due(o, a) \ {c})
        /\ Due(o, a) \ {c} # {}
    <3>1. Cardinality(Due(o, a) \ {c}) = Cardinality(Due(o, a)) - 1 /\ Cardinality(Due(o, a)) \in Nat
      BY <1>4, DueFinite
    <3>2. Cardinality(Due(o, a) \ {c}) # 0
      BY <1>6, <2>2, <3>1
    <3> QED
      BY <1>6, <2>1, <3>1, <3>2, FS_EmptySet DEF PendingIs
  <2>5. QueryIs(o, a)'
    BY <2>3, <2>4, QueryMessages DEF QueryIs
  <2>6. AddressInv'
    <3>1. \A b \in Accounts : account'[b].pending.op \in {0, account[b].pending.op}
      BY <1>6, <2>1 DEF PendingIs
    <3> QED
      BY <2>2, <3>1, AddressStep DEF QueriesInv
  <2> QED
    BY <1>0, <1>1, <1>2, <1>8, <2>2, <2>5, <2>6, QueriesOnly
<1>10. CASE ReplyLast(a, o)
  <2>1. PICK new, k : PassesTo(a, new, Router, k, "CardQueryReply", "AccountQueryCompleted") /\ k.op = o
    BY <1>10 DEF ReplyLast
  <2>2. Sends(a, new) /\ sent' = sent /\ \A y : \A n \in Range(Added(new, y)) : n.type \notin QueryTypes
    BY <2>1 DEF PassesTo, SendsTo, Passes, QueryTypes
  <2>3. ReportsOnce(o, a)' /\ Due(o, a)' = Due(o, a) \ {c} /\ InMail(a)' \cap StartOf(o) = {}
    BY <1>7, <2>2
  <2>4. PendingIs(a, NoQuery) /\ NoQuery.op = 0 /\ account[a].pending.remaining <= 1
    BY <1>10 DEF ReplyLast, NoQuery
  <2>5. Due(o, a) \ {c} = {}
    <3>1. /\ Cardinality(Due(o, a) \ {c}) = Cardinality(Due(o, a)) - 1 /\ Cardinality(Due(o, a)) \in Nat
          /\ IsFiniteSet(Due(o, a) \ {c})
      BY <1>4, DueFinite
    <3>2. Cardinality(Due(o, a) \ {c}) \in Nat
      BY <3>1, FS_CardinalityType
    <3>3. Cardinality(Due(o, a) \ {c}) = 0
      BY <1>6, <2>4, <3>1, <3>2
    <3> QED
      BY <3>1, <3>3, FS_EmptySet
  <2>6. QueryIs(o, a)'
    BY <1>3, <2>3, <2>4, <2>5, QueryMessages DEF QueryIs, PendingIs
  <2>7. AddressInv'
    <3>1. \A b \in Accounts : account'[b].pending.op \in {0, account[b].pending.op}
      BY <2>4 DEF PendingIs
    <3> QED
      BY <2>2, <3>1, AddressStep DEF QueriesInv, QueryTypes
  <2> QED
    BY <1>0, <1>1, <1>2, <1>8, <2>2, <2>6, <2>7, QueriesOnly
<1> QED
  BY <1>0, <1>1, <1>8, <1>9, <1>10

\* QueryCardState: the card no longer has to report, its report is on its way.
LEMMA CardQueryQueries ==
  ASSUME AllOK, Alone, Grows, QueriesInv, NEW c \in Cards, CardQuery(c)
  PROVE  QueriesInv'
<1>0. PICK h, o, a : h = Head(mailbox[c]) /\ o = h.op /\ a = Owner[c]
  OBVIOUS
<1>1. account' = account
  BY <1>0, CardQueryActs
<1>2. PICK new, m : PassesTo(c, new, a, m, "QueryCardState", "CardQueryReply") /\ m.op = o /\ m.card = c
  BY <1>0, CardQueryActs
<1>3. /\ Sends(c, new) /\ sent' = sent /\ h.type = "QueryCardState" /\ m \in Letter(a)
      /\ m.type = "CardQueryReply"
      /\ Range(Added(new, a)) = {m} /\ \A z : z # a => Range(Added(new, z)) = {}
      /\ \A M : AtMostOne(Added(new, a), M)
  BY <1>0, <1>2 DEF PassesTo, SendsTo, Passes
<1>4. /\ a \in Accounts /\ a \in Actors /\ Letter(a) = AccountMsg /\ c \in Actors
      /\ \A d \in Cards : d \in Actors /\ d # a
  BY <1>0, ActorsApart
<1>5. h \in InMail(c) /\ h \in CardMsg /\ o \in Ops /\ IsQuery(o) /\ a = Op[o].account
  <2>1. h \in InMail(c) /\ h \in CardMsg /\ CardMail(c, h) /\ Executed \subseteq Ops
    BY <1>0, <1>3, HeadLemma, ActorsApart, GrowsLemma DEF Good, Sends
  <2> QED
    BY <1>0, <1>3, <2>1 DEF CardMail, QueriesInv, AddressInv
<1>6. QueryIs(o, a)
  BY <1>5, QueryNow
<1>7. h \in QueryTo(o) /\ ToReport(o, c) /\ InMail(a) \cap ReportOf(o, c) = {} /\ m \in ReportOf(o, c)
  <2>1. h \in QueryTo(o) /\ m \in ReportOf(o, c)
    BY <1>0, <1>2, <1>3, <1>4, <1>5, QueryMessages
  <2>2. ToReport(o, c)
    BY <1>5, <2>1 DEF ToReport
  <2> QED
    BY <1>6, <2>1, <2>2 DEF QueryIs, ReportsOnce
<1>8. /\ InMail(c)' \cap QueryTo(o) = {}
      /\ \A d \in Cards : d # c => InMail(d)' \cap QueryTo(o) = InMail(d) \cap QueryTo(o)
      /\ \A d \in Cards : AtMostOne(mailbox'[d], QueryTo(o))
  <2>1. \A d \in Cards : Range(Added(new, d)) \cap QueryTo(o) = {}
    BY <1>3, <1>4
  <2>2. InMail(c)' \cap QueryTo(o) = {}
    BY <1>0, <1>3, <1>4, <1>6, <1>7, <2>1, MailOf DEF QueryIs, ReportsOnce
  <2>3. \A d \in Cards : d # c => InMail(d)' \cap QueryTo(o) = InMail(d) \cap QueryTo(o)
    BY <1>3, <1>4, <2>1, MailSame
  <2>4. \A d \in Cards : AtMostOne(mailbox'[d], QueryTo(o))
    BY <1>3, <1>4, <1>6, <2>1, NoneNewLemma DEF NoneNew, QueryIs, ReportsOnce
  <2> QED
    BY <2>2, <2>3, <2>4
<1>9. /\ InMail(a)' \cap ReportOf(o, c) # {}
      /\ \A d \in Cards : d # c => InMail(a)' \cap ReportOf(o, d) = InMail(a) \cap ReportOf(o, d)
      /\ \A d \in Cards : AtMostOne(mailbox'[a], ReportOf(o, d))
      /\ \A d \in Cards : Precede(mailbox'[a], StartOf(o), ReportOf(o, d))
      /\ InMail(a)' \cap StartOf(o) = InMail(a) \cap StartOf(o)
  <2>1. Range(Added(new, a)) \cap StartOf(o) = {} /\ c # a
        /\ \A d \in Cards : d # c => Range(Added(new, a)) \cap ReportOf(o, d) = {}
    BY <1>2, <1>3, <1>4, QueryMessages
  <2>2. InMail(a)' \cap ReportOf(o, c) # {}
    <3>1. Range(Added(new, a)) \cap ReportOf(o, c) # {}
      BY <1>3, <1>7
    <3> QED
      BY <1>3, <1>4, <3>1, MailOf
  <2>3. \A d \in Cards : d # c => /\ InMail(a)' \cap ReportOf(o, d) = InMail(a) \cap ReportOf(o, d)
                                  /\ AtMostOne(mailbox'[a], ReportOf(o, d))
    <3> SUFFICES ASSUME NEW d \in Cards, d # c
                 PROVE  /\ InMail(a)' \cap ReportOf(o, d) = InMail(a) \cap ReportOf(o, d)
                        /\ AtMostOne(mailbox'[a], ReportOf(o, d))
      OBVIOUS
    <3>1. Range(Added(new, a)) \cap ReportOf(o, d) = {} /\ a # c
      BY <2>1
    <3>2. AtMostOne(mailbox[a], ReportOf(o, d))
      BY <1>6 DEF QueryIs, ReportsOnce
    <3> QED
      BY <1>3, <1>4, <3>1, <3>2, MailSame
  <2>4. AtMostOne(mailbox'[a], ReportOf(o, c))
    BY <1>3, <1>4, <1>6, <1>7, AllParts, DeliverLemma DEF QueryIs, ReportsOnce
  <2>5. \A d \in Cards : Precede(mailbox'[a], StartOf(o), ReportOf(o, d))
    BY <1>3, <1>4, <1>6, <2>1, PrecedeLemma DEF QueryIs, ReportsOnce
  <2>6. InMail(a)' \cap StartOf(o) = InMail(a) \cap StartOf(o)
    BY <1>3, <1>4, <2>1, MailSame
  <2> QED
    BY <2>2, <2>3, <2>4, <2>5, <2>6
<1>10. /\ ~ToReport(o, c)' /\ \A d \in Cards : d # c => (ToReport(o, d)' <=> ToReport(o, d))
  BY <1>8 DEF ToReport, QueryTo
<1>11. Due(o, a)' = Due(o, a)
  BY <1>7, <1>9, <1>10, QueryMessages DEF Due
<1>12. ReportsOnce(o, a)'
  <2>1. \A d \in Cards : ~(ToReport(o, d)' /\ InMail(a)' \cap ReportOf(o, d) # {})
    BY <1>6, <1>9, <1>10 DEF QueryIs, ReportsOnce
  <2> QED
    BY <1>8, <1>9, <2>1, QueryMessages DEF ReportsOnce
<1>13. QueryIs(o, a)'
  BY <1>1, <1>6, <1>9, <1>11, <1>12, QueryMessages DEF QueryIs
<1>14. AddressInv'
  <2>1. \A b \in Accounts : \A k \in Range(Added(new, b)) : Op[k.op].account = b
    BY <1>2, <1>3, <1>5
  <2>2. \A d \in Cards : Range(Added(new, d)) = {}
    BY <1>3, <1>4
  <2> QED
    BY <1>1, <1>3, <2>1, <2>2, AddressStep DEF QueriesInv
<1> QED
  BY <1>3, <1>5, <1>13, <1>14, QueriesOnly

\* Database::send changes the mailbox of the router only.
LEMMA SendParts ==
  ASSUME AllOK, Send
  PROVE  /\ \A y \in Actors : y # Router => mailbox'[y] = mailbox[y]
         /\ \E e \in RouterMsg : e.type = "Execute" /\ mailbox'[Router] = Append(mailbox[Router], e)
         /\ UNCHANGED <<events, routerVars, account, card, results>>
         /\ \E n : n \notin Ops /\ n # 0 /\ Ops' = Ops \cup {n}
<1>0. PICK n, e : n = Len(sent) + 1 /\ e = [type |-> "Execute", op |-> n]
  OBVIOUS
<1>1. /\ mailbox' = [mailbox EXCEPT ![Router] = Append(mailbox[Router], e)]
      /\ UNCHANGED <<events, routerVars, account, card, results>>
  BY <1>0 DEF Send
<1>2. Len(sent) \in Nat /\ Ops = 1..Len(sent) /\ n \in Nat /\ n \notin Ops /\ n # 0
  BY <1>0, SeqLemma DEF AllOK, Ops
<1>3. Ops' = Ops \cup {n}
  <2>1. PICK op : sent' = Append(sent, op)
    BY DEF Send
  <2>2. Len(sent') = Len(sent) + 1
    BY <2>1 DEF AllOK
  <2> QED
    BY <1>0, <1>2, <2>2 DEF Ops
<1>4. e \in RouterMsg /\ e.type = "Execute"
  BY <1>0, <1>2, MakeMessages
<1>5. DOMAIN mailbox = Actors /\ Router \in Actors
  BY ActorsApart DEF AllOK, MailboxOK
<1> QED
  BY <1>1, <1>2, <1>3, <1>4, <1>5

\* An unknown operation is no query of anyone.
LEMMA QueryUnknown ==
  ASSUME AllOK, AddressInv, NEW o, o \notin Ops, o # 0, NEW a \in Accounts
  PROVE  /\ Due(o, a) = {} /\ InMail(a) \cap StartOf(o) = {} /\ account[a].pending.op # o
         /\ ReportsOnce(o, a)
<1>1. o \notin Executed
  BY DEF AllOK, RouterOK, Executed
<1>2. \A m \in InMail(a) : m.type \in {"Start", "CardQueryReply"} => m.op # o
  <2>1. \A m \in InMail(a) : AccountMail(a, m)
    BY ActorsApart DEF AllOK, MailboxOK, Good
  <2> QED
    BY <1>1, <2>1 DEF AccountMail
<1>3. \A c \in Cards : \A m \in InMail(c) : m.type = "QueryCardState" => m.op # o
  <2>1. \A c \in Cards : \A m \in InMail(c) : CardMail(c, m)
    BY ActorsApart DEF AllOK, MailboxOK, Good
  <2> QED
    BY <1>1, <2>1 DEF CardMail
<1>4. /\ InMail(a) \cap StartOf(o) = {} /\ \A c \in Cards : InMail(a) \cap ReportOf(o, c) = {}
      /\ \A c \in Cards : InMail(c) \cap QueryTo(o) = {}
  BY <1>2, <1>3, QueryMessages
<1>5. account[a].pending.op # o
  BY <1>1 DEF AddressInv
<1>6. Due(o, a) = {}
  BY <1>4 DEF Due, ToReport
<1>7. /\ \A c \in Cards : \A i \in DOMAIN mailbox[a] : mailbox[a][i] \notin ReportOf(o, c)
      /\ \A c \in Cards : \A i \in DOMAIN mailbox[c] : mailbox[c][i] \notin QueryTo(o)
  BY <1>4 DEF InMail, Range
<1>8. ReportsOnce(o, a)
  BY <1>4, <1>7 DEF ReportsOnce, ToReport, AtMostOne, Precede
<1> QED
  BY <1>4, <1>5, <1>6, <1>8

\* A step that leaves the accounts, their mailboxes and those of the cards alone.
LEMMA QuerySame ==
  ASSUME \A y \in Accounts \cup Cards : mailbox'[y] = mailbox[y], account' = account
  PROVE  /\ \A o : \A a \in Accounts : QueryIs(o, a)' <=> QueryIs(o, a)
         /\ Grows /\ AllOK /\ AddressInv => AddressInv'
<1>1. \A y \in Accounts \cup Cards : InMail(y)' = InMail(y)
  BY DEF InMail
<1>2. ASSUME NEW o, NEW a \in Accounts PROVE QueryIs(o, a)' <=> QueryIs(o, a)
  <2>1. \A c \in Cards : ToReport(o, c)' <=> ToReport(o, c)
    BY <1>1 DEF ToReport, QueryTo
  <2>2. Due(o, a)' = Due(o, a)
    BY <1>1, <2>1, QueryMessages DEF Due
  <2>3. ReportsOnce(o, a)' <=> ReportsOnce(o, a)
    BY <1>1, <2>1, QueryMessages DEF ReportsOnce
  <2> QED
    BY <1>1, <2>2, <2>3, QueryMessages DEF QueryIs
<1>3. ASSUME Grows, AllOK, AddressInv PROVE AddressInv'
  <2>1. Executed \subseteq Ops /\ Executed \subseteq Executed' /\ \A o \in Ops : Op'[o] = Op[o]
    BY <1>3, GrowsLemma DEF Grows
  <2>2. ASSUME NEW a \in Accounts, NEW o, o = account'[a].pending.op, o # 0
        PROVE  o \in Executed' /\ Op'[o].kind \in {"AccountQuery", "Bill"} /\ Op'[o].account = a
    <3>1. o \in Executed /\ IsQuery(o) /\ Op[o].account = a
      BY <1>3, <2>2 DEF AddressInv
    <3> QED
      BY <2>1, <3>1 DEF IsQuery
  <2>3. ASSUME NEW a \in Accounts, NEW m \in InMail(a), m.type \in {"Start", "CardQueryReply"}
        PROVE  Op'[m.op].account = a
    <3>1. m.op \in Executed
      <4>1. AccountMail(a, m)
        BY <1>3, ActorsApart DEF AllOK, MailboxOK, Good
      <4> QED
        BY <2>3, <4>1 DEF AccountMail
    <3> QED
      BY <1>3, <2>1, <2>3, <3>1 DEF AddressInv
  <2>4. ASSUME NEW c \in Cards, NEW m \in InMail(c), m.type = "QueryCardState"
        PROVE  Op'[m.op].account = Owner[c]
    <3>1. m.op \in Executed
      <4>1. CardMail(c, m)
        BY <1>3, ActorsApart DEF AllOK, MailboxOK, Good
      <4> QED
        BY <2>4, <4>1 DEF CardMail
    <3> QED
      BY <1>3, <2>1, <2>4, <3>1 DEF AddressInv
  <2> QED
    BY <1>1, <2>2, <2>3, <2>4 DEF AddressInv, IsQuery
<1> QED
  BY <1>2, <1>3

\* Database::send: nobody knows of a new query yet.
LEMMA SendQueries ==
  ASSUME AllOK, AllOK', Grows, QueriesInv, Send
  PROVE  QueriesInv'
<1>1. /\ \A y \in Accounts \cup Cards : mailbox'[y] = mailbox[y]
      /\ account' = account
  BY SendParts, ActorsApart
<1>2. PICK n : n \notin Ops /\ n # 0 /\ Ops' = Ops \cup {n}
  BY SendParts
<1>3. AddressInv'
  BY <1>1, QuerySame DEF QueriesInv
<1>4. ASSUME NEW o \in Ops', NEW a, a = Op'[o].account, IsQuery(o)' PROVE QueryIs(o, a)'
  <2>1. a \in Accounts
    <3>1. Op'[o] \in Operation
      BY <1>4, SeqLemma DEF AllOK, Ops, Op
    <3>2. Op'[o].kind \in {"AccountQuery", "Bill"}
      BY <1>4 DEF IsQuery
    <3> QED
      BY <1>4, <3>1, <3>2 DEF Operation
  <2>2. QueryIs(o, a)
    <3>1. CASE o \in Ops
      <4>1. IsQuery(o) /\ a = Op[o].account
        BY <1>4, <3>1 DEF IsQuery, Grows
      <4> QED
        BY <3>1, <4>1, QueryNow
    <3>2. CASE o \notin Ops
      <4>1. /\ Due(o, a) = {} /\ InMail(a) \cap StartOf(o) = {} /\ account[a].pending.op # o
            /\ ReportsOnce(o, a)
        BY <1>2, <2>1, <3>2, QueryUnknown DEF QueriesInv
      <4> QED
        BY <4>1 DEF QueryIs
    <3> QED
      BY <3>1, <3>2
  <2> QED
    BY <1>1, <2>1, <2>2, QuerySame
<1>5. ASSUME NEW o \in Ops' PROVE QueryInv(o)'
  <2>1. PICK a : a = Op'[o].account
    OBVIOUS
  <2> QED
    BY <1>4, <2>1, QueryPartsNext
<1> QED
  BY <1>3, <1>5 DEF QueriesInv

\* A step without messages.
LEMMA IdleQueries ==
  ASSUME UNCHANGED <<sent, operations, account, mailbox>>, AllOK, QueriesInv
  PROVE  QueriesInv'
<1>1. Grows /\ Ops' = Ops /\ Op' = Op
  BY SameGrows DEF Ops, Op
<1>2. AddressInv'
  BY <1>1, QuerySame DEF QueriesInv
<1>3. ASSUME NEW o \in Ops PROVE QueryInv(o)'
  <2>1. PICK a : a = Op[o].account /\ a = Op'[o].account
    BY <1>1
  <2>2. IsQuery(o)' <=> IsQuery(o)
    BY <1>1 DEF IsQuery
  <2>3. IsQuery(o) => QueryIs(o, a)'
    BY <2>1, QueryNow, QuerySame
  <2> QED
    BY <2>1, <2>2, <2>3, QueryPartsNext
<1> QED
  BY <1>1, <1>2, <1>3 DEF QueriesInv

-----------------------------------------------------------------------------
(* Snapshots *)

\* SnapshotInv for an account or a card x.
Collecting(x) ==
  /\ AtMostOne(mailbox[x], Requests) /\ AtMostOne(mailbox[Router], Fragments(x))
  /\ ~(ToCollect(x) /\ Collected(x))
\* The messages of a snapshot are told apart by their types and the actor they are of.
LEMMA SnapshotMessages ==
  /\ \A m : m \in Requests => m.type = "GetSnapshot"
  /\ \A m \in AccountMsg \cup CardMsg : m.type = "GetSnapshot" => m \in Requests
  /\ \A x, m : m \in Fragments(x) =>
       \/ m.type = "AccountSnapshotCollected" /\ m.fragment.account = x
       \/ m.type = "CardSnapshotCollected" /\ m.fragment.card = x
  /\ \A m \in RouterMsg : m.type = "AccountSnapshotCollected" => m \in Fragments(m.fragment.account)
  /\ \A m \in RouterMsg : m.type = "CardSnapshotCollected" => m \in Fragments(m.fragment.card)
  /\ Requests' = Requests /\ \A x : Fragments(x)' = Fragments(x)
BY DEF Requests, Fragments

\* The same after a step.
LEMMA CollectingNext ==
  ASSUME NEW x
  PROVE  /\ Collecting(x)' <=> /\ AtMostOne(mailbox'[x], Requests) /\ AtMostOne(mailbox'[Router], Fragments(x))
                               /\ ~(ToCollect(x)' /\ Collected(x)')
         /\ ToCollect(x)' <=> InMail(x)' \cap Requests # {}
         /\ Collected(x)' <=> InMail(Router)' \cap Fragments(x) # {}
<1>1. Requests' = Requests /\ Fragments(x)' = Fragments(x)
  BY SnapshotMessages
<1>2. ToCollect(x)' <=> InMail(x)' \cap Requests # {}
  BY <1>1 DEF ToCollect
<1>3. Collected(x)' <=> InMail(Router)' \cap Fragments(x) # {}
  BY <1>1 DEF Collected
<1> QED
  BY <1>1, <1>2, <1>3 DEF Collecting

\* A step that says nothing of the fragment of z.
LEMMA CollectStays ==
  ASSUME AllOK, NEW x, NEW new, Sends(x, new), NEW z \in Accounts \cup Cards, Collecting(z),
         z # x \/ Head(mailbox[x]) \notin Requests, Range(Added(new, z)) \cap Requests = {},
         x # Router \/ Head(mailbox[x]) \notin Fragments(z),
         Range(Added(new, Router)) \cap Fragments(z) = {}
  PROVE  /\ Collecting(z)' /\ (ToCollect(z)' <=> ToCollect(z)) /\ (Collected(z)' <=> Collected(z))
<1>1. z \in Actors /\ Router \in Actors
  BY ActorsApart
<1>2. /\ InMail(z)' \cap Requests = InMail(z) \cap Requests
      /\ AtMostOne(mailbox[z], Requests) => AtMostOne(mailbox'[z], Requests)
  BY <1>1, MailSame
<1>3. /\ InMail(Router)' \cap Fragments(z) = InMail(Router) \cap Fragments(z)
      /\ AtMostOne(mailbox[Router], Fragments(z)) => AtMostOne(mailbox'[Router], Fragments(z))
  BY <1>1, MailSame
<1> QED
  BY <1>2, <1>3, CollectingNext DEF Collecting, ToCollect, Collected

\* What is missing is finite, and what is missing in parts.
LEMMA MissingFinite ==
  /\ IsFiniteSet(Missing(Accounts)) /\ Cardinality(Missing(Accounts)) \in Nat
  /\ IsFiniteSet(Missing(Cards)) /\ Cardinality(Missing(Cards)) \in Nat
  /\ Missing(Accounts \cup Cards) = Missing(Accounts) \cup Missing(Cards)
  /\ Missing(Accounts) \cap Cards = {} /\ Missing(Cards) \cap Accounts = {}
<1>1. Missing(Accounts) \subseteq Accounts /\ Missing(Cards) \subseteq Cards
  BY DEF Missing
<1>2. IsFiniteSet(Missing(Accounts)) /\ IsFiniteSet(Missing(Cards))
  BY <1>1, ActorsAssumption, FS_Subset
<1>3. Missing(Accounts \cup Cards) = Missing(Accounts) \cup Missing(Cards)
  BY DEF Missing
<1> QED
  BY <1>1, <1>2, <1>3, ActorsAssumption, FS_CardinalityType

\* SnapshotInv in these terms, when S and T are what is missing.
SnapshotOf(S, T) ==
  /\ 0 \in DOMAIN snapshots =>
       /\ snapshots[0].expected_accounts = Len(snapshots[0].accounts) + Cardinality(S)
       /\ snapshots[0].expected_cards = Len(snapshots[0].cards) + Cardinality(T)
  /\ 0 \in DOMAIN snapshots <=> S \cup T # {}
\* SnapshotInv, through the accounts and the cards whose fragments are missing.
LEMMA SnapshotParts ==
  SnapshotInv <=> /\ \A x \in Accounts \cup Cards : Collecting(x)
                  /\ SnapshotOf(Missing(Accounts), Missing(Cards))
<1>1. Missing(Accounts \cup Cards) = Missing(Accounts) \cup Missing(Cards)
  BY MissingFinite
<1>2. PICK S, T : S = Missing(Accounts) /\ T = Missing(Cards)
  OBVIOUS
<1> QED
  BY <1>1, <1>2 DEF SnapshotInv, Collecting, SnapshotOf
\* The same after a step.
LEMMA SnapshotPartsNext ==
  ASSUME NEW S, NEW T, S = Missing(Accounts)', T = Missing(Cards)'
  PROVE  SnapshotInv' <=> (\A x \in Accounts \cup Cards : Collecting(x)') /\ SnapshotOf(S, T)'
<1>1. Missing(Accounts \cup Cards)' = S \cup T
  BY DEF Missing
<1> QED
  BY <1>1 DEF SnapshotInv, Collecting, SnapshotOf

\* The messages about a snapshot
SnapshotTypes == {"GetSnapshot", "AccountSnapshotCollected", "CardSnapshotCollected"}

\* A step about no snapshot.
LEMMA SnapshotFrame ==
  ASSUME AllOK, SnapshotInv, NEW x, NEW new, NEW heads, NEW types, Acts(x, new, heads, types),
         (heads \cup types) \cap SnapshotTypes = {}, snapshots' = snapshots
  PROVE  SnapshotInv'
<1>1. /\ Sends(x, new) /\ Head(mailbox[x]).type \notin SnapshotTypes
      /\ \A y : \A m \in Range(Added(new, y)) : m.type \notin SnapshotTypes
  BY DEF Acts
<1>2. ASSUME NEW z \in Accounts \cup Cards
      PROVE  /\ Collecting(z)' /\ (ToCollect(z)' <=> ToCollect(z)) /\ (Collected(z)' <=> Collected(z))
  <2>1. /\ Head(mailbox[x]) \notin Requests /\ Head(mailbox[x]) \notin Fragments(z)
        /\ Range(Added(new, z)) \cap Requests = {} /\ Range(Added(new, Router)) \cap Fragments(z) = {}
    BY <1>1, SnapshotMessages DEF SnapshotTypes
  <2>2. Collecting(z)
    BY SnapshotParts
  <2> QED
    BY <1>1, <2>1, <2>2, CollectStays
<1>3. Missing(Accounts)' = Missing(Accounts) /\ Missing(Cards)' = Missing(Cards)
  BY <1>2 DEF Missing
<1>4. SnapshotOf(Missing(Accounts), Missing(Cards))
  BY SnapshotParts
<1>5. PICK S, T : S = Missing(Accounts) /\ T = Missing(Cards)
  OBVIOUS
<1>6. SnapshotOf(S, T)'
  BY <1>4, <1>5 DEF SnapshotOf
<1> QED
  BY <1>2, <1>3, <1>5, <1>6, SnapshotPartsNext

\* GetDatabase: every actor that there is has yet to answer.
LEMMA ExecuteGetDatabaseSnapshot ==
  ASSUME AllOK, Alone, PlacesInv, SnapshotInv, NEW o, ExecuteGetDatabase(o)
  PROVE  SnapshotInv'
<1>0. PICK m : m = [type |-> "GetSnapshot", op |-> o]
  OBVIOUS
<1>1. AnswersEmpty \/ \E new : AsksEach(new, m)
  BY <1>0, ExecuteGetDatabaseActs
<1>2. 0 \notin DOMAIN snapshots
  BY FirstSnapshot
<1>3. \A z \in Accounts \cup Cards : Collecting(z) /\ ~ToCollect(z) /\ ~Collected(z)
  <2>1. Missing(Accounts \cup Cards) = {}
    BY <1>2 DEF SnapshotInv
  <2> QED
    BY <2>1, SnapshotParts DEF Missing
<1>4. CASE AnswersEmpty
  <2>1. Acts(Router, Nothing, {"Execute"}, {}) /\ snapshots' = snapshots
    BY <1>4 DEF AnswersEmpty
  <2>2. ({"Execute"} \cup {}) \cap SnapshotTypes = {}
    BY DEF SnapshotTypes
  <2> QED
    BY <2>1, <2>2, SnapshotFrame
<1>5. ASSUME NEW new, AsksEach(new, m) PROVE SnapshotInv'
  <2>1. /\ Sends(Router, new) /\ Head(mailbox[Router]).type = "Execute" /\ m \in Requests
        /\ \A y \in accounts \cup cards : Range(Added(new, y)) = {m} /\ \A M : AtMostOne(Added(new, y), M)
        /\ \A y : y \notin accounts \cup cards => Range(Added(new, y)) = {}
        /\ accounts \cup cards # {} /\ accounts \subseteq Accounts /\ cards \subseteq Cards
        /\ snapshots' = Insert(snapshots, 0,
             [expected_accounts |-> Cardinality(accounts), accounts |-> <<>>,
              expected_cards |-> Cardinality(cards), cards |-> <<>>])
    BY <1>5, SnapshotMessages DEF AsksEach, Acts, AllOK, RouterOK
  <2>2. Router \in Actors /\ Router \notin accounts \cup cards /\ Range(Added(new, Router)) = {}
    BY <2>1, ActorsApart
  <2>3. ASSUME NEW z \in Accounts \cup Cards
        PROVE  /\ Collecting(z)' /\ ~Collected(z)'
               /\ ToCollect(z)' <=> z \in accounts \cup cards
    <3>1. z \in Actors /\ z # Router /\ TypeOK
      BY ActorsApart, AllParts
    <3>2. Head(mailbox[Router]) \notin Fragments(z)
      BY <2>1, SnapshotMessages
    <3>3. InMail(z) \cap Requests = {} /\ InMail(Router) \cap Fragments(z) = {}
          /\ AtMostOne(mailbox[z], Requests) /\ AtMostOne(mailbox[Router], Fragments(z))
      BY <1>3 DEF ToCollect, Collected, Collecting
    <3>4. InMail(Router)' \cap Fragments(z) = {} /\ AtMostOne(mailbox'[Router], Fragments(z))
      BY <2>1, <2>2, <3>2, <3>3, MailSame
    <3>5. CASE z \in accounts \cup cards
      <4>1. InMail(z)' \cap Requests # {}
        <5>1. Range(Added(new, z)) \cap Requests # {}
          BY <2>1, <3>5
        <5> QED
          BY <2>1, <3>1, <5>1, MailOf
      <4>2. AtMostOne(mailbox'[z], Requests)
        BY <2>1, <3>1, <3>3, <3>5, DeliverLemma
      <4> QED
        BY <3>4, <3>5, <4>1, <4>2, CollectingNext
    <3>6. CASE z \notin accounts \cup cards
      <4>1. InMail(z)' \cap Requests = {} /\ AtMostOne(mailbox'[z], Requests)
        BY <2>1, <3>1, <3>3, <3>6, MailSame
      <4> QED
        BY <3>4, <3>6, <4>1, CollectingNext
    <3> QED
      BY <3>5, <3>6
  <2>4. accounts = Missing(Accounts)' /\ cards = Missing(Cards)'
    BY <2>1, <2>3, ActorsAssumption DEF Missing
  <2>5. PICK S, T : S = accounts /\ T = cards
    OBVIOUS
  <2>6. SnapshotOf(S, T)'
    <3>1. Cardinality(S) \in Nat /\ Cardinality(T) \in Nat
      BY <2>1, <2>5, ActorsAssumption, FS_Subset, FS_CardinalityType
    <3>2. PICK i, j : i = Cardinality(S) /\ j = Cardinality(T)
      OBVIOUS
    <3>3. /\ 0 \in DOMAIN snapshots'
          /\ snapshots'[0] = [expected_accounts |-> i, accounts |-> <<>>, expected_cards |-> j, cards |-> <<>>]
      BY <2>1, <2>5, <3>2 DEF Insert
    <3>4. i = Len(<<>>) + i /\ j = Len(<<>>) + j
      BY <3>1, <3>2
    <3>5. S \cup T # {}
      BY <2>1, <2>5
    <3> QED
      BY <3>2, <3>3, <3>4, <3>5 DEF SnapshotOf
  <2>7. S = Missing(Accounts)' /\ T = Missing(Cards)' /\ SnapshotOf(S, T)'
    BY <2>4, <2>5, <2>6
  <2> QED
    BY <2>3, <2>7, SnapshotPartsNext
<1> QED
  BY <1>1, <1>4, <1>5

\* An actor that is asked for its state sends its fragment.
LEMMA FragmentSent ==
  ASSUME AllOK, SnapshotInv, NEW x \in Accounts \cup Cards, NEW new, NEW m, NEW type,
         PassesTo(x, new, Router, m, "GetSnapshot", type),
         m \in Fragments(x), \A z : z # x => m \notin Fragments(z)
  PROVE  SnapshotInv'
<1>1. /\ Sends(x, new) /\ Head(mailbox[x]).type = "GetSnapshot" /\ snapshots' = snapshots
      /\ Range(Added(new, Router)) = {m} /\ \A z : z # Router => Range(Added(new, z)) = {}
      /\ \A M : AtMostOne(Added(new, Router), M)
  BY DEF PassesTo, SendsTo, Passes, routerVars
<1>2. x \in Actors /\ Router \in Actors /\ x # Router /\ TypeOK
  BY ActorsApart, AllParts
<1>3. Head(mailbox[x]) \in Requests
  <2>1. Head(mailbox[x]) \in Letter(x)
    BY <1>1, <1>2, HeadLemma DEF Sends
  <2> QED
    BY <1>1, <2>1, ActorsApart, SnapshotMessages
<1>4. \A z \in Accounts \cup Cards : Collecting(z)
  BY SnapshotParts
<1>5. ToCollect(x) /\ ~Collected(x) /\ AtMostOne(mailbox[x], Requests) /\ AtMostOne(mailbox[Router], Fragments(x))
  <2>1. ToCollect(x)
    BY <1>1, <1>2, <1>3, MailOf DEF ToCollect
  <2> QED
    BY <1>4, <2>1 DEF Collecting
<1>6. Collecting(x)' /\ Collected(x)'
  <2>1. InMail(x)' \cap Requests = {} /\ AtMostOne(mailbox'[x], Requests)
    <3>1. Range(Added(new, x)) \cap Requests = {}
      BY <1>1, <1>2
    <3>2. InMail(x)' \cap Requests = {}
      BY <1>1, <1>2, <1>3, <1>5, <3>1, MailOf
    <3>3. AtMostOne(mailbox'[x], Requests)
      BY <1>1, <1>2, <1>5, <3>1, NoneNewLemma DEF NoneNew
    <3> QED
      BY <3>2, <3>3
  <2>2. InMail(Router)' \cap Fragments(x) # {}
    <3>1. Range(Added(new, Router)) \cap Fragments(x) # {}
      BY <1>1
    <3> QED
      BY <1>1, <1>2, <3>1, MailOf
  <2>3. AtMostOne(mailbox'[Router], Fragments(x))
    <3>1. InMail(Router) \cap Fragments(x) = {}
      BY <1>5 DEF Collected
    <3> QED
      BY <1>1, <1>2, <1>5, <3>1, DeliverLemma
  <2> QED
    BY <2>1, <2>2, <2>3, CollectingNext
<1>7. ASSUME NEW z \in Accounts \cup Cards, z # x
      PROVE  /\ Collecting(z)' /\ (ToCollect(z)' <=> ToCollect(z)) /\ (Collected(z)' <=> Collected(z))
  <2>1. /\ Range(Added(new, z)) \cap Requests = {} /\ Range(Added(new, Router)) \cap Fragments(z) = {}
    BY <1>1, <1>7, ActorsApart
  <2> QED
    BY <1>1, <1>2, <1>4, <1>7, <2>1, CollectStays
<1>8. Missing(Accounts)' = Missing(Accounts) /\ Missing(Cards)' = Missing(Cards)
  BY <1>5, <1>6, <1>7 DEF Missing
<1>9. PICK S, T : S = Missing(Accounts) /\ T = Missing(Cards)
  OBVIOUS
<1>10. SnapshotOf(S, T)'
  <2>1. SnapshotOf(S, T)
    BY <1>9, SnapshotParts
  <2> QED
    BY <1>1, <2>1 DEF SnapshotOf
<1> QED
  BY <1>6, <1>7, <1>8, <1>9, <1>10, SnapshotPartsNext

\* GetSnapshot, at an account and at a card.
LEMMA ReportSnapshot ==
  ASSUME AllOK, SnapshotInv,
         \/ \E a \in Accounts : AccountSnapshot(a)
         \/ \E c \in Cards : CardSnapshot(c)
  PROVE  SnapshotInv'
<1>1. ASSUME NEW a \in Accounts, AccountSnapshot(a) PROVE SnapshotInv'
  <2>1. PICK new, m : /\ PassesTo(a, new, Router, m, "GetSnapshot", "AccountSnapshotCollected")
                      /\ m.fragment.account = a
    BY <1>1, AccountSnapshotActs
  <2>2. m \in RouterMsg /\ m.type = "AccountSnapshotCollected"
    BY <2>1, ActorsApart DEF PassesTo
  <2>3. m \in Fragments(a) /\ \A z : z # a => m \notin Fragments(z)
    BY <2>1, <2>2, SnapshotMessages
  <2> QED
    BY <2>1, <2>3, FragmentSent
<1>2. ASSUME NEW c \in Cards, CardSnapshot(c) PROVE SnapshotInv'
  <2>1. PICK new, m : /\ PassesTo(c, new, Router, m, "GetSnapshot", "CardSnapshotCollected")
                      /\ m.fragment.card = c
    BY <1>2, CardSnapshotActs
  <2>2. m \in RouterMsg /\ m.type = "CardSnapshotCollected"
    BY <2>1, ActorsApart DEF PassesTo
  <2>3. m \in Fragments(c) /\ \A z : z # c => m \notin Fragments(z)
    BY <2>1, <2>2, SnapshotMessages
  <2> QED
    BY <2>1, <2>3, FragmentSent
<1> QED
  BY <1>1, <1>2

\* A fragment is about one actor; the snapshot that it is added to counts it.
LEMMA FragmentCounts ==
  ASSUME AllOK, NEW m \in RouterMsg, NEW p, p = AddFragment(snapshots[0], m), 0 \in DOMAIN snapshots,
         m.type \in {"AccountSnapshotCollected", "CardSnapshotCollected"}
  PROVE  \E x \in Accounts \cup Cards :
           /\ m \in Fragments(x) /\ \A z : z # x => m \notin Fragments(z)
           /\ p.expected_accounts = snapshots[0].expected_accounts
           /\ p.expected_cards = snapshots[0].expected_cards
           /\ Len(snapshots[0].accounts) \in Nat /\ Len(snapshots[0].cards) \in Nat
           /\ Len(p.accounts) = Len(snapshots[0].accounts) + (IF x \in Accounts THEN 1 ELSE 0)
           /\ Len(p.cards) = Len(snapshots[0].cards) + (IF x \in Cards THEN 1 ELSE 0)
<1>1. snapshots[0] \in [expected_accounts : Nat, accounts : Seq(AccountSnapshots),
                        expected_cards : Nat, cards : Seq(CardSnapshots)]
  BY DEF AllOK, RouterOK
<1>2. PICK s : s = snapshots[0]
  OBVIOUS
<1>3. PICK f : f = m.fragment
  OBVIOUS
<1>4. CASE m.type = "AccountSnapshotCollected"
  <2>1. f \in AccountSnapshots /\ f.account \in Accounts /\ f.account \notin Cards
    BY <1>3, <1>4, RouterFields, ActorsAssumption DEF AccountSnapshots
  <2>2. m \in Fragments(f.account) /\ \A z : z # f.account => m \notin Fragments(z)
    BY <1>3, <1>4, SnapshotMessages
  <2>3. p = [s EXCEPT !.accounts = Append(s.accounts, f)]
    BY <1>2, <1>3, <1>4 DEF AddFragment
  <2>4. /\ p.expected_accounts = s.expected_accounts /\ p.expected_cards = s.expected_cards
        /\ p.accounts = Append(s.accounts, f) /\ p.cards = s.cards
    BY <1>1, <1>2, <2>3
  <2>5. /\ Len(s.accounts) \in Nat /\ Len(Append(s.accounts, f)) = Len(s.accounts) + 1
        /\ Len(s.cards) \in Nat
    BY <1>1, <1>2, <2>1, AppendLemma, SeqLemma
  <2>6. Len(s.cards) = Len(s.cards) + 0
    BY <2>5
  <2> QED
    BY <1>2, <2>1, <2>2, <2>4, <2>5, <2>6
<1>5. CASE m.type = "CardSnapshotCollected"
  <2>1. f \in CardSnapshots /\ f.card \in Cards /\ f.card \notin Accounts
    BY <1>3, <1>5, RouterFields, ActorsAssumption DEF CardSnapshots
  <2>2. m \in Fragments(f.card) /\ \A z : z # f.card => m \notin Fragments(z)
    BY <1>3, <1>5, SnapshotMessages
  <2>3. p = [s EXCEPT !.cards = Append(s.cards, f)]
    BY <1>2, <1>3, <1>5 DEF AddFragment
  <2>4. /\ p.expected_accounts = s.expected_accounts /\ p.expected_cards = s.expected_cards
        /\ p.cards = Append(s.cards, f) /\ p.accounts = s.accounts
    BY <1>1, <1>2, <2>3
  <2>5. /\ Len(s.cards) \in Nat /\ Len(Append(s.cards, f)) = Len(s.cards) + 1
        /\ Len(s.accounts) \in Nat
    BY <1>1, <1>2, <2>1, AppendLemma, SeqLemma
  <2>6. Len(s.accounts) = Len(s.accounts) + 0
    BY <2>5
  <2> QED
    BY <1>2, <2>1, <2>2, <2>4, <2>5, <2>6
<1> QED
  BY <1>4, <1>5

\* The actor of a fragment that the router takes has nothing more to send.
LEMMA FragmentTaken ==
  ASSUME AllOK, SnapshotInv, Sends(Router, Nothing), \A y : Range(Added(Nothing, y)) = {},
         NEW m, m = Head(mailbox[Router]), NEW x \in Accounts \cup Cards, m \in Fragments(x),
         \A z : z # x => m \notin Fragments(z)
  PROVE  /\ \A z \in Accounts \cup Cards : Collecting(z)'
         /\ 0 \in DOMAIN snapshots
         /\ x \in Missing(Accounts) \cup Missing(Cards)
         /\ Missing(Accounts)' = Missing(Accounts) \ {x} /\ Missing(Cards)' = Missing(Cards) \ {x}
<1>1. x \in Actors /\ Router \in Actors /\ x # Router
  BY ActorsApart
<1>2. \A z \in Accounts \cup Cards : Collecting(z)
  BY SnapshotParts
<1>3. Collected(x) /\ ~ToCollect(x) /\ AtMostOne(mailbox[x], Requests) /\ AtMostOne(mailbox[Router], Fragments(x))
  <2>1. Collected(x)
    BY <1>1, MailOf DEF Collected
  <2> QED
    BY <1>2, <2>1 DEF Collecting
<1>4. x \in Missing(Accounts) \cup Missing(Cards) /\ 0 \in DOMAIN snapshots
  <2>1. x \in Missing(Accounts \cup Cards)
    BY <1>3 DEF Missing
  <2> QED
    BY <2>1, MissingFinite DEF SnapshotInv
<1>5. Collecting(x)' /\ ~ToCollect(x)' /\ ~Collected(x)'
  <2>1. InMail(x)' \cap Requests = {} /\ AtMostOne(mailbox'[x], Requests)
    <3>1. InMail(x) \cap Requests = {}
      BY <1>3 DEF ToCollect
    <3> QED
      BY <1>1, <1>3, <3>1, MailSame
  <2>2. InMail(Router)' \cap Fragments(x) = {}
    BY <1>1, <1>3, MailOf
  <2>3. AtMostOne(mailbox'[Router], Fragments(x))
    BY <1>1, <1>3, NoneNewLemma DEF NoneNew
  <2> QED
    BY <2>1, <2>2, <2>3, CollectingNext
<1>6. ASSUME NEW z \in Accounts \cup Cards, z # x
      PROVE  /\ Collecting(z)' /\ (ToCollect(z)' <=> ToCollect(z)) /\ (Collected(z)' <=> Collected(z))
  <2>1. /\ Range(Added(Nothing, z)) \cap Requests = {} /\ Range(Added(Nothing, Router)) \cap Fragments(z) = {}
        /\ z # Router /\ Head(mailbox[Router]) \notin Fragments(z)
    BY <1>6, ActorsApart
  <2> QED
    BY <1>2, <2>1, CollectStays
<1>7. Missing(Accounts)' = Missing(Accounts) \ {x} /\ Missing(Cards)' = Missing(Cards) \ {x}
  BY <1>5, <1>6 DEF Missing
<1> QED
  BY <1>4, <1>5, <1>6, <1>7

\* AccountSnapshotCollected and CardSnapshotCollected: the snapshot is complete when
\* nothing is missing.
LEMMA RouterSnapshotSnapshot ==
  ASSUME AllOK, SnapshotInv, RouterSnapshot
  PROVE  SnapshotInv' /\ 0 \in DOMAIN snapshots
<1>m. PICK m : m = Head(mailbox[Router])
  OBVIOUS
<1>1. /\ Acts(Router, Nothing, {"AccountSnapshotCollected", "CardSnapshotCollected"}, {})
      /\ \A y : Range(Added(Nothing, y)) = {}
      /\ FragmentLost \/ FragmentAdded(m) \/ FragmentLast(m)
  BY <1>m, RouterSnapshotActs
<1>2. /\ Sends(Router, Nothing) /\ m.type \in {"AccountSnapshotCollected", "CardSnapshotCollected"}
      /\ m \in RouterMsg
  <2>1. /\ Sends(Router, Nothing) /\ m.type \in {"AccountSnapshotCollected", "CardSnapshotCollected"}
    BY <1>m, <1>1 DEF Acts
  <2> QED
    BY <1>m, <2>1, HeadLemma, ActorsApart DEF Sends
<1>3. PICK y \in Accounts \cup Cards : m \in Fragments(y) /\ \A z : z # y => m \notin Fragments(z)
  BY <1>2, RouterFields, SnapshotMessages DEF AccountSnapshots, CardSnapshots
<1>4. 0 \in DOMAIN snapshots
  BY <1>m, <1>1, <1>2, <1>3, FragmentTaken
<1>5. PICK p : p = AddFragment(snapshots[0], m)
  OBVIOUS
<1>6. PICK x \in Accounts \cup Cards :
           /\ m \in Fragments(x) /\ \A z : z # x => m \notin Fragments(z)
           /\ p.expected_accounts = snapshots[0].expected_accounts
           /\ p.expected_cards = snapshots[0].expected_cards
           /\ Len(snapshots[0].accounts) \in Nat /\ Len(snapshots[0].cards) \in Nat
           /\ Len(p.accounts) = Len(snapshots[0].accounts) + (IF x \in Accounts THEN 1 ELSE 0)
           /\ Len(p.cards) = Len(snapshots[0].cards) + (IF x \in Cards THEN 1 ELSE 0)
  BY <1>2, <1>4, <1>5, FragmentCounts
<1>7. /\ \A z \in Accounts \cup Cards : Collecting(z)'
      /\ x \in Missing(Accounts) \cup Missing(Cards)
      /\ Missing(Accounts)' = Missing(Accounts) \ {x} /\ Missing(Cards)' = Missing(Cards) \ {x}
  BY <1>m, <1>1, <1>2, <1>6, FragmentTaken
<1>8. PICK S, T : S = Missing(Accounts) \ {x} /\ T = Missing(Cards) \ {x}
  OBVIOUS
<1>9. /\ IsFiniteSet(S) /\ IsFiniteSet(T) /\ Cardinality(S) \in Nat /\ Cardinality(T) \in Nat
      /\ Cardinality(Missing(Accounts)) = Cardinality(S) + (IF x \in Accounts THEN 1 ELSE 0)
      /\ Cardinality(Missing(Cards)) = Cardinality(T) + (IF x \in Cards THEN 1 ELSE 0)
  <2>1. /\ IsFiniteSet(Missing(Accounts)) /\ IsFiniteSet(Missing(Cards))
        /\ Cardinality(Missing(Accounts)) \in Nat /\ Cardinality(Missing(Cards)) \in Nat
        /\ x \in Accounts <=> x \in Missing(Accounts)
        /\ x \in Cards <=> x \in Missing(Cards)
    BY <1>7, MissingFinite DEF Missing
  <2>2. /\ IsFiniteSet(S) /\ IsFiniteSet(T) /\ Cardinality(S) \in Nat /\ Cardinality(T) \in Nat
    BY <1>8, <2>1, FS_RemoveElement, FS_CardinalityType
  <2>3. Cardinality(S) = IF x \in Missing(Accounts) THEN Cardinality(Missing(Accounts)) - 1
                         ELSE Cardinality(Missing(Accounts))
    BY <1>8, <2>1, FS_RemoveElement
  <2>4. Cardinality(T) = IF x \in Missing(Cards) THEN Cardinality(Missing(Cards)) - 1
                         ELSE Cardinality(Missing(Cards))
    BY <1>8, <2>1, FS_RemoveElement
  <2>5. Cardinality(Missing(Accounts)) = Cardinality(S) + (IF x \in Accounts THEN 1 ELSE 0)
    BY <2>1, <2>2, <2>3
  <2>6. Cardinality(Missing(Cards)) = Cardinality(T) + (IF x \in Cards THEN 1 ELSE 0)
    BY <2>1, <2>2, <2>4
  <2> QED
    BY <2>2, <2>5, <2>6
<1>10. /\ p.expected_accounts = Len(p.accounts) + Cardinality(S)
       /\ p.expected_cards = Len(p.cards) + Cardinality(T)
       /\ Len(p.accounts) \in Nat /\ Len(p.cards) \in Nat
  <2>1. /\ snapshots[0].expected_accounts = Len(snapshots[0].accounts) + Cardinality(Missing(Accounts))
        /\ snapshots[0].expected_cards = Len(snapshots[0].cards) + Cardinality(Missing(Cards))
    BY <1>4 DEF SnapshotInv
  <2>2. PICK i, j, k, l : /\ i = Len(snapshots[0].accounts) /\ j = Len(snapshots[0].cards)
                          /\ k = Cardinality(S) /\ l = Cardinality(T)
    OBVIOUS
  <2>3. i \in Nat /\ j \in Nat /\ k \in Nat /\ l \in Nat
    BY <1>6, <1>9, <2>2
  <2>4. /\ p.expected_accounts = i + (k + (IF x \in Accounts THEN 1 ELSE 0))
        /\ p.expected_cards = j + (l + (IF x \in Cards THEN 1 ELSE 0))
        /\ Len(p.accounts) = i + (IF x \in Accounts THEN 1 ELSE 0)
        /\ Len(p.cards) = j + (IF x \in Cards THEN 1 ELSE 0)
    BY <1>6, <1>9, <2>1, <2>2
  <2>5. /\ p.expected_accounts = Len(p.accounts) + k /\ p.expected_cards = Len(p.cards) + l
        /\ Len(p.accounts) \in Nat /\ Len(p.cards) \in Nat
    BY <2>3, <2>4
  <2> QED
    BY <2>2, <2>5
<1>11. SnapshotDone(p) <=> S \cup T = {}
  <2>1. SnapshotDone(p) <=> Cardinality(S) = 0 /\ Cardinality(T) = 0
    BY <1>9, <1>10 DEF SnapshotDone
  <2> QED
    BY <1>9, <2>1, FS_EmptySet
<1>12. SnapshotOf(S, T)'
  <2>1. CASE FragmentAdded(m)
    <3>1. 0 \in DOMAIN snapshots' /\ snapshots'[0] = p /\ S \cup T # {}
      BY <1>4, <1>5, <1>11, <2>1 DEF FragmentAdded
    <3> QED
      BY <1>10, <3>1 DEF SnapshotOf
  <2>2. CASE FragmentLast(m)
    <3>1. 0 \notin DOMAIN snapshots' /\ S \cup T = {}
      BY <1>5, <1>11, <2>2 DEF FragmentLast
    <3> QED
      BY <3>1 DEF SnapshotOf
  <2> QED
    BY <1>1, <1>4, <2>1, <2>2 DEF FragmentLost
<1> QED
  BY <1>4, <1>7, <1>8, <1>12, SnapshotPartsNext

\* Database::send, and the steps without messages.
LEMMA SendSnapshot ==
  ASSUME AllOK, SnapshotInv, Send
  PROVE  SnapshotInv'
<1>1. /\ \A y \in Accounts \cup Cards : mailbox'[y] = mailbox[y]
      /\ snapshots' = snapshots
  BY SendParts, ActorsApart DEF routerVars
<1>2. PICK e \in RouterMsg : e.type = "Execute" /\ mailbox'[Router] = Append(mailbox[Router], e)
  BY SendParts
<1>3. /\ InMail(Router)' = InMail(Router) \cup {e}
      /\ \A M : e \notin M /\ AtMostOne(mailbox[Router], M) => AtMostOne(mailbox'[Router], M)
  <2>1. mailbox[Router] \in Seq(RouterMsg)
    BY ActorsApart DEF AllOK, MailboxOK
  <2>2. PICK s, k : s = mailbox[Router] /\ k = Len(s)
    OBVIOUS
  <2>3. /\ k \in Nat /\ Range(Append(s, e)) = Range(s) \cup {e} /\ DOMAIN s = 1..k
        /\ DOMAIN Append(s, e) = 1..(k + 1) /\ Append(s, e)[k + 1] = e
        /\ \A i \in 1..k : Append(s, e)[i] = s[i]
    BY <2>1, <2>2, AppendLemma, SeqLemma
  <2>4. ASSUME NEW M, e \notin M, AtMostOne(s, M) PROVE AtMostOne(Append(s, e), M)
    <3>1. \A i \in 1..(k + 1) : Append(s, e)[i] \in M => i \in 1..k /\ s[i] \in M
      BY <2>3, <2>4
    <3> QED
      BY <2>3, <2>4, <3>1 DEF AtMostOne
  <2> QED
    BY <1>2, <2>2, <2>3, <2>4 DEF InMail
<1>4. ASSUME NEW z \in Accounts \cup Cards
      PROVE  /\ Collecting(z)' /\ (ToCollect(z)' <=> ToCollect(z)) /\ (Collected(z)' <=> Collected(z))
  <2>1. e \notin Fragments(z)
    BY <1>2, SnapshotMessages
  <2>2. Collecting(z) /\ InMail(z)' = InMail(z) /\ mailbox'[z] = mailbox[z]
    BY <1>1, SnapshotParts DEF InMail
  <2>3. InMail(Router)' \cap Fragments(z) = InMail(Router) \cap Fragments(z)
    BY <1>3, <2>1
  <2> QED
    BY <1>3, <2>1, <2>2, <2>3, CollectingNext DEF Collecting, ToCollect, Collected
<1>5. Missing(Accounts)' = Missing(Accounts) /\ Missing(Cards)' = Missing(Cards)
  BY <1>4 DEF Missing
<1>6. PICK S, T : S = Missing(Accounts) /\ T = Missing(Cards)
  OBVIOUS
<1>7. SnapshotOf(S, T)'
  <2>1. SnapshotOf(S, T)
    BY <1>6, SnapshotParts
  <2> QED
    BY <1>1, <2>1 DEF SnapshotOf
<1> QED
  BY <1>4, <1>5, <1>6, <1>7, SnapshotPartsNext
\* A step that leaves mailboxes and snapshots alone.
LEMMA IdleSnapshot ==
  ASSUME SnapshotInv, UNCHANGED <<mailbox, snapshots>>
  PROVE  SnapshotInv'
<1>1. \A y : InMail(y)' = InMail(y)
  BY DEF InMail
<1>2. \A z : /\ Collecting(z)' <=> Collecting(z)
             /\ ToCollect(z)' <=> ToCollect(z)
             /\ Collected(z)' <=> Collected(z)
  BY <1>1, CollectingNext DEF Collecting, ToCollect, Collected
<1>3. Missing(Accounts)' = Missing(Accounts) /\ Missing(Cards)' = Missing(Cards)
  BY <1>2 DEF Missing
<1>4. PICK S, T : S = Missing(Accounts) /\ T = Missing(Cards)
  OBVIOUS
<1>5. SnapshotOf(S, T)'
  <2>1. SnapshotOf(S, T)
    BY <1>4, SnapshotParts
  <2> QED
    BY <2>1 DEF SnapshotOf
<1> QED
  BY <1>2, <1>3, <1>4, <1>5, SnapshotParts, SnapshotPartsNext

-----------------------------------------------------------------------------
(* Events, and the steps that carry charges and limits *)

\* There are fewer results than places in the channel, and fewer events.
LEMMA Capacity ==
  ASSUME AllOK, OrderInv, PlacesInv, Alone
  PROVE  /\ Len(results) < EventCapacity
         /\ EventsInv => HasRoom
<1>k. PICK k, n : k = Len(results) /\ n = Len(sent)
  OBVIOUS
<1>1. /\ results \in Seq(ActorEvent) /\ DOMAIN results = 1..k /\ k \in Nat /\ n \in Nat /\ Ops = 1..n
  BY <1>k, SeqLemma DEF AllOK, EventsOK, Ops
<1>2. \A i \in 1..k : results[i].op \in Ops
  <2>1. \A i \in 1..k : results[i] \in Range(results)
    BY <1>1 DEF Range
  <2> QED
    BY <2>1 DEF AllOK, EventsOK, ResultsKnown
<1>3. ASSUME NEW i \in 1..k, NEW j \in 1..k, results[i].op = results[j].op PROVE i = j
  <2>1. PICK o : o = results[i].op /\ o = results[j].op /\ o \in Ops
    BY <1>2, <1>3
  <2>2. CASE OnCard(o)
    <3>1. PICK c \in Cards : OfCard(o, c)
      BY <2>1, <2>2, OperationType DEF AllOK, OnCard, OfCard
    <3>2. o \in Nat /\ i \in Nat /\ j \in Nat
      BY <1>1, <2>1
    <3>3. ResultsInv(c)
      BY DEF OrderInv
    <3>4. \A u, v \in 1..k : u < v /\ OfCard(results[u].op, c) /\ OfCard(results[v].op, c) =>
            results[u].op < results[v].op
      BY <1>1, <3>3 DEF ResultsInv
    <3>5. OfCard(results[i].op, c) /\ OfCard(results[j].op, c)
      BY <2>1, <3>1
    <3>6. (i < j => o < o) /\ (j < i => o < o)
      BY <2>1, <3>4, <3>5
    <3>7. ~(i < j) /\ ~(j < i)
      BY <3>2, <3>6
    <3> QED
      BY <3>2, <3>7
  <2>3. CASE ~OnCard(o)
    BY <1>1, <2>1, <2>3 DEF PlacesInv, OnceInv
  <2> QED
    BY <2>2, <2>3
<1>4. k <= n
  <2>1. PICK f : f = [i \in 1..k |-> results[i].op]
    OBVIOUS
  <2>2. f \in Injection(1..k, Ops)
    BY <1>2, <1>3, <2>1 DEF Injection, IsInjective
  <2>3. IsFiniteSet(Ops) /\ Cardinality(Ops) = n /\ Cardinality(1..k) = k
    BY <1>1, FS_Interval
  <2> QED
    BY <2>2, <2>3, FS_Injection
<1>5. k < EventCapacity
  BY <1>1, <1>4, <1>k, CapacityAssumption DEF Alone
<1>6. ASSUME EventsInv PROVE HasRoom
  <2>1. Len(events) \in Nat /\ Len(events) <= k
    BY <1>6, <1>k, SeqLemma DEF EventsInv, AllOK, EventsOK
  <2> QED
    BY <1>1, <1>5, <2>1, CapacityAssumption DEF HasRoom
<1> QED
  BY <1>5, <1>6, <1>k

\* A step that reports nothing, or a result.
LEMMA EventsFrame ==
  ASSUME AllOK, EventsInv, NEW x, NEW new, NEW heads, NEW types, Acts(x, new, heads, types),
         "Debug" \notin types,
         \/ UNCHANGED <<events, results>>
         \/ \E r \in ActorEvent : results' = Append(results, r) /\ events' = Append(events, r)
  PROVE  EventsInv'
<1>1. Debug \notin InMail(Router)'
  <2>1. Sends(x, new) /\ Debug \notin Range(Added(new, Router))
    BY DEF Acts, Debug
  <2>2. InMail(Router)' \cap {Debug} # {} =>
          InMail(Router) \cap {Debug} # {} \/ Range(Added(new, Router)) \cap {Debug} # {}
    BY <2>1, MailOf, ActorsApart
  <2> QED
    BY <2>1, <2>2 DEF EventsInv
<1>2. Len(events') <= Len(results')
  <2>1. CASE UNCHANGED <<events, results>>
    BY <2>1 DEF EventsInv
  <2>2. ASSUME NEW r \in ActorEvent, results' = Append(results, r) /\ events' = Append(events, r)
        PROVE  Len(events') <= Len(results')
    <3>1. /\ Len(results') = Len(results) + 1 /\ Len(events') = Len(events) + 1
          /\ Len(results) \in Nat /\ Len(events) \in Nat
      BY <2>2, AppendLemma DEF AllOK, EventsOK
    <3> QED
      BY <3>1 DEF EventsInv
  <2> QED
    BY <2>1, <2>2
<1> QED
  BY <1>1, <1>2 DEF EventsInv

\* A step of some types is one of more types.
LEMMA ActsMore ==
  ASSUME NEW x, NEW new, NEW heads, NEW types, Acts(x, new, heads, types), NEW H, NEW T,
         heads \subseteq H, types \subseteq T
  PROVE  Acts(x, new, H, T)
BY DEF Acts

\* A step that is about neither queries nor snapshots.
PassTypes == {"Execute", "Task", "ApplyAccountLimit", "ApplyCharge", "AccountChargeReply",
              "OperationCompleted"}
Bypasses  == /\ \E x, new : Acts(x, new, PassTypes, PassTypes)
             /\ UNCHANGED <<sent, events, snapshots, results>> /\ Pendings
\* It keeps what is known of queries, snapshots and events.
LEMMA BypassFrame ==
  ASSUME AllOK, Grows, QueriesInv, SnapshotInv, EventsInv, Bypasses
  PROVE  QueriesInv' /\ SnapshotInv' /\ EventsInv'
<1>1. PICK x, new : Acts(x, new, PassTypes, PassTypes)
  BY DEF Bypasses
<1>2. /\ (PassTypes \cup PassTypes) \cap QueryTypes = {}
      /\ (PassTypes \cup PassTypes) \cap SnapshotTypes = {}
      /\ "Debug" \notin PassTypes
  BY DEF PassTypes, QueryTypes, SnapshotTypes
<1>3. UNCHANGED <<sent, events, snapshots, results>> /\ Pendings
  BY DEF Bypasses
<1>4. QueriesInv'
  BY <1>1, <1>2, <1>3, QueriesFrame
<1>5. SnapshotInv'
  BY <1>1, <1>2, <1>3, SnapshotFrame
<1>6. EventsInv'
  BY <1>1, <1>2, <1>3, EventsFrame
<1> QED
  BY <1>4, <1>5, <1>6

\* The router passes on what is for a card or an account alone.
LEMMA ExecuteBypasses ==
  ASSUME AllOK, NEW o, ExecuteOnCard(o) \/ ExecuteLimitAccount(o)
  PROVE  Bypasses
<1>1. CASE ExecuteOnCard(o)
  <2>1. PICK new : new = To(Op[o].card, [type |-> "Task", op |-> o])
    OBVIOUS
  <2>2. /\ Acts(Router, new, {"Execute"}, {"Task"})
        /\ UNCHANGED <<sent, events, snapshots, account, card, results>>
    BY <1>1, <2>1, ExecuteOnCardActs
  <2>3. Acts(Router, new, PassTypes, PassTypes)
    BY <2>2, ActsMore DEF PassTypes
  <2> QED
    BY <2>2, <2>3 DEF Bypasses, Pendings
<1>2. CASE ExecuteLimitAccount(o)
  <2>1. PICK new : new = To(Op[o].account, [type |-> "ApplyAccountLimit", op |-> o])
    OBVIOUS
  <2>2. /\ Acts(Router, new, {"Execute"}, {"ApplyAccountLimit"})
        /\ UNCHANGED <<sent, events, snapshots, account, card, results>>
    BY <1>2, <2>1, ExecuteLimitAccountActs
  <2>3. Acts(Router, new, PassTypes, PassTypes)
    BY <2>2, ActsMore DEF PassTypes
  <2> QED
    BY <2>2, <2>3 DEF Bypasses, Pendings
<1> QED
  BY <1>1, <1>2

\* An account decides charges and its limits.
LEMMA AccountBypasses ==
  ASSUME AllOK, NEW a \in Accounts, AccountCharge(a) \/ AccountLimit(a)
  PROVE  Bypasses
<1>1. CASE AccountCharge(a)
  <2>1. PICK new : Passes(a, new, {"ApplyCharge"}, {"AccountChargeReply"})
    BY <1>1, AccountChargeActs
  <2>2. Acts(a, new, PassTypes, PassTypes)
    BY <2>1, ActsMore DEF PassTypes, Passes
  <2>3. Pendings
    BY <1>1, AccountChargeActs
  <2> QED
    BY <2>1, <2>2, <2>3 DEF Bypasses, Passes, routerVars
<1>2. CASE AccountLimit(a)
  <2>o. PICK o : o = Head(mailbox[a]).op
    OBVIOUS
  <2>1. PICK new, m : PassesTo(a, new, Router, m, "ApplyAccountLimit", "OperationCompleted")
    BY <1>2, <2>o, AccountLimitActs
  <2>2. Acts(a, new, PassTypes, PassTypes)
    BY <2>1, ActsMore DEF PassTypes, PassesTo, Passes
  <2>3. Pendings
    BY <1>2, <2>o, AccountLimitActs
  <2> QED
    BY <2>1, <2>2, <2>3 DEF Bypasses, Passes, PassesTo, routerVars
<1> QED
  BY <1>1, <1>2

\* A card runs its tasks.
LEMMA StepsBypass ==
  ASSUME AllOK, NEW c \in Cards, NEW s, NEW pre, NEW n, Steps(c, s, pre, n),
         UNCHANGED <<events, snapshots, account>>, Head(mailbox[c]).type \in PassTypes
  PROVE  Bypasses
<1>n. PICK new : new = CardSends(c, s)
  OBVIOUS
<1>1. /\ Sends(c, new) /\ Added(new, Router) = DoneMail(s) /\ Added(new, Owner[c]) = AskMail(s)
      /\ \A y : y # Router /\ y # Owner[c] => Added(new, y) = <<>>
      /\ \A m \in Range(DoneMail(s)) : m.type = "OperationCompleted"
      /\ \A m \in Range(AskMail(s)) : m \in AskOf(Head(s.tasks))
  BY <1>n, StepsMail
<1>2. ASSUME NEW y, NEW m \in Range(Added(new, y)) PROVE m.type \in PassTypes
  <2>1. CASE y = Router
    BY <1>1, <1>2, <2>1 DEF PassTypes
  <2>2. CASE y = Owner[c]
    <3>1. m \in AskOf(Head(s.tasks))
      BY <1>1, <1>2, <2>2
    <3>2. m.type = "ApplyCharge"
      BY <3>1 DEF AskOf
    <3> QED
      BY <3>2 DEF PassTypes
  <2>3. CASE y # Router /\ y # Owner[c]
    BY <1>1, <1>2, <2>3, FewLemma
  <2> QED
    BY <2>1, <2>2, <2>3
<1>3. Acts(c, new, PassTypes, PassTypes)
  BY <1>1, <1>2 DEF Acts
<1>4. UNCHANGED <<sent, results>>
  BY DEF Steps
<1> QED
  BY <1>3, <1>4 DEF Bypasses, Pendings

\* A card waits for the account's reply: no reply is dropped.
LEMMA CardBypasses ==
  ASSUME AllOK, OrderInv, Unreplaced, NEW c \in Cards, CardTask(c) \/ CardReply(c)
  PROVE  Bypasses
<1>1. CASE CardTask(c)
  <2>0. PICK o, s, pre : /\ o = Head(mailbox[c]).op /\ s = Offer(Run(c, card[c].tasks), o)
                         /\ pre = Append(card[c].tasks, o)
    OBVIOUS
  <2>1. Head(mailbox[c]).type = "Task" /\ \E n : Steps(c, s, pre, n)
    BY <1>1, <2>0, TaskSteps
  <2>2. UNCHANGED <<events, snapshots, account>> /\ Head(mailbox[c]).type \in PassTypes
    BY <1>1, <2>1 DEF CardTask, routerVars, PassTypes
  <2> QED
    BY <2>1, <2>2, StepsBypass
<1>2. CASE CardReply(c)
  <2>0. PICK m, s : m = Head(mailbox[c]) /\ s = AfterReply(c, m)
    OBVIOUS
  <2>1. c \in Actors /\ mailbox[c] # <<>> /\ m.type = "AccountChargeReply"
    BY <1>2, <2>0, ActorsApart DEF CardReply, HasMail
  <2>2. m \in InMail(c) /\ m \in CardMsg /\ CardMail(c, m)
    <3>1. m \in InMail(c) /\ m \in Letter(c) /\ Good(c, m)
      BY <2>0, <2>1, HeadLemma
    <3> QED
      BY <3>1, ActorsApart DEF Good
  <2>3. card[c].tasks # <<>> /\ Head(card[c].tasks) = m.op
    <3>1. ChargeOf(m.op, c) /\ m.op \in Ops
      BY <2>1, <2>2 DEF CardMail, ChargeOf, OfCard
    <3>2. Pending(c, m.op)
      BY <2>1, <2>2, <3>1, AskReply DEF Pending, Replied
    <3>3. TasksInv(c)
      BY DEF OrderInv
    <3> QED
      BY <3>1, <3>2, <3>3 DEF TasksInv
  <2>4. \E n \in Nat \ {0} : Steps(c, s, card[c].tasks, n)
    BY <1>2, <2>0, <2>3, ReplySteps
  <2>5. UNCHANGED <<events, snapshots, account>> /\ Head(mailbox[c]).type \in PassTypes
    BY <1>2, <2>0, <2>1 DEF CardReply, routerVars, PassTypes
  <2> QED
    BY <2>4, <2>5, StepsBypass
<1> QED
  BY <1>1, <1>2

-----------------------------------------------------------------------------
(* Answers: the invariant *)

\* AnswersInv under its premise.
AnswersKnown == PlacesInv /\ QueriesInv /\ SnapshotInv /\ EventsInv

\* A step that takes no part in a snapshot and reports nothing or a result.
LEMMA ApartFromSnapshots ==
  ASSUME AllOK, SnapshotInv, EventsInv, NEW x, NEW new, NEW heads, NEW types,
         Acts(x, new, heads, types), (heads \cup types) \cap SnapshotTypes = {}, "Debug" \notin types,
         snapshots' = snapshots,
         \/ UNCHANGED <<events, results>>
         \/ \E r \in ActorEvent : results' = Append(results, r) /\ events' = Append(events, r)
  PROVE  SnapshotInv' /\ EventsInv'
BY SnapshotFrame, EventsFrame

\* The same for queries.
LEMMA ApartFromQueries ==
  ASSUME AllOK, Grows, QueriesInv, EventsInv, sent' = sent, NEW x, NEW new, NEW heads, NEW types,
         Acts(x, new, heads, types), (heads \cup types) \cap QueryTypes = {}, "Debug" \notin types,
         Pendings,
         \/ UNCHANGED <<events, results>>
         \/ \E r \in ActorEvent : results' = Append(results, r) /\ events' = Append(events, r)
  PROVE  QueriesInv' /\ EventsInv'
BY QueriesFrame, EventsFrame

\* The commands to the router.
LEMMA ExecuteAnswers ==
  ASSUME AllOK, AllOK', Grows, OrderInv, Alone, AnswersKnown, NEW o,
         \/ ExecuteOnCard(o) \/ ExecuteLimitAccount(o) \/ ExecuteQuery(o) \/ ExecuteGetDatabase(o)
  PROVE  AnswersKnown'
<1>0. PlacesInv /\ QueriesInv /\ SnapshotInv /\ EventsInv /\ AddressInv
  BY DEF AnswersKnown, QueriesInv
<1>1. CASE ExecuteOnCard(o) \/ ExecuteLimitAccount(o)
  <2>1. PlacesInv'
    BY <1>0, <1>1, ExecuteOnCardPlaces, ExecuteLimitAccountPlaces
  <2>2. QueriesInv' /\ SnapshotInv' /\ EventsInv'
    BY <1>0, <1>1, ExecuteBypasses, BypassFrame
  <2> QED
    BY <2>1, <2>2 DEF AnswersKnown
<1>2. CASE ExecuteQuery(o)
  <2>1. PlacesInv' /\ QueriesInv'
    BY <1>0, <1>2, ExecuteQueryPlaces, ExecuteQueryQueries
  <2>2. PICK a, mine : a = Op[o].account /\ mine = {c \in cards : Owner[c] = a}
    OBVIOUS
  <2>3. PICK m : m = [type |-> "Start", op |-> o, num_cards |-> Cardinality(mine)]
    OBVIOUS
  <2>4. PICK new : AsksAll(new, o, a, mine, m)
    BY <1>2, <2>2, <2>3, ExecuteQueryActs
  <2>5. /\ Acts(Router, new, {"Execute"}, {"Start", "QueryCardState"})
        /\ UNCHANGED <<events, snapshots, results>>
    BY <2>4 DEF AsksAll
  <2>6. /\ ({"Execute"} \cup {"Start", "QueryCardState"}) \cap SnapshotTypes = {}
        /\ "Debug" \notin {"Start", "QueryCardState"}
    BY DEF SnapshotTypes
  <2>7. SnapshotInv' /\ EventsInv'
    BY <1>0, <2>5, <2>6, ApartFromSnapshots
  <2> QED
    BY <2>1, <2>7 DEF AnswersKnown
<1>3. CASE ExecuteGetDatabase(o)
  <2>0. PICK m : m = [type |-> "GetSnapshot", op |-> o]
    OBVIOUS
  <2>1. HasRoom
    BY <1>0, Capacity
  <2>2. PlacesInv' /\ SnapshotInv'
    BY <1>0, <1>3, <2>1, ExecuteGetDatabasePlaces, ExecuteGetDatabaseSnapshot
  <2>3. /\ sent' = sent /\ Pendings
        /\ AnswersEmpty \/ \E new : AsksEach(new, m)
    BY <1>3, <2>0, ExecuteGetDatabaseActs DEF Pendings
  <2>4. CASE AnswersEmpty
    <3>1. \E r \in ActorEvent : results' = Append(results, r) /\ events' = Append(events, r)
      <4>1. EmitResult(0, TRUE, [accounts |-> <<>>, cards |-> <<>>])
        BY <2>4 DEF AnswersEmpty
      <4> QED
        BY <2>1, <4>1, ResultIs
    <3>2. Acts(Router, Nothing, {"Execute"}, {}) /\ ({"Execute"} \cup {}) \cap QueryTypes = {}
      BY <2>4 DEF AnswersEmpty, QueryTypes
    <3>3. QueriesInv' /\ EventsInv'
      BY <1>0, <2>3, <3>1, <3>2, ApartFromQueries
    <3> QED
      BY <2>2, <3>3 DEF AnswersKnown
  <2>5. ASSUME NEW new, AsksEach(new, m) PROVE AnswersKnown'
    <3>1. /\ Acts(Router, new, {"Execute"}, {"GetSnapshot"}) /\ UNCHANGED <<events, results>>
          /\ ({"Execute"} \cup {"GetSnapshot"}) \cap QueryTypes = {} /\ "Debug" \notin {"GetSnapshot"}
      BY <2>5 DEF AsksEach, QueryTypes
    <3>2. QueriesInv' /\ EventsInv'
      BY <1>0, <2>3, <3>1, ApartFromQueries
    <3> QED
      BY <2>2, <3>2 DEF AnswersKnown
  <2> QED
    BY <2>3, <2>4, <2>5
<1> QED
  BY <1>1, <1>2, <1>3

\* What the actors tell the router.
LEMMA RouterAnswers ==
  ASSUME AllOK, AllOK', Grows, OrderInv, Alone, AnswersKnown,
         RouterCompleted \/ RouterDebug \/ RouterSnapshot
  PROVE  AnswersKnown'
<1>0. PlacesInv /\ QueriesInv /\ SnapshotInv /\ EventsInv /\ AddressInv
  BY DEF AnswersKnown, QueriesInv
<1>r. HasRoom
  BY <1>0, Capacity
<1>1. CASE RouterCompleted
  <2>1. PlacesInv'
    BY <1>0, <1>r, <1>1, RouterCompletedPlaces
  <2>2. PICK o : o = Head(mailbox[Router]).op
    OBVIOUS
  <2>3. /\ Acts(Router, Nothing, {"OperationCompleted", "AccountQueryCompleted"}, {})
        /\ \E r \in ActorEvent : results' = Append(results, r) /\ events' = Append(events, r)
        /\ UNCHANGED <<sent, snapshots>> /\ Pendings
    BY <1>r, <1>1, <2>2, RouterCompletedActs DEF Pendings
  <2>4. /\ ({"OperationCompleted", "AccountQueryCompleted"} \cup {}) \cap SnapshotTypes = {}
        /\ ({"OperationCompleted", "AccountQueryCompleted"} \cup {}) \cap QueryTypes = {}
    BY DEF SnapshotTypes, QueryTypes
  <2>5. SnapshotInv' /\ EventsInv'
    BY <1>0, <2>3, <2>4, ApartFromSnapshots
  <2>6. QueriesInv'
    BY <1>0, <2>3, <2>4, QueriesFrame
  <2> QED
    BY <2>1, <2>5, <2>6 DEF AnswersKnown
<1>2. CASE RouterDebug
  <2>1. mailbox[Router] # <<>> /\ Head(mailbox[Router]).type = "Debug" /\ Router \in Actors
    BY <1>2, ActorsApart DEF RouterDebug, HasMail
  <2>2. Head(mailbox[Router]) \in InMail(Router) /\ Head(mailbox[Router]) \in RouterMsg
    BY <2>1, HeadLemma, ActorsApart
  <2>3. Head(mailbox[Router]) = Debug
    BY <2>1, <2>2 DEF RouterMsg, Debug
  <2> QED
    BY <1>0, <2>2, <2>3 DEF EventsInv
<1>3. CASE RouterSnapshot
  <2>m. PICK m : m = Head(mailbox[Router])
    OBVIOUS
  <2>1. PlacesInv' /\ SnapshotInv' /\ 0 \in DOMAIN snapshots
    BY <1>0, <1>r, <1>3, RouterSnapshotPlaces, RouterSnapshotSnapshot
  <2>2. /\ Acts(Router, Nothing, {"AccountSnapshotCollected", "CardSnapshotCollected"}, {})
        /\ sent' = sent /\ Pendings
        /\ FragmentLost \/ FragmentAdded(m) \/ FragmentLast(m)
    BY <1>3, <2>m, RouterSnapshotActs DEF Pendings
  <2>3. ({"AccountSnapshotCollected", "CardSnapshotCollected"} \cup {}) \cap QueryTypes = {}
    BY DEF QueryTypes
  <2>4. \/ UNCHANGED <<events, results>>
        \/ \E r \in ActorEvent : results' = Append(results, r) /\ events' = Append(events, r)
    <3>1. CASE FragmentAdded(m)
      BY <3>1 DEF FragmentAdded
    <3>2. CASE FragmentLast(m)
      <4>1. PICK value : EmitResult(0, TRUE, value)
        BY <3>2 DEF FragmentLast
      <4> QED
        BY <1>r, <4>1, ResultIs
    <3> QED
      BY <2>1, <2>2, <3>1, <3>2 DEF FragmentLost
  <2>5. QueriesInv' /\ EventsInv'
    BY <1>0, <2>2, <2>3, <2>4, ApartFromQueries
  <2> QED
    BY <2>1, <2>5 DEF AnswersKnown
<1> QED
  BY <1>1, <1>2, <1>3

\* The accounts.
LEMMA AccountAnswers ==
  ASSUME AllOK, AllOK', Grows, OrderInv, Alone, AnswersKnown, NEW a \in Accounts,
         \/ AccountCharge(a) \/ AccountLimit(a) \/ AccountStart(a)
         \/ AccountQueryReply(a) \/ AccountSnapshot(a)
  PROVE  AnswersKnown'
<1>0. PlacesInv /\ QueriesInv /\ SnapshotInv /\ EventsInv /\ AddressInv
  BY DEF AnswersKnown, QueriesInv
<1>1. CASE AccountCharge(a) \/ AccountLimit(a)
  <2>1. PlacesInv'
    BY <1>0, <1>1, ReportPlaces, AccountLimitPlaces
  <2>2. QueriesInv' /\ SnapshotInv' /\ EventsInv'
    BY <1>0, <1>1, AccountBypasses, BypassFrame
  <2> QED
    BY <2>1, <2>2 DEF AnswersKnown
<1>2. CASE AccountStart(a)
  <2>1. PlacesInv' /\ QueriesInv'
    BY <1>0, <1>2, AccountStartPlaces, AccountStartQueries
  <2>2. PICK m, o, n : m = Head(mailbox[a]) /\ o = m.op /\ n = m.num_cards
    OBVIOUS
  <2>3. StartAnswers(a, o) \/ StartWaits(a, o, n)
    BY <1>2, <2>2, AccountStartActs
  <2>4. \E new : Passes(a, new, {"Start"}, {"AccountQueryCompleted"})
    <3>1. CASE StartAnswers(a, o)
      BY <3>1 DEF StartAnswers, PassesTo
    <3>2. CASE StartWaits(a, o, n)
      <4>1. Passes(a, Nothing, {"Start"}, {})
        BY <3>2 DEF StartWaits
      <4> QED
        BY <4>1, ActsMore DEF Passes
    <3> QED
      BY <2>3, <3>1, <3>2
  <2>5. PICK new : Passes(a, new, {"Start"}, {"AccountQueryCompleted"})
    BY <2>4
  <2>6. /\ ({"Start"} \cup {"AccountQueryCompleted"}) \cap SnapshotTypes = {}
        /\ "Debug" \notin {"AccountQueryCompleted"}
    BY DEF SnapshotTypes
  <2>7. SnapshotInv' /\ EventsInv'
    BY <1>0, <2>5, <2>6, ApartFromSnapshots DEF Passes, routerVars
  <2> QED
    BY <2>1, <2>7 DEF AnswersKnown
<1>3. CASE AccountQueryReply(a)
  <2>2. PICK m, o : m = Head(mailbox[a]) /\ o = m.op
    OBVIOUS
  <2>1. PlacesInv' /\ QueriesInv' /\ ~ReplyDropped(a, o)
    BY <1>0, <1>3, <2>2, AccountQueryReplyPlaces, AccountQueryReplyQueries
  <2>3. ReplyCounted(a, o) \/ ReplyLast(a, o)
    BY <1>3, <2>1, <2>2, AccountQueryReplyActs
  <2>4. \E new : Passes(a, new, {"CardQueryReply"}, {"AccountQueryCompleted"})
    <3>1. CASE ReplyCounted(a, o)
      <4>1. Passes(a, Nothing, {"CardQueryReply"}, {})
        BY <3>1 DEF ReplyCounted
      <4> QED
        BY <4>1, ActsMore DEF Passes
    <3>2. CASE ReplyLast(a, o)
      BY <3>2 DEF ReplyLast, PassesTo
    <3> QED
      BY <2>3, <3>1, <3>2
  <2>5. PICK new : Passes(a, new, {"CardQueryReply"}, {"AccountQueryCompleted"})
    BY <2>4
  <2>6. /\ ({"CardQueryReply"} \cup {"AccountQueryCompleted"}) \cap SnapshotTypes = {}
        /\ "Debug" \notin {"AccountQueryCompleted"}
    BY DEF SnapshotTypes
  <2>7. SnapshotInv' /\ EventsInv'
    BY <1>0, <2>5, <2>6, ApartFromSnapshots DEF Passes, routerVars
  <2> QED
    BY <2>1, <2>7 DEF AnswersKnown
<1>4. CASE AccountSnapshot(a)
  <2>1. PlacesInv' /\ SnapshotInv'
    BY <1>0, <1>4, ReportPlaces, ReportSnapshot
  <2>2. PICK new, m : PassesTo(a, new, Router, m, "GetSnapshot", "AccountSnapshotCollected")
    BY <1>4, AccountSnapshotActs
  <2>3. Passes(a, new, {"GetSnapshot"}, {"AccountSnapshotCollected"}) /\ Pendings
    BY <1>4, <2>2, AccountSnapshotActs DEF PassesTo, Pendings
  <2>4. /\ ({"GetSnapshot"} \cup {"AccountSnapshotCollected"}) \cap QueryTypes = {}
        /\ "Debug" \notin {"AccountSnapshotCollected"}
    BY DEF QueryTypes
  <2>5. QueriesInv' /\ EventsInv'
    BY <1>0, <2>3, <2>4, ApartFromQueries DEF Passes
  <2> QED
    BY <2>1, <2>5 DEF AnswersKnown
<1> QED
  BY <1>1, <1>2, <1>3, <1>4

\* The cards.
LEMMA CardAnswers ==
  ASSUME AllOK, AllOK', Grows, OrderInv, Alone, AnswersKnown, NEW c \in Cards,
         CardTask(c) \/ CardReply(c) \/ CardQuery(c) \/ CardSnapshot(c)
  PROVE  AnswersKnown'
<1>0. PlacesInv /\ QueriesInv /\ SnapshotInv /\ EventsInv /\ AddressInv
  BY DEF AnswersKnown, QueriesInv
<1>1. CASE CardTask(c) \/ CardReply(c)
  <2>1. PlacesInv'
    BY <1>0, <1>1, CardTaskPlaces, CardReplyPlaces
  <2>2. Unreplaced
    BY DEF Alone
  <2>3. QueriesInv' /\ SnapshotInv' /\ EventsInv'
    BY <1>0, <1>1, <2>2, CardBypasses, BypassFrame
  <2> QED
    BY <2>1, <2>3 DEF AnswersKnown
<1>2. CASE CardQuery(c)
  <2>1. PlacesInv' /\ QueriesInv'
    BY <1>0, <1>2, ReportPlaces, CardQueryQueries
  <2>2. PICK o : o = Head(mailbox[c]).op
    OBVIOUS
  <2>3. PICK new, m : PassesTo(c, new, Owner[c], m, "QueryCardState", "CardQueryReply")
    BY <1>2, <2>2, CardQueryActs
  <2>4. /\ ({"QueryCardState"} \cup {"CardQueryReply"}) \cap SnapshotTypes = {}
        /\ "Debug" \notin {"CardQueryReply"}
    BY DEF SnapshotTypes
  <2>5. Passes(c, new, {"QueryCardState"}, {"CardQueryReply"})
    BY <2>3 DEF PassesTo
  <2>6. SnapshotInv' /\ EventsInv'
    BY <1>0, <2>4, <2>5, ApartFromSnapshots DEF Passes, routerVars
  <2> QED
    BY <2>1, <2>6 DEF AnswersKnown
<1>3. CASE CardSnapshot(c)
  <2>1. PlacesInv' /\ SnapshotInv'
    BY <1>0, <1>3, ReportPlaces, ReportSnapshot
  <2>2. PICK new, m : PassesTo(c, new, Router, m, "GetSnapshot", "CardSnapshotCollected")
    BY <1>3, CardSnapshotActs
  <2>3. Passes(c, new, {"GetSnapshot"}, {"CardSnapshotCollected"}) /\ Pendings
    BY <1>3, <2>2, CardSnapshotActs DEF PassesTo, Pendings
  <2>4. /\ ({"GetSnapshot"} \cup {"CardSnapshotCollected"}) \cap QueryTypes = {}
        /\ "Debug" \notin {"CardSnapshotCollected"}
    BY DEF QueryTypes
  <2>5. QueriesInv' /\ EventsInv'
    BY <1>0, <2>3, <2>4, ApartFromQueries DEF Passes
  <2> QED
    BY <2>1, <2>5 DEF AnswersKnown
<1> QED
  BY <1>1, <1>2, <1>3

\* Database::send, Database::recv, and a step that changes nothing.
LEMMA NodeAnswers ==
  ASSUME AllOK, AllOK', Grows, AnswersKnown, Send \/ Recv \/ UNCHANGED vars
  PROVE  AnswersKnown'
<1>0. PlacesInv /\ QueriesInv /\ SnapshotInv /\ EventsInv /\ AddressInv
  BY DEF AnswersKnown, QueriesInv
<1>1. CASE Send
  <2>1. PlacesInv' /\ QueriesInv' /\ SnapshotInv'
    BY <1>0, <1>1, SendPlaces, SendQueries, SendSnapshot
  <2>2. PICK e \in RouterMsg : e.type = "Execute" /\ mailbox'[Router] = Append(mailbox[Router], e)
    BY <1>1, SendParts
  <2>3. UNCHANGED <<events, results>>
    BY <1>1, SendParts
  <2>4. e # Debug /\ InMail(Router)' = InMail(Router) \cup {e}
    <3>1. mailbox[Router] \in Seq(RouterMsg)
      BY ActorsApart DEF AllOK, MailboxOK
    <3>2. Range(Append(mailbox[Router], e)) = Range(mailbox[Router]) \cup {e}
      BY <3>1, AppendLemma
    <3> QED
      BY <2>2, <3>2 DEF Debug, InMail
  <2>5. EventsInv'
    BY <1>0, <2>3, <2>4 DEF EventsInv
  <2> QED
    BY <2>1, <2>5 DEF AnswersKnown
<1>2. CASE Recv \/ UNCHANGED vars
  <2>1. UNCHANGED <<sent, operations, snapshots, account, card, mailbox, results>>
    BY <1>2 DEF Recv, vars, routerVars, history
  <2>2. PlacesInv' /\ QueriesInv' /\ SnapshotInv'
    BY <1>0, <2>1, PlacesIdle, IdleQueries, IdleSnapshot
  <2>3. Len(events') <= Len(events) /\ Len(events) \in Nat /\ Len(events') \in Nat /\ Len(results) \in Nat
    <3>1. events \in Seq(ActorEvent) /\ results \in Seq(ActorEvent)
      BY DEF AllOK, EventsOK
    <3>2. CASE Recv
      <4>1. events # <<>> /\ events' = Tail(events)
        BY <3>2 DEF Recv
      <4> QED
        BY <3>1, <4>1
    <3>3. CASE UNCHANGED vars
      BY <3>1, <3>3 DEF vars
    <3> QED
      BY <1>2, <3>2, <3>3
  <2>4. EventsInv'
    BY <1>0, <2>1, <2>3 DEF EventsInv, InMail
  <2> QED
    BY <2>2, <2>4 DEF AnswersKnown
<1> QED
  BY <1>1, <1>2

\* Operations are only added.
LEMMA AloneBefore ==
  ASSUME AllOK, AllOK', Grows, Alone'
  PROVE  Alone
<1>1. Ops \subseteq Ops' /\ \A o \in Ops : Op'[o] = Op[o]
  BY DEF Grows
<1>2. \A o, p \in Ops : IsQuery(o) /\ IsQuery(p) => o = p
  BY <1>1 DEF Alone, IsQuery
<1>3. \A o, p \in Ops : IsSnapshot(o) /\ IsSnapshot(p) => o = p
  BY <1>1 DEF Alone, IsSnapshot
<1>4. Unreplaced
  BY CheckedBefore DEF Alone
<1>5. Len(sent) < EventCapacity
  <2>1. PICK k, n : k = Len(sent) /\ n = Len(sent')
    OBVIOUS
  <2>2. k \in Nat /\ n \in Nat /\ Ops = 1..k /\ Ops' = 1..n /\ n < EventCapacity
    BY <2>1 DEF AllOK, Ops, Alone
  <2>3. k <= n
    <3>1. CASE k = 0
      BY <2>2, <3>1
    <3>2. CASE k # 0
      <4>1. k \in 1..n
        BY <1>1, <2>2, <3>2
      <4> QED
        BY <2>2, <4>1
    <3> QED
      BY <3>1, <3>2
  <2> QED
    BY <2>1, <2>2, <2>3, CapacityAssumption
<1> QED
  BY <1>2, <1>3, <1>4, <1>5 DEF Alone

\* Every step of the database.
LEMMA NextAnswers ==
  ASSUME AllOK, OrderInv, AnswersInv, [Next]_vars
  PROVE  AnswersInv'
<1>1. AllOK' /\ Grows
  BY NextOK
<1> SUFFICES ASSUME Alone' PROVE AnswersKnown'
  BY DEF AnswersInv, AnswersKnown
<1>2. Alone /\ AnswersKnown /\ Unreplaced
  BY <1>1, AloneBefore DEF AnswersInv, AnswersKnown, Alone
<1>3. CASE UNCHANGED vars \/ Recv \/ Send
  BY <1>1, <1>2, <1>3, NodeAnswers
<1>4. CASE RouterStep
  <2>1. CASE RouterCompleted \/ RouterDebug \/ RouterSnapshot
    BY <1>1, <1>2, <2>1, RouterAnswers
  <2>2. ASSUME NEW o \in Ops,
               \/ ExecuteOnCard(o) \/ ExecuteLimitAccount(o) \/ ExecuteQuery(o)
               \/ ExecuteGetDatabase(o) \/ ExecuteReplaceDatabase(o)
        PROVE  AnswersKnown'
    <3>1. ~ExecuteReplaceDatabase(o)
      BY <1>2, NoReplaceState
    <3> QED
      BY <1>1, <1>2, <2>2, <3>1, ExecuteAnswers
  <2> QED
    BY <1>4, <2>1, <2>2 DEF RouterStep
<1>5. ASSUME NEW a \in Accounts, AccountStep(a) PROVE AnswersKnown'
  <2>1. ~AccountReplace(a)
    BY <1>2, NoReplaceState
  <2> QED
    BY <1>1, <1>2, <1>5, <2>1, AccountAnswers DEF AccountStep
<1>6. ASSUME NEW c \in Cards, CardStep(c) PROVE AnswersKnown'
  <2>1. ~CardReplace(c)
    BY <1>2, NoReplaceState
  <2> QED
    BY <1>1, <1>2, <1>6, <2>1, CardAnswers DEF CardStep
<1> QED
  BY <1>3, <1>4, <1>5, <1>6 DEF Next

\* Initially there is no operation.
LEMMA InitAnswers == Init => AnswersInv
<1> SUFFICES ASSUME Init PROVE AnswersKnown
  BY DEF AnswersInv, AnswersKnown
<1>1. Ops = {} /\ DOMAIN snapshots = {} /\ events = <<>> /\ results = <<>>
  BY DEF Init, Ops, EmptyMap
<1>2. \A y \in Actors : mailbox[y] = <<>> /\ InMail(y) = {}
  BY FewLemma DEF Init, InMail
<1>3. \A a \in Accounts : account[a].pending.op = 0
  BY DEF Init, NoQuery
<1>4. PlacesInv
  BY <1>1 DEF PlacesInv
<1>5. QueriesInv
  BY <1>1, <1>2, <1>3, ActorsApart DEF QueriesInv, AddressInv
<1>6. \A z \in Accounts \cup Cards : Collecting(z) /\ ~ToCollect(z) /\ ~Collected(z)
  BY <1>2, ActorsApart, FewLemma DEF Collecting, ToCollect, Collected
<1>7. SnapshotOf(Missing(Accounts), Missing(Cards))
  <2>1. Missing(Accounts) = {} /\ Missing(Cards) = {}
    BY <1>6 DEF Missing
  <2> QED
    BY <1>1, <2>1 DEF SnapshotOf
<1>8. SnapshotInv
  BY <1>6, <1>7, SnapshotParts
<1>9. EventsInv
  BY <1>1, <1>2, ActorsApart DEF EventsInv
<1> QED
  BY <1>4, <1>5, <1>8, <1>9 DEF AnswersKnown

\* As long as there is one query and one snapshot at most, no replacement of the
\* database and room for every event, each operation is in one place on its way to its
\* result, and whoever waits for reports counts the ones that are to come.
THEOREM AnswersOnTheirWay == Spec => []AnswersInv
<1>1. Init => AllOK /\ OrderInv /\ AnswersInv
  BY InitOK, InitOrder, InitAnswers
<1>2. AllOK /\ OrderInv /\ AnswersInv /\ [Next]_vars => (AllOK /\ OrderInv /\ AnswersInv)'
  BY NextOK, NextOrder, NextAnswers
<1> QED
  BY <1>1, <1>2, PTL DEF Spec

\* A set of operations of one element at most.
LEMMA OneOperation ==
  ASSUME AllOK, NEW S, S \subseteq Ops, Cardinality(S) <= 1, NEW o \in S, NEW p \in S
  PROVE  o = p
<1>1. IsFiniteSet(Ops)
  BY SeqLemma, FS_Interval DEF AllOK, Ops
<1>2. IsFiniteSet(S) /\ Cardinality(S) \in Nat /\ Cardinality(S \ {o}) = Cardinality(S) - 1
      /\ IsFiniteSet(S \ {o}) /\ Cardinality(S \ {o}) \in Nat
  BY <1>1, FS_Subset, FS_RemoveElement, FS_CardinalityType
<1>3. Cardinality(S \ {o}) = 0
  BY <1>2
<1>4. S \ {o} = {}
  BY <1>2, <1>3, FS_EmptySet
<1> QED
  BY <1>4

\* Without messages nobody waits.
LEMMA IdleAnswered ==
  ASSUME AllOK, OrderInv, AnswersKnown, \A x \in Actors : mailbox[x] = <<>>, NEW o \in Ops
  PROVE  Answered(o)
<1>0. \A x \in Actors : InMail(x) = {}
  BY FewLemma DEF InMail
<1>1. ~Carried(o)
  BY <1>0 DEF Carried
<1>2. ASSUME NEW c \in Cards, o \in Range(card[c].tasks) PROVE FALSE
  <2>1. card[c].tasks # <<>>
    BY <1>2, FewLemma
  <2>2. PICK p : p = Head(card[c].tasks)
    OBVIOUS
  <2>3. Asked(c, p) <=> ~Replied(c, p)
    BY <2>1, <2>2 DEF OrderInv, ServedInv
  <2> QED
    BY <1>0, <2>3, ActorsApart DEF Asked, Replied
<1>3. ASSUME NEW a \in Accounts, account[a].pending.op = o PROVE FALSE
  <2>1. o # 0
    BY DEF Ops
  <2>2. IsQuery(o) /\ Op[o].account = a
    BY <1>3, <2>1 DEF AnswersKnown, QueriesInv, AddressInv
  <2>3. Reporting(o) # {}
    BY <1>3, <2>2 DEF AnswersKnown, QueriesInv, QueryInv
  <2> QED
    BY <1>0, <2>2, <2>3, ActorsApart DEF Reporting, ToReport, Reported
<1>4. 0 \notin DOMAIN snapshots
  <2>1. Missing(Accounts \cup Cards) = {}
    BY <1>0, ActorsApart DEF Missing, ToCollect, Collected
  <2> QED
    BY <2>1 DEF AnswersKnown, SnapshotInv
<1>5. PlaceInv(o)
  BY DEF AnswersKnown, PlacesInv
<1> QED
  BY <1>1, <1>2, <1>3, <1>4, <1>5 DEF PlaceInv, Awaited

\* When the actors have nothing left to do, every operation that was sent has its
\* result, for any number of accounts, cards and operations.
THEOREM AnsweredAtLast == Spec => []AnsweredWhenIdle
<1>1. AllOK /\ OrderInv /\ AnswersInv => AnsweredWhenIdle
  <2> SUFFICES ASSUME AllOK, OrderInv, AnswersInv,
                      \A x \in Actors : mailbox[x] = <<>>,
                      Cardinality({o \in Ops : Op[o].kind \in {"AccountQuery", "Bill"}}) <= 1,
                      Cardinality({o \in Ops : Op[o].kind = "GetDatabase"}) <= 1,
                      ~HasKind("ReplaceDatabase"), Len(sent) < EventCapacity,
                      NEW o \in Ops
               PROVE  \E i \in 1..Len(results) : results[i].op = o
    BY DEF AnsweredWhenIdle
  <2>1. \A p, q \in Ops : IsQuery(p) /\ IsQuery(q) => p = q
    BY OneOperation DEF IsQuery
  <2>2. \A p, q \in Ops : IsSnapshot(p) /\ IsSnapshot(q) => p = q
    BY OneOperation DEF IsSnapshot
  <2>3. AnswersKnown
    BY <2>1, <2>2 DEF Alone, Unreplaced, AnswersInv, AnswersKnown
  <2>4. Answered(o)
    BY <2>3, IdleAnswered
  <2>5. DOMAIN results = 1..Len(results)
    BY SeqLemma DEF AllOK, EventsOK
  <2> QED
    BY <2>4, <2>5 DEF Answered, Range
<1> QED
  BY <1>1, DatabaseInvariance, AnswersOnTheirWay, PTL
=============================================================================
