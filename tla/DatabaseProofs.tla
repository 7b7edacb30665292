--------------------------- MODULE DatabaseProofs ---------------------------
(***************************************************************************)
(* Theorems about ActorDatabase for any number of accounts and cards, any  *)
(* operations and a channel of events of any capacity.  First, the         *)
(* operations of a card pass through the router, the card and its account  *)
(* in the order in which they were sent: OrderInv is inductive.            *)
(***************************************************************************)
EXTENDS DatabaseTypes, TLAPS

-----------------------------------------------------------------------------
(* Mailboxes that get no message of a kind *)

NoneNew(y, M) ==
  /\ InMail(y)' \cap M \subseteq InMail(y)
  /\ Ordered(mailbox[y], M) => Ordered(mailbox'[y], M)
  /\ AtMostOne(mailbox[y], M) => AtMostOne(mailbox'[y], M)

\* A step that sends actor y no message of M.
LEMMA NoneNewLemma ==
  ASSUME AllOK, NEW x, NEW new, Sends(x, new), NEW y \in Actors, NEW M,
         Range(Added(new, y)) \cap M = {}
  PROVE  /\ NoneNew(y, M)
         /\ y # x \/ Head(mailbox[x]) \notin M => InMail(y) \cap M \subseteq InMail(y)'
<1>2. TypeOK
  BY AllParts
<1>3. Ordered(Added(new, y), M) /\ AtMostOne(Added(new, y), M)
  BY DEF Ordered, AtMostOne, Range
<1>4. /\ InMail(y)' \subseteq InMail(y) \cup Range(Added(new, y))
      /\ InMail(y) \subseteq InMail(y)' \cup (IF y = x THEN {Head(mailbox[x])} ELSE {})
  BY <1>2, DeliverLemma
<1>5. AtMostOne(mailbox[y], M) => AtMostOne(mailbox'[y], M)
  BY <1>2, <1>3, DeliverLemma
<1>6. Ordered(mailbox[y], M) => Ordered(mailbox'[y], M)
  BY <1>2, <1>3, DeliverLemma
<1> QED
  BY <1>4, <1>5, <1>6 DEF NoneNew

\* What does not matter for the order.
Plain(m) == /\ m.type \notin {"Execute", "Task", "ApplyCharge", "AccountChargeReply"}
            /\ m.type = "OperationCompleted" => \A c \in Cards : ~OfCard(m.op, c)

\* Messages that are not about the tasks of a card.
LEMMA PlainLemma ==
  ASSUME NEW m, Plain(m)
  PROVE  /\ m \notin Executes /\ m \notin Tasks
         /\ \A c \in Cards : m \notin Completions(c)
         /\ \A o : m \notin AskOf(o) /\ m \notin RepliesTo(o)
<1>1. m \notin Executes /\ m \notin Tasks
  BY DEF Plain, Executes, Tasks
<1>2. \A c \in Cards : m \notin Completions(c)
  BY DEF Plain, Completions
<1>3. ASSUME NEW o PROVE m \notin AskOf(o) /\ m \notin RepliesTo(o)
  BY DEF Plain, AskOf, RepliesTo
<1> QED
  BY <1>1, <1>2, <1>3

\* Nothing new for card c.
Quiet(c) ==
  /\ NoneNew(c, Tasks) /\ NoneNew(Router, Completions(c))
  /\ \A o : NoneNew(Owner[c], AskOf(o)) /\ NoneNew(c, RepliesTo(o))

\* A step is quiet for a card when all it handles and sends is plain.
LEMMA QuietLemma ==
  ASSUME AllOK, NEW x, NEW new, Sends(x, new), NEW c \in Cards,
         \A y \in DOMAIN new : \A m \in Range(new[y]) : Plain(m)
  PROVE  Quiet(c) /\ NoneNew(Router, Executes)
<1>1. \A y : \A m \in Range(Added(new, y)) : Plain(m)
  BY FewLemma DEF Added
<1>2. /\ c \in Actors /\ Router \in Actors /\ Owner[c] \in Actors
  BY CardType
<1>3. NoneNew(c, Tasks)
  <2>1. Range(Added(new, c)) \cap Tasks = {}
    BY <1>1, PlainLemma
  <2> QED
    BY <1>2, <2>1, NoneNewLemma
<1>4. NoneNew(Router, Completions(c))
  <2>1. Range(Added(new, Router)) \cap Completions(c) = {}
    BY <1>1, PlainLemma
  <2> QED
    BY <1>2, <2>1, NoneNewLemma
<1>5. NoneNew(Router, Executes)
  <2>1. Range(Added(new, Router)) \cap Executes = {}
    BY <1>1, PlainLemma
  <2> QED
    BY <1>2, <2>1, NoneNewLemma
<1>6. ASSUME NEW o PROVE NoneNew(Owner[c], AskOf(o))
  <2>1. Range(Added(new, Owner[c])) \cap AskOf(o) = {}
    BY <1>1, PlainLemma
  <2> QED
    BY <1>2, <2>1, NoneNewLemma
<1>7. ASSUME NEW o PROVE NoneNew(c, RepliesTo(o))
  <2>1. Range(Added(new, c)) \cap RepliesTo(o) = {}
    BY <1>1, PlainLemma
  <2> QED
    BY <1>2, <2>1, NoneNewLemma
<1> QED
  BY <1>3, <1>4, <1>5, <1>6, <1>7 DEF Quiet

-----------------------------------------------------------------------------
(* What a step leaves alone *)

\* Operations are the same when none is sent.
LEMMA SameOps ==
  ASSUME sent' = sent
  PROVE  /\ Op' = Op /\ Ops' = Ops /\ Executes' = Executes /\ Tasks' = Tasks
         /\ \A o, c : (OfCard(o, c)' <=> OfCard(o, c)) /\ (ChargeOf(o, c)' <=> ChargeOf(o, c))
         /\ \A c : Completions(c)' = Completions(c)
         /\ \A kind : HasKind(kind)' <=> HasKind(kind)
<1>1. Op' = Op /\ Ops' = Ops
  BY DEF Op, Ops
<1>2. \A o, c : (OfCard(o, c)' <=> OfCard(o, c)) /\ (ChargeOf(o, c)' <=> ChargeOf(o, c))
  BY <1>1 DEF OfCard, ChargeOf
<1>3. \A c : Completions(c)' = Completions(c)
  BY <1>2 DEF Completions
<1>4. Executes' = Executes /\ Tasks' = Tasks
  BY DEF Executes, Tasks
<1>5. \A kind : HasKind(kind)' <=> HasKind(kind)
  BY <1>1 DEF HasKind
<1> QED
  BY <1>1, <1>2, <1>3, <1>4, <1>5

\* Nothing new for card c among the results.
NoResult(c) == \/ results' = results
               \/ \E r \in ActorEvent : results' = Append(results, r) /\ ~OfCard(r.op, c)

\* A step whose result is about no operation of card c.
LEMMA NoResultLemma ==
  ASSUME AllOK, NEW c, NoResult(c), NEW r \in Range(results'), OfCard(r.op, c)
  PROVE  r \in Range(results)
<1>1. results \in Seq(ActorEvent)
  BY DEF AllOK, EventsOK
<1>2. CASE results' = results
  BY <1>2
<1>3. CASE results' # results
  <2>1. PICK e \in ActorEvent : results' = Append(results, e) /\ ~OfCard(e.op, c)
    BY <1>3 DEF NoResult
  <2>2. Range(results') = Range(results) \cup {e}
    BY <1>1, <2>1, AppendLemma
  <2> QED
    BY <2>1, <2>2
<1> QED
  BY <1>2, <1>3

\* What is in the mailbox of the router.
LEMMA RouterMailType ==
  /\ AllOK => InMail(Router) \subseteq RouterMsg
  /\ AllOK' => InMail(Router)' \subseteq RouterMsg
<1>1. Letter(Router) = RouterMsg /\ Router \in Actors /\ Actors' = Actors /\ Letter(Router)' = Letter(Router)
  BY ActorsApart DEF Actors, Letter
<1>2. ASSUME AllOK PROVE InMail(Router) \subseteq RouterMsg
  BY <1>1, <1>2, SeqLemma DEF AllOK, MailboxOK, InMail
<1>3. ASSUME AllOK' PROVE InMail(Router)' \subseteq RouterMsg
  <2>1. mailbox'[Router] \in Seq(RouterMsg)
    BY <1>1, <1>3 DEF AllOK, MailboxOK
  <2> QED
    BY <2>1, SeqLemma DEF InMail
<1> QED
  BY <1>2, <1>3

\* Nothing is finished by a step without results and completions.
LEMMA FinishedFrame ==
  ASSUME AllOK, AllOK', sent' = sent, NEW c \in Cards, NoneNew(Router, Completions(c)), NoResult(c),
         NEW o, Finished(c, o)'
  PROVE  Finished(c, o)
<1>1. OfCard(o, c)
  BY SameOps DEF Finished
<1>2. ASSUME NEW m \in InMail(Router)', m.type = "OperationCompleted", m.op = o
      PROVE  m \in InMail(Router)
  BY <1>1, <1>2, RouterMailType DEF Completions, NoneNew
<1>3. ASSUME NEW r \in Range(results'), r.op = o PROVE r \in Range(results)
  BY <1>1, <1>3, NoResultLemma
<1> QED
  BY <1>1, <1>2, <1>3 DEF Finished

\* Nothing becomes pending by a step without asks and replies.
LEMMA PendingFrame ==
  ASSUME sent' = sent, NEW c, NEW o,
         ChargeOf(o, c) => NoneNew(Owner[c], AskOf(o)) /\ NoneNew(c, RepliesTo(o)),
         Pending(c, o)'
  PROVE  Pending(c, o)
<1>1. ChargeOf(o, c) /\ (Asked(c, o)' \/ Replied(c, o)')
  BY SameOps DEF Pending
<1>2. Asked(c, o)' => Asked(c, o)
  BY <1>1 DEF Asked, NoneNew
<1>3. Replied(c, o)' => Replied(c, o)
  BY <1>1 DEF Replied, NoneNew
<1> QED
  BY <1>1, <1>2, <1>3 DEF Pending

\* TasksInv is kept when tasks, what is finished and what is pending only shrink.
LEMMA TasksFrame ==
  ASSUME NEW c \in Cards, TasksInv(c), sent' = sent, card'[c].tasks = card[c].tasks,
         NoneNew(c, Tasks), \A o : Finished(c, o)' => Finished(c, o),
         \A o : Pending(c, o)' => Pending(c, o)
  PROVE  TasksInv(c)'
<1>1. Ops' = Ops /\ Tasks' = Tasks
  BY SameOps
<1>2. Ordered(mailbox'[c], Tasks) /\ InMail(c)' \cap Tasks \subseteq InMail(c) \cap Tasks
  BY DEF TasksInv, NoneNew
<1>3. Unreplaced' => Unreplaced
  BY SameOps DEF Unreplaced
<1> QED
  BY <1>1, <1>2, <1>3 DEF TasksInv

\* Card c, if it is busy, is busy with the same charge as before.
SameCurrent(c) == card'[c].tasks # <<>> =>
                    card[c].tasks # <<>> /\ Head(card'[c].tasks) = Head(card[c].tasks)

\* The ask for the charge o of card c, and the reply, are where they were.
Kept(c, o) == /\ NoneNew(Owner[c], AskOf(o)) /\ NoneNew(c, RepliesTo(o))
              /\ Asked(c, o) => Asked(c, o)'
              /\ Replied(c, o) => Replied(c, o)'

\* ServedInv is kept when the current task and what serves it are.
LEMMA ServedFrame ==
  ASSUME NEW c \in Cards, ServedInv(c), sent' = sent, SameCurrent(c),
         \A o : card[c].tasks # <<>> /\ o = Head(card[c].tasks) => Kept(c, o)
  PROVE  ServedInv(c)'
<1> SUFFICES ASSUME card'[c].tasks # <<>>, card[c].tasks # <<>> PROVE ServedInv(c)'
  BY DEF ServedInv, SameCurrent
<1>0. PICK o : o = Head(card[c].tasks) /\ o = Head(card'[c].tasks)
  BY DEF SameCurrent
<1>1. /\ NoneNew(Owner[c], AskOf(o)) /\ NoneNew(c, RepliesTo(o))
      /\ Asked(c, o) => Asked(c, o)'
      /\ Replied(c, o) => Replied(c, o)'
  BY <1>0 DEF Kept
<1>2. /\ ChargeOf(o, c) /\ AtMostOne(mailbox[Owner[c]], AskOf(o)) /\ AtMostOne(mailbox[c], RepliesTo(o))
      /\ Asked(c, o) <=> ~Replied(c, o)
  BY <1>0 DEF ServedInv
<1>3. ChargeOf(o, c)'
  BY <1>2, SameOps
<1>4. AtMostOne(mailbox'[Owner[c]], AskOf(o)) /\ AtMostOne(mailbox'[c], RepliesTo(o))
  BY <1>1, <1>2 DEF NoneNew
<1>5. Asked(c, o)' => Asked(c, o)
  BY <1>1 DEF Asked, NoneNew
<1>6. Replied(c, o)' => Replied(c, o)
  BY <1>1 DEF Replied, NoneNew
<1>7. Asked(c, o)' <=> ~Replied(c, o)'
  BY <1>1, <1>2, <1>5, <1>6
<1>8. AskOf(o)' = AskOf(o) /\ RepliesTo(o)' = RepliesTo(o)
  BY DEF AskOf, RepliesTo
<1>9. \A p : p = Head(card'[c].tasks) => p = o
  BY <1>0
<1> QED
  BY <1>3, <1>4, <1>7, <1>0 DEF ServedInv

\* ResultsInv is kept when nothing is completed.
LEMMA ResultsFrame ==
  ASSUME NEW c \in Cards, AllOK, ResultsInv(c), sent' = sent, NoneNew(Router, Completions(c)), NoResult(c)
  PROVE  ResultsInv(c)'
<1>0. /\ Completions(c)' = Completions(c)
      /\ \A o : OfCard(o, c)' <=> OfCard(o, c)
  BY SameOps
<1>1. Ordered(mailbox'[Router], Completions(c)) /\ InMail(Router)' \cap Completions(c) \subseteq InMail(Router)
  BY DEF ResultsInv, NoneNew
<1>2. results \in Seq(ActorEvent)
  BY DEF AllOK, EventsOK
<1>3. \A r \in Range(results') : OfCard(r.op, c) => r \in Range(results)
  BY NoResultLemma
<1>4. \A r \in Range(results') : \A m \in InMail(Router)' \cap Completions(c) :
        OfCard(r.op, c) => r.op < m.op
  BY <1>1, <1>3 DEF ResultsInv
<1>5. ASSUME NEW i \in DOMAIN results', NEW j \in DOMAIN results',
             i < j, OfCard(results'[i].op, c), OfCard(results'[j].op, c)
      PROVE  results'[i].op < results'[j].op
  <2>1. CASE results' = results
    BY <1>5, <2>1 DEF ResultsInv
  <2>2. CASE results' # results
    <3>1. PICK r \in ActorEvent : results' = Append(results, r) /\ ~OfCard(r.op, c)
      BY <2>2 DEF NoResult
    <3>2. PICK n \in Nat : n = Len(results) /\ DOMAIN results = 1..n
      BY <1>2, SeqLemma
    <3>3. /\ DOMAIN results' = 1..(n + 1) /\ results'[n + 1] = r
          /\ \A k \in 1..n : results'[k] = results[k]
      <4>1. results' \in Seq(ActorEvent) /\ Len(results') = n + 1 /\ results'[n + 1] = r
            /\ \A k \in 1..n : results'[k] = results[k]
        BY <1>2, <3>1, <3>2, AppendLemma
      <4> QED
        BY <4>1, SeqLemma
    <3>4. i # n + 1 /\ j # n + 1
      BY <1>5, <3>1, <3>3
    <3>5. i \in 1..n /\ j \in 1..n
      BY <3>3, <3>4
    <3> QED
      BY <1>5, <3>2, <3>3, <3>5 DEF ResultsInv
  <2> QED
    BY <2>1, <2>2
<1> QED
  BY <1>0, <1>1, <1>4, <1>5 DEF ResultsInv

\* A step that sends no message that matters and handles neither an ask nor a reply.
LEMMA ServedQuiet ==
  ASSUME AllOK, sent' = sent, NEW x, NEW new, Sends(x, new), NEW c \in Cards, ServedInv(c), Quiet(c),
         \A y \in DOMAIN new : \A m \in Range(new[y]) : Plain(m),
         card'[c].tasks = card[c].tasks,
         Head(mailbox[x]).type \notin {"ApplyCharge", "AccountChargeReply"}
  PROVE  ServedInv(c)'
<1>7. ASSUME NEW o PROVE (Asked(c, o) => Asked(c, o)') /\ (Replied(c, o) => Replied(c, o)')
  <2>1. c \in Actors /\ Owner[c] \in Actors
    BY CardType
  <2>2. Head(mailbox[x]) \notin AskOf(o) /\ Head(mailbox[x]) \notin RepliesTo(o)
    BY DEF AskOf, RepliesTo
  <2>3. \A y : \A m \in Range(Added(new, y)) : m \notin AskOf(o) /\ m \notin RepliesTo(o)
    BY FewLemma, PlainLemma DEF Added
  <2>4. InMail(Owner[c]) \cap AskOf(o) \subseteq InMail(Owner[c])'
    BY <2>1, <2>2, <2>3, NoneNewLemma
  <2>5. InMail(c) \cap RepliesTo(o) \subseteq InMail(c)'
    BY <2>1, <2>2, <2>3, NoneNewLemma
  <2> QED
    BY <2>4, <2>5 DEF Asked, Replied
<1>8. \A o : Kept(c, o)
  BY <1>7 DEF Quiet, Kept
<1> QED
  BY <1>8, ServedFrame DEF SameCurrent

\* A step that sends no message that matters and finishes no operation of card c.
LEMMA QuietStep ==
  ASSUME AllOK, AllOK', OrderInv, sent' = sent, NEW x, NEW new, Sends(x, new), NEW c \in Cards,
         \A y \in DOMAIN new : \A m \in Range(new[y]) : Plain(m),
         card'[c].tasks = card[c].tasks, NoResult(c),
         Head(mailbox[x]).type \notin {"ApplyCharge", "AccountChargeReply"}
  PROVE  TasksInv(c)' /\ ServedInv(c)' /\ ResultsInv(c)'
<1>1. Quiet(c)
  BY QuietLemma
<1>2. TasksInv(c) /\ ServedInv(c) /\ ResultsInv(c)
  BY DEF OrderInv
<1>3. ResultsInv(c)'
  BY <1>1, <1>2, ResultsFrame DEF Quiet
<1>4. \A o : Finished(c, o)' => Finished(c, o)
  BY <1>1, FinishedFrame DEF Quiet
<1>5. \A o : Pending(c, o)' => Pending(c, o)
  BY <1>1, PendingFrame DEF Quiet
<1>6. TasksInv(c)'
  BY <1>1, <1>2, <1>4, <1>5, TasksFrame DEF Quiet
<1>7. ServedInv(c)'
  BY <1>1, <1>2, ServedQuiet
<1> QED
  BY <1>3, <1>6, <1>7

\* A step after which the cards have the same replies.
Replies == {m \in CardMsg : m.type = "AccountChargeReply"}
Calm    == \A c \in Cards : InMail(c)' \cap Replies = InMail(c) \cap Replies

\* A step that neither handles nor sends a reply is calm.
LEMMA CalmLemma ==
  ASSUME AllOK, NEW x, NEW new, Sends(x, new), Head(mailbox[x]).type # "AccountChargeReply",
         \A y : \A m \in Range(Added(new, y)) : m.type # "AccountChargeReply"
  PROVE  Calm
<1> SUFFICES ASSUME NEW c \in Cards PROVE InMail(c)' \cap Replies = InMail(c) \cap Replies
  BY DEF Calm
<1>1. c \in Actors
  BY ActorsApart
<1>2. Range(Added(new, c)) \cap Replies = {} /\ Head(mailbox[x]) \notin Replies
  BY DEF Replies
<1> QED
  BY <1>1, <1>2, NoneNewLemma DEF NoneNew

\* The commands of the router, when it executes none and when it executes one.
LEMMA CommandsFrame ==
  ASSUME CommandsInv, NoneNew(Router, Executes), Executed' = Executed
  PROVE  CommandsInv'
BY DEF CommandsInv, NoneNew, Executes

\* The router executes its first command: the others are newer.
LEMMA CommandsExecute ==
  ASSUME AllOK, CommandsInv, NEW new, Sends(Router, new), Range(Added(new, Router)) \cap Executes = {},
         Head(mailbox[Router]).type = "Execute",
         Executed' \subseteq Executed \cup {Head(mailbox[Router]).op}
  PROVE  CommandsInv'
<1>1. Router \in Actors /\ mailbox[Router] # <<>> /\ Letter(Router) = RouterMsg
  BY ActorsApart DEF Sends
<1>2. Head(mailbox[Router]) \in Executes
  BY <1>1, HeadLemma DEF Executes
<1>3. NoneNew(Router, Executes)
  BY <1>1, NoneNewLemma
<1>4. TypeOK /\ Ordered(mailbox[Router], Executes)
  BY AllParts DEF CommandsInv
<1>5. \A m \in InMail(Router)' \cap Executes : Head(mailbox[Router]).op < m.op
  BY <1>2, <1>4, DeliverLemma
<1>6. Executes' = Executes
  BY DEF Executes
<1> QED
  BY <1>3, <1>4, <1>5, <1>6 DEF CommandsInv, NoneNew

\* A step that changes nothing that matters, apart from the commands of the router.
LEMMA QuietOrder ==
  ASSUME AllOK, AllOK', OrderInv, sent' = sent, NEW x, NEW new, Sends(x, new),
         \A y \in DOMAIN new : \A m \in Range(new[y]) : Plain(m),
         \A c \in Cards : card'[c].tasks = card[c].tasks /\ NoResult(c),
         Head(mailbox[x]).type \notin {"ApplyCharge", "AccountChargeReply"},
         \/ Executed' = Executed
         \/ /\ x = Router /\ Head(mailbox[Router]).type = "Execute"
            /\ Executed' \subseteq Executed \cup {Head(mailbox[Router]).op}
  PROVE  OrderInv' /\ Calm
<1>1. ASSUME NEW c \in Cards PROVE TasksInv(c)' /\ ServedInv(c)' /\ ResultsInv(c)'
  BY QuietStep
<1>2. CommandsInv
  BY DEF OrderInv
<1>3. Range(Added(new, Router)) \cap Executes = {}
  <2>1. \A m \in Range(Added(new, Router)) : Plain(m)
    BY FewLemma DEF Added
  <2> QED
    BY <2>1, PlainLemma
<1>4. Router \in Actors
  BY ActorsApart
<1>5. CommandsInv'
  <2>1. CASE Executed' = Executed
    BY <1>2, <1>3, <1>4, <2>1, NoneNewLemma, CommandsFrame
  <2>2. CASE Executed' # Executed
    BY <1>2, <1>3, <2>2, CommandsExecute
  <2> QED
    BY <2>1, <2>2
<1>6. Calm
  <2>1. \A y : \A m \in Range(Added(new, y)) : Plain(m)
    BY FewLemma DEF Added
  <2>2. \A y : \A m \in Range(Added(new, y)) : m.type # "AccountChargeReply"
    BY <2>1 DEF Plain
  <2> QED
    BY <2>2, CalmLemma
<1> QED
  BY <1>1, <1>5, <1>6 DEF OrderInv

\* Steps that send one message, and none.
LEMMA SendsOne ==
  ASSUME NEW x \in Actors, mailbox[x] # <<>>, NEW y, NEW m, Deliver(x, To(y, m))
  PROVE  /\ Sends(x, To(y, m))
         /\ Range(Added(To(y, m), y)) = {m} /\ \A z : z # y => Range(Added(To(y, m), z)) = {}
         /\ \A z \in DOMAIN To(y, m) : Range(To(y, m)[z]) = {m}
<1>1. DOMAIN To(y, m) = {y} /\ To(y, m)[y] = <<m>> /\ Range(<<m>>) = {m} /\ <<m>> \in Seq({m})
  BY ToLemma, FewLemma
<1>2. Sends(x, To(y, m))
  BY <1>1 DEF Sends
<1> QED
  BY <1>1, <1>2, FewLemma DEF Added

\* An actor that sends nothing.
LEMMA SendsNone ==
  ASSUME NEW x \in Actors, mailbox[x] # <<>>, Deliver(x, Nothing)
  PROVE  Sends(x, Nothing) /\ DOMAIN Nothing = {} /\ \A z : Range(Added(Nothing, z)) = {}
BY ToLemma, FewLemma DEF Sends, Added

\* An actor that sends one plain message keeps the order of all cards.
LEMMA QuietOne ==
  ASSUME AllOK, AllOK', OrderInv, sent' = sent, NEW x \in Actors, mailbox[x] # <<>>, NEW y, NEW m,
         Deliver(x, To(y, m)), Plain(m),
         \A c \in Cards : card'[c].tasks = card[c].tasks /\ NoResult(c),
         Head(mailbox[x]).type \notin {"ApplyCharge", "AccountChargeReply"},
         \/ Executed' = Executed
         \/ /\ x = Router /\ Head(mailbox[Router]).type = "Execute"
            /\ Executed' \subseteq Executed \cup {Head(mailbox[Router]).op}
  PROVE  OrderInv' /\ Calm
<1>1. PICK new : new = To(y, m)
  OBVIOUS
<1>2. Sends(x, new) /\ \A z \in DOMAIN new : \A k \in Range(new[z]) : Plain(k)
  BY <1>1, SendsOne
<1> QED
  BY <1>2, QuietOrder

\* The same for an actor that sends nothing.
LEMMA QuietNone ==
  ASSUME AllOK, AllOK', OrderInv, sent' = sent, NEW x \in Actors, mailbox[x] # <<>>,
         Deliver(x, Nothing),
         \A c \in Cards : card'[c].tasks = card[c].tasks /\ NoResult(c),
         Head(mailbox[x]).type \notin {"ApplyCharge", "AccountChargeReply"},
         \/ Executed' = Executed
         \/ /\ x = Router /\ Head(mailbox[Router]).type = "Execute"
            /\ Executed' \subseteq Executed \cup {Head(mailbox[Router]).op}
  PROVE  OrderInv' /\ Calm
<1>1. PICK new : new = Nothing
  OBVIOUS
<1>2. Sends(x, new) /\ \A z \in DOMAIN new : \A k \in Range(new[z]) : Plain(k)
  BY <1>1, SendsNone
<1> QED
  BY <1>2, QuietOrder

-----------------------------------------------------------------------------
(* The actions that do not matter for the order *)

\* A step that changes neither cards nor results.
LEMMA SameResults ==
  ASSUME UNCHANGED <<card, results>>
  PROVE  \A c \in Cards : card'[c].tasks = card[c].tasks /\ NoResult(c)
BY DEF NoResult

\* The result of an operation of the node itself.
LEMMA NodeResult ==
  ASSUME AllOK, AllOK', sent' = sent, NEW ok, NEW value, EmitResult(0, ok, value),
         operations'[0] \in Ops, Op[operations'[0]].kind \in {"GetDatabase", "ReplaceDatabase"}
  PROVE  \A c \in Cards : NoResult(c)
<1>1. PICK r : r = [type |-> "OperationResult", op |-> operations'[0], ok |-> ok, value |-> value]
  OBVIOUS
<1>2. r.op = operations'[0]
  BY <1>1
<1>3. results' = Append(results, r) \/ results' = results
  BY <1>1 DEF EmitResult
<1>4. \A c : ~OfCard(r.op, c)
  BY <1>2 DEF OfCard
<1>5. ASSUME results' = Append(results, r) PROVE r \in ActorEvent
  <2>1. results \in Seq(ActorEvent) /\ results' \in Seq(ActorEvent)
    BY DEF AllOK, EventsOK
  <2>2. PICK T : T = ActorEvent \cup {r}
    OBVIOUS
  <2>3. results \in Seq(T) /\ r \in T
    BY <2>1, <2>2, SeqMonotonic
  <2>4. r \in Range(results')
    BY <1>5, <2>3, AppendLemma
  <2> QED
    BY <2>1, <2>4, SeqLemma
<1> QED
  BY <1>3, <1>4, <1>5 DEF NoResult

\* Handler<RouterInternalMsg>: Debug.
LEMMA RouterDebugOrder ==
  ASSUME AllOK, AllOK', OrderInv, RouterDebug
  PROVE  OrderInv' /\ Calm
<1>1. /\ mailbox[Router] # <<>> /\ Head(mailbox[Router]).type = "Debug" /\ Deliver(Router, Nothing)
      /\ UNCHANGED <<sent, operations, card, results>> /\ Router \in Actors
  BY ActorsApart DEF RouterDebug, HasMail, EmitDebug, routerVars
<1>2. Executed' = Executed
  BY <1>1 DEF Executed
<1> QED
  BY <1>1, <1>2, SameResults, QuietNone

\* Handler<RouterInternalMsg>: the fragments of a snapshot.
LEMMA RouterSnapshotOrder ==
  ASSUME AllOK, AllOK', OrderInv, RouterSnapshot
  PROVE  OrderInv' /\ Calm
<1>1. /\ mailbox[Router] # <<>> /\ Deliver(Router, Nothing) /\ Router \in Actors
      /\ Head(mailbox[Router]).type \in {"AccountSnapshotCollected", "CardSnapshotCollected"}
      /\ UNCHANGED <<sent, operations, card>>
  BY ActorsApart DEF RouterSnapshot, HasMail
<1>2. Executed' = Executed
  BY <1>1 DEF Executed
<1>3. \A c \in Cards : NoResult(c)
  <2>1. CASE results' = results
    BY <2>1 DEF NoResult
  <2>2. CASE results' # results
    <3>1. 0 \in DOMAIN snapshots /\ \E value : EmitResult(0, TRUE, value)
      BY <2>2 DEF RouterSnapshot, EmitDebug
    <3>2. 0 \in DOMAIN operations /\ RouterInv /\ operations[0] \in Ops
      BY <3>1 DEF AllOK, RouterOK, RouterInv
    <3>3. operations'[0] \in Ops /\ Op[operations'[0]].kind \in {"GetDatabase", "ReplaceDatabase"}
      BY <1>1, <3>2 DEF RouterInv
    <3> QED
      BY <1>1, <3>1, <3>3, NodeResult
  <2> QED
    BY <2>1, <2>2
<1>4. \A c \in Cards : card'[c].tasks = card[c].tasks /\ NoResult(c)
  BY <1>1, <1>3
<1> QED
  BY <1>1, <1>2, <1>4, QuietNone

\* ApplyAccountLimit.
LEMMA AccountLimitOrder ==
  ASSUME AllOK, AllOK', OrderInv, NEW a \in Accounts, AccountLimit(a)
  PROVE  OrderInv' /\ Calm
<1>0. PICK o : o = Head(mailbox[a]).op
  OBVIOUS
<1>m. PICK m : m = Completed(o, Within(account[a].consumed, Op[o].limit))
  OBVIOUS
<1>1. /\ mailbox[a] # <<>> /\ Head(mailbox[a]).type = "ApplyAccountLimit" /\ a \in Actors
      /\ Deliver(a, To(Router, m)) /\ UNCHANGED <<sent, operations, card, results>> /\ a # Router
  BY <1>0, <1>m, ActorsApart DEF AccountLimit, HasMail, routerVars
<1>2. Executed' = Executed
  BY <1>1 DEF Executed
<1>3. Op[o].kind = "LimitAccount"
  <2>1. AccountMail(a, Head(mailbox[a]))
    BY <1>1, HeadLemma DEF Good
  <2> QED
    BY <1>0, <1>1, <2>1 DEF AccountMail
<1>4. Plain(m)
  BY <1>3, <1>m DEF Plain, Completed, OfCard
<1> QED
  BY <1>1, <1>2, <1>4, SameResults, QuietOne

\* StartAccountQuery and StartAccountBill.
LEMMA AccountStartOrder ==
  ASSUME AllOK, AllOK', OrderInv, NEW a \in Accounts, AccountStart(a)
  PROVE  OrderInv' /\ Calm
<1>0. PICK m, q : /\ m = Head(mailbox[a])
                  /\ q = QueryDone(m.op, <<>>, account[a].consumed)
  OBVIOUS
<1>1. /\ mailbox[a] # <<>> /\ Head(mailbox[a]).type = "Start" /\ a \in Actors /\ a # Router
      /\ Deliver(a, To(Router, q)) \/ Deliver(a, Nothing)
      /\ UNCHANGED <<sent, operations, card, results>>
  BY <1>0, ActorsApart DEF AccountStart, HasMail, routerVars, history
<1>2. Executed' = Executed
  BY <1>1 DEF Executed
<1>3. Plain(q)
  BY <1>0 DEF Plain, QueryDone
<1>4. CASE Deliver(a, To(Router, q))
  BY <1>1, <1>2, <1>3, <1>4, SameResults, QuietOne
<1>5. CASE Deliver(a, Nothing)
  BY <1>1, <1>2, <1>5, SameResults, QuietNone
<1> QED
  BY <1>1, <1>4, <1>5

\* CardQueryReply.
LEMMA AccountQueryReplyOrder ==
  ASSUME AllOK, AllOK', OrderInv, NEW a \in Accounts, AccountQueryReply(a)
  PROVE  OrderInv' /\ Calm
<1>0. PICK m, spent : /\ m = Head(mailbox[a])
                  /\ spent = Append(account[a].pending.spent, [card |-> m.card, consumed |-> m.consumed])
  OBVIOUS
<1>q. PICK q : q = QueryDone(m.op, spent, Total(spent))
  OBVIOUS
<1>1. /\ mailbox[a] # <<>> /\ Head(mailbox[a]).type = "CardQueryReply" /\ a \in Actors /\ a # Router
      /\ \/ Deliver(a, To(Router, q)) \/ Deliver(a, To(Router, Debug)) \/ Deliver(a, Nothing)
      /\ UNCHANGED <<sent, operations, card, results>>
  BY <1>0, <1>q, ActorsApart DEF AccountQueryReply, HasMail, routerVars, history
<1>2. Executed' = Executed
  BY <1>1 DEF Executed
<1>3. Plain(q) /\ Plain(Debug)
  BY <1>q DEF Plain, QueryDone, Debug
<1>4. CASE Deliver(a, To(Router, q)) \/ Deliver(a, To(Router, Debug))
  BY <1>1, <1>2, <1>3, <1>4, SameResults, QuietOne
<1>5. CASE Deliver(a, Nothing)
  BY <1>1, <1>2, <1>5, SameResults, QuietNone
<1> QED
  BY <1>1, <1>4, <1>5

\* GetSnapshot of an account.
LEMMA AccountSnapshotOrder ==
  ASSUME AllOK, AllOK', OrderInv, NEW a \in Accounts, AccountSnapshot(a)
  PROVE  OrderInv' /\ Calm
<1>m. PICK m : m = [type |-> "AccountSnapshotCollected",
                    fragment |-> [account |-> a, limit |-> account[a].limit,
                                  consumed |-> account[a].consumed]]
  OBVIOUS
<1>1. /\ mailbox[a] # <<>> /\ Head(mailbox[a]).type = "GetSnapshot" /\ a \in Actors /\ a # Router
      /\ Deliver(a, To(Router, m)) /\ UNCHANGED <<sent, operations, card, results>>
  BY <1>m, ActorsApart DEF AccountSnapshot, HasMail, routerVars, history
<1>2. Executed' = Executed
  BY <1>1 DEF Executed
<1>3. Plain(m)
  BY <1>m DEF Plain
<1> QED
  BY <1>1, <1>2, <1>3, SameResults, QuietOne

\* ReplaceState of an account.
LEMMA AccountReplaceOrder ==
  ASSUME AllOK, AllOK', OrderInv, NEW a \in Accounts, AccountReplace(a)
  PROVE  OrderInv' /\ Calm
<1>1. /\ mailbox[a] # <<>> /\ Head(mailbox[a]).type = "ReplaceState" /\ a \in Actors /\ a # Router
      /\ Deliver(a, Nothing) /\ UNCHANGED <<sent, operations, card, results>>
  BY ActorsApart DEF AccountReplace, HasMail, routerVars, history
<1>2. Executed' = Executed
  BY <1>1 DEF Executed
<1> QED
  BY <1>1, <1>2, SameResults, QuietNone

\* QueryCardState: the tasks of the card go on.
LEMMA CardQueryOrder ==
  ASSUME AllOK, AllOK', OrderInv, NEW c \in Cards, CardQuery(c)
  PROVE  OrderInv' /\ Calm
<1>m. PICK o, m : /\ o = Head(mailbox[c]).op
                  /\ m = [type |-> "CardQueryReply", op |-> o, card |-> c, consumed |-> card[c].consumed]
  OBVIOUS
<1>1. /\ mailbox[c] # <<>> /\ Head(mailbox[c]).type = "QueryCardState" /\ c \in Actors /\ c # Router
      /\ Deliver(c, To(Owner[c], m)) /\ UNCHANGED <<sent, operations, results>>
      /\ card' = card \/ card' = [card EXCEPT ![c].consumed = 0]
  BY <1>m, ActorsApart DEF CardQuery, HasMail, routerVars, history
<1>2. Executed' = Executed
  BY <1>1 DEF Executed
<1>3. Plain(m)
  BY <1>m DEF Plain
<1>4. \A d \in Cards : card'[d].tasks = card[d].tasks /\ NoResult(d)
  <2>1. \A d \in Cards : NoResult(d)
    BY <1>1 DEF NoResult
  <2>2. CASE card' = card
    BY <2>1, <2>2
  <2>3. CASE card' = [card EXCEPT ![c].consumed = 0]
    <3>1. card' = [card EXCEPT ![c] = [limit |-> card[c].limit, consumed |-> 0, tasks |-> card[c].tasks]]
      BY <2>3, CardExcept
    <3>2. DOMAIN card = Cards
      BY DEF AllOK, CardsOK
    <3> QED
      BY <2>1, <3>1, <3>2
  <2> QED
    BY <1>1, <2>2, <2>3
<1> QED
  BY <1>1, <1>2, <1>3, <1>4, QuietOne

\* GetSnapshot of a card.
LEMMA CardSnapshotOrder ==
  ASSUME AllOK, AllOK', OrderInv, NEW c \in Cards, CardSnapshot(c)
  PROVE  OrderInv' /\ Calm
<1>m. PICK m : m = [type |-> "CardSnapshotCollected",
                    fragment |-> [card |-> c, limit |-> card[c].limit, consumed |-> card[c].consumed]]
  OBVIOUS
<1>1. /\ mailbox[c] # <<>> /\ Head(mailbox[c]).type = "GetSnapshot" /\ c \in Actors /\ c # Router
      /\ Deliver(c, To(Router, m)) /\ UNCHANGED <<sent, operations, card, results>>
  BY <1>m, ActorsApart DEF CardSnapshot, HasMail, routerVars, history
<1>2. Executed' = Executed
  BY <1>1 DEF Executed
<1>3. Plain(m)
  BY <1>m DEF Plain
<1> QED
  BY <1>1, <1>2, <1>3, SameResults, QuietOne

\* The router executes an operation.
LEMMA ExecuteParts ==
  ASSUME AllOK, NEW o, NEW kinds, Execute(o, kinds), sent' = sent
  PROVE  /\ mailbox[Router] # <<>> /\ Router \in Actors
         /\ Head(mailbox[Router]).type = "Execute" /\ o \in Ops
         /\ Head(mailbox[Router]).op = o
         /\ Executed' \subseteq Executed \cup {Head(mailbox[Router]).op}
         /\ Op[o].kind \in {"GetDatabase", "ReplaceDatabase"} =>
              operations'[0] \in Ops /\ Op[operations'[0]].kind \in {"GetDatabase", "ReplaceDatabase"}
<1>1. /\ o \in Ops /\ mailbox[Router] # <<>> /\ Router \in Actors
      /\ Head(mailbox[Router]).type = "Execute" /\ Head(mailbox[Router]).op = o
      /\ Op[o].kind \notin {"GetDatabase", "ReplaceDatabase"} => Executed' = Executed \cup {o}
      /\ Op[o].kind \in {"GetDatabase", "ReplaceDatabase"} =>
           Executed' = Executed /\ 0 \in DOMAIN operations' /\ operations'[0] = o
  BY ExecuteLemma
<1> QED
  BY <1>1

\* Handler<RouterCmd>: LimitAccount.
LEMMA ExecuteLimitAccountOrder ==
  ASSUME AllOK, AllOK', OrderInv, NEW o, ExecuteLimitAccount(o)
  PROVE  OrderInv' /\ Calm
<1>m. PICK m : m = [type |-> "ApplyAccountLimit", op |-> o]
  OBVIOUS
<1>1. /\ Execute(o, {"LimitAccount"}) /\ Deliver(Router, To(Op[o].account, m))
      /\ UNCHANGED <<sent, card, results>>
  BY <1>m DEF ExecuteLimitAccount, history
<1>2. Plain(m)
  BY <1>m DEF Plain
<1>3. /\ mailbox[Router] # <<>> /\ Router \in Actors /\ Head(mailbox[Router]).type = "Execute"
      /\ Executed' \subseteq Executed \cup {Head(mailbox[Router]).op}
  BY <1>1, ExecuteParts
<1> QED
  BY <1>1, <1>2, <1>3, SameResults, QuietOne

\* Handler<RouterCmd>: AccountQuery and Bill.
LEMMA ExecuteQueryOrder ==
  ASSUME AllOK, AllOK', OrderInv, NEW o, ExecuteQuery(o)
  PROVE  OrderInv' /\ Calm
<1>0. PICK a, mine : a = Op[o].account /\ mine = {c \in cards : Owner[c] = a}
  OBVIOUS
<1>m. PICK m, q : /\ m = [type |-> "Start", op |-> o, num_cards |-> Cardinality(mine)]
                  /\ q = [type |-> "QueryCardState", op |-> o]
  OBVIOUS
<1>n. PICK new : new = [y \in {a} \cup mine |-> IF y = a THEN <<m>> ELSE <<q>>]
  OBVIOUS
<1>1. /\ Execute(o, {"AccountQuery", "Bill"}) /\ Deliver(Router, new)
      /\ UNCHANGED <<sent, card, results>>
  BY <1>0, <1>m, <1>n DEF ExecuteQuery, history
<1>2. Plain(m) /\ Plain(q)
  BY <1>m DEF Plain
<1>3. /\ mailbox[Router] # <<>> /\ Router \in Actors /\ Head(mailbox[Router]).type = "Execute"
      /\ Executed' \subseteq Executed \cup {Head(mailbox[Router]).op}
  BY <1>1, ExecuteParts
<1>4. ASSUME NEW y \in DOMAIN new
      PROVE  new[y] \in Seq(Range(new[y])) /\ \A k \in Range(new[y]) : Plain(k)
  <2>1. PICK k : new[y] = <<k>> /\ Plain(k)
    BY <1>2, <1>n
  <2>2. Range(<<k>>) = {k} /\ <<k>> \in Seq({k})
    BY FewLemma
  <2> QED
    BY <2>1, <2>2
<1>5. Sends(Router, new)
  BY <1>1, <1>3, <1>4 DEF Sends
<1> QED
  BY <1>1, <1>3, <1>4, <1>5, SameResults, QuietOrder

\* Handler<RouterCmd>: GetDatabase.
LEMMA ExecuteGetDatabaseOrder ==
  ASSUME AllOK, AllOK', OrderInv, NEW o, ExecuteGetDatabase(o)
  PROVE  OrderInv' /\ Calm
<1>m. PICK m, new : m = [type |-> "GetSnapshot", op |-> o] /\ new = OneEach(accounts \cup cards, m)
  OBVIOUS
<1>1. /\ Execute(o, {"GetDatabase"}) /\ UNCHANGED <<sent, card>>
      /\ \/ Deliver(Router, Nothing) /\ EmitResult(0, TRUE, [accounts |-> <<>>, cards |-> <<>>])
         \/ Deliver(Router, new) /\ results' = results
  BY <1>m DEF ExecuteGetDatabase
<1>2. Plain(m)
  BY <1>m DEF Plain
<1>3. /\ mailbox[Router] # <<>> /\ Router \in Actors /\ Head(mailbox[Router]).type = "Execute"
      /\ Executed' \subseteq Executed \cup {Head(mailbox[Router]).op}
      /\ operations'[0] \in Ops /\ Op[operations'[0]].kind \in {"GetDatabase", "ReplaceDatabase"}
  <2>1. Op[o].kind \in {"GetDatabase", "ReplaceDatabase"}
    BY <1>1 DEF Execute
  <2> QED
    BY <1>1, <2>1, ExecuteParts
<1>4. CASE Deliver(Router, Nothing) /\ EmitResult(0, TRUE, [accounts |-> <<>>, cards |-> <<>>])
  <2>1. PICK value : value = [accounts |-> <<>>, cards |-> <<>>]
    OBVIOUS
  <2>2. \A c \in Cards : NoResult(c)
    BY <1>1, <1>3, <1>4, <2>1, NodeResult
  <2> QED
    BY <1>1, <1>3, <1>4, <2>2, QuietNone
<1>5. CASE Deliver(Router, new) /\ results' = results
  <2>1. Range(<<m>>) = {m} /\ <<m>> \in Seq({m})
    BY FewLemma
  <2>2. \A y \in DOMAIN new : new[y] = <<m>>
    BY <1>m DEF OneEach
  <2>3. Sends(Router, new) /\ \A y \in DOMAIN new : \A k \in Range(new[y]) : Plain(k)
    BY <1>2, <1>3, <1>5, <2>1, <2>2 DEF Sends
  <2>4. \A c \in Cards : card'[c].tasks = card[c].tasks /\ NoResult(c)
    BY <1>1, <1>5, SameResults
  <2> QED
    BY <1>1, <1>3, <2>3, <2>4, QuietOrder
<1> QED
  BY <1>1, <1>4, <1>5

\* Handler<RouterCmd>: ReplaceDatabase.
LEMMA ExecuteReplaceDatabaseOrder ==
  ASSUME AllOK, AllOK', OrderInv, NEW o, ExecuteReplaceDatabase(o)
  PROVE  OrderInv' /\ Calm
<1> DEFINE Part(y) == IF y \in Accounts THEN CHOOSE s \in Op[o].accounts : s.account = y
                                        ELSE CHOOSE s \in Op[o].cards : s.card = y
           Letters(y) == [type |-> "ReplaceState", limit |-> Part(y).limit, consumed |-> Part(y).consumed]
           S == {s.account : s \in Op[o].accounts} \cup {s.card : s \in Op[o].cards}
<1>n. PICK new : new = [y \in S |-> <<Letters(y)>>]
  OBVIOUS
<1>1. /\ Execute(o, {"ReplaceDatabase"}) /\ UNCHANGED <<sent, card>> /\ Deliver(Router, new)
      /\ EmitResult(0, TRUE, <<>>)
  BY <1>n DEF ExecuteReplaceDatabase
<1>2. /\ mailbox[Router] # <<>> /\ Router \in Actors /\ Head(mailbox[Router]).type = "Execute"
      /\ Executed' \subseteq Executed \cup {Head(mailbox[Router]).op}
      /\ operations'[0] \in Ops /\ Op[operations'[0]].kind \in {"GetDatabase", "ReplaceDatabase"}
  <2>1. Op[o].kind \in {"GetDatabase", "ReplaceDatabase"}
    BY <1>1 DEF Execute
  <2> QED
    BY <1>1, <2>1, ExecuteParts
<1>3. \A y : Plain(Letters(y))
  BY DEF Plain
<1> HIDE DEF Letters, S
<1>4. ASSUME NEW y \in DOMAIN new
      PROVE  new[y] \in Seq(Range(new[y])) /\ \A k \in Range(new[y]) : Plain(k)
  <2>1. PICK k : new[y] = <<k>> /\ Plain(k)
    BY <1>3, <1>n
  <2>2. Range(<<k>>) = {k} /\ <<k>> \in Seq({k})
    BY FewLemma
  <2> QED
    BY <2>1, <2>2
<1>5. Sends(Router, new)
  BY <1>1, <1>2, <1>4 DEF Sends
<1>6. \A c \in Cards : NoResult(c)
  BY <1>1, <1>2, NodeResult
<1> QED
  BY <1>1, <1>2, <1>4, <1>5, <1>6, QuietOrder

-----------------------------------------------------------------------------
(* The actions that matter *)

\* A step that changes no card, mailbox or result.
LEMMA IdleOrder ==
  ASSUME OrderInv, UNCHANGED <<sent, operations, card, mailbox, results>>
  PROVE  OrderInv' /\ Calm
<1>1. /\ Ops' = Ops /\ Executed' = Executed /\ Executes' = Executes /\ Tasks' = Tasks
      /\ \A o, c : (OfCard(o, c)' <=> OfCard(o, c)) /\ (ChargeOf(o, c)' <=> ChargeOf(o, c))
      /\ \A c : Completions(c)' = Completions(c)
  BY SameOps DEF Executed
<1>2. \A y : InMail(y)' = InMail(y)
  BY DEF InMail
<1>3. \A c, o : (Finished(c, o)' <=> Finished(c, o)) /\ (Pending(c, o)' <=> Pending(c, o))
  BY <1>1, <1>2 DEF Finished, Pending, Asked, Replied
<1>4. ASSUME NEW c \in Cards PROVE TasksInv(c)' /\ ServedInv(c)' /\ ResultsInv(c)'
  <2>1. TasksInv(c) /\ ServedInv(c) /\ ResultsInv(c)
    BY DEF OrderInv
  <2>u. Unreplaced' => Unreplaced
    BY SameOps DEF Unreplaced
  <2>2. TasksInv(c)'
    BY <1>1, <1>2, <1>3, <2>1, <2>u DEF TasksInv
  <2>3. ServedInv(c)'
    BY <1>1, <1>2, <2>1 DEF ServedInv, Asked, Replied
  <2>4. ResultsInv(c)'
    BY <1>1, <1>2, <2>1 DEF ResultsInv
  <2> QED
    BY <2>2, <2>3, <2>4
<1>5. CommandsInv'
  BY <1>1, <1>2 DEF OrderInv, CommandsInv
<1>6. Calm
  BY <1>2 DEF Calm
<1> QED
  BY <1>4, <1>5, <1>6 DEF OrderInv

\* Database::send: the new command is the newest.
LEMMA SendOrder ==
  ASSUME AllOK, AllOK', Grows, OrderInv, Send
  PROVE  OrderInv' /\ Calm
<1>0. PICK n, e : n = Len(sent) + 1 /\ e = [type |-> "Execute", op |-> n]
  OBVIOUS
<1>1. /\ mailbox' = [mailbox EXCEPT ![Router] = Append(mailbox[Router], e)]
      /\ UNCHANGED <<operations, card, results>>
  BY <1>0 DEF Send, routerVars
<1>2. /\ Router \in Actors /\ DOMAIN mailbox = Actors /\ mailbox[Router] \in Seq(RouterMsg)
      /\ \A c \in Cards : /\ c \in Actors /\ c # Router
                          /\ Owner[c] \in Actors /\ Owner[c] # Router
  BY ActorsApart DEF AllOK, MailboxOK
<1>3. \A y \in Actors : y # Router => mailbox'[y] = mailbox[y] /\ InMail(y)' = InMail(y)
  BY <1>1, <1>2 DEF InMail
<1>4. Len(sent) \in Nat /\ Ops = 1..Len(sent) /\ n \in Nat
  BY <1>0, SeqLemma DEF AllOK, Ops
<1>5. e \in RouterMsg /\ e.type = "Execute" /\ e.op = n
  BY <1>0, <1>4, MakeMessages
<1>6. /\ mailbox'[Router] = mailbox[Router] \o <<e>> /\ InMail(Router)' = InMail(Router) \cup {e}
      /\ <<e>> \in Seq(RouterMsg) /\ Range(<<e>>) = {e}
  <2>1. Append(mailbox[Router], e) = mailbox[Router] \o <<e>>
    BY <1>2, <1>5
  <2>2. <<e>> \in Seq(RouterMsg) /\ Range(<<e>>) = {e}
    BY <1>5, FewLemma
  <2>3. mailbox'[Router] = mailbox[Router] \o <<e>>
    BY <1>1, <1>2, <2>1
  <2>4. Range(mailbox[Router] \o <<e>>) = Range(mailbox[Router]) \cup Range(<<e>>)
    <3>1. PICK b, t, T : /\ b = mailbox[Router] /\ t = <<e>> /\ T = RouterMsg
                         /\ b \in Seq(T) /\ t \in Seq(T)
      BY <1>2, <2>2
    <3>2. b \in Seq(T) /\ t \in Seq(T)
      BY <3>1
    <3>3. Range(b \o t) = Range(b) \cup Range(t)
      BY <3>2, ConcatLemma
    <3> QED
      BY <3>1, <3>3
  <2> QED
    BY <2>2, <2>3, <2>4 DEF InMail
<1>7. \A M : /\ Ordered(mailbox[Router], M)
             /\ \A m \in InMail(Router) \cap M : e \in M => m.op < n
             => Ordered(mailbox'[Router], M)
  <2> SUFFICES ASSUME NEW M, Ordered(mailbox[Router], M),
                      \A m \in InMail(Router) \cap M : e \in M => m.op < n
               PROVE  Ordered(mailbox'[Router], M)
    OBVIOUS
  <2>1. Ordered(<<e>>, M)
    BY FewLemma
  <2>2. \A m \in Range(mailbox[Router]) \cap M, k \in Range(<<e>>) \cap M : m.op < k.op
    BY <1>5, <1>6 DEF InMail
  <2>3. Ordered(mailbox[Router] \o <<e>>, M)
    BY <1>2, <1>6, <2>1, <2>2, ConcatLemma
  <2> QED
    BY <1>6, <2>3
<1>8. Executed' = Executed /\ Executed \subseteq Ops /\ Executes' = Executes /\ Tasks' = Tasks
  BY <1>1, GrowsLemma DEF Executed, Executes, Tasks
<1>9. /\ \A o \in Ops : \A c : (OfCard(o, c)' <=> OfCard(o, c)) /\ (ChargeOf(o, c)' <=> ChargeOf(o, c))
      /\ Ops \subseteq Ops'
  BY DEF Grows, OfCard, ChargeOf
<1>10. CommandsInv'
  <2>1. CommandsInv
    BY DEF OrderInv
  <2>2. \A m \in InMail(Router) \cap Executes : m.op \in Ops
    <3>1. \A m \in InMail(Router) : RouterMail(m)
      BY <1>2 DEF AllOK, MailboxOK, Good
    <3> QED
      BY <3>1 DEF RouterMail, Executes
  <2>3. \A o \in Ops : o < n
    BY <1>0, <1>4
  <2>4. Ordered(mailbox'[Router], Executes)
    BY <1>7, <2>1, <2>2, <2>3 DEF CommandsInv
  <2>5. ASSUME NEW m \in InMail(Router)' \cap Executes, NEW k \in Executed PROVE k < m.op
    BY <1>5, <1>6, <1>8, <2>1, <2>3 DEF CommandsInv
  <2> QED
    BY <1>8, <2>4, <2>5 DEF CommandsInv
<1>11. ASSUME NEW c \in Cards PROVE TasksInv(c)' /\ ServedInv(c)' /\ ResultsInv(c)'
  <2>1. TasksInv(c) /\ ServedInv(c) /\ ResultsInv(c) /\ c \in Actors /\ c # Router
        /\ Owner[c] \in Actors /\ Owner[c] # Router
    BY <1>2 DEF OrderInv
  <2>2. /\ mailbox'[c] = mailbox[c] /\ InMail(c)' = InMail(c)
        /\ mailbox'[Owner[c]] = mailbox[Owner[c]] /\ InMail(Owner[c])' = InMail(Owner[c])
        /\ card'[c].tasks = card[c].tasks
    BY <1>1, <1>3, <2>1
  <2>3. \A o : (Asked(c, o)' <=> Asked(c, o)) /\ (Replied(c, o)' <=> Replied(c, o))
    BY <2>2 DEF Asked, Replied, AskOf, RepliesTo
  <2>4. ASSUME NEW o, Pending(c, o)' PROVE Pending(c, o)
    <3>1. Asked(c, o) \/ Replied(c, o)
      BY <2>3, <2>4 DEF Pending
    <3>2. ASSUME Asked(c, o) PROVE o \in Ops
      <4>1. PICK m \in InMail(Owner[c]) : m \in AskOf(o)
        BY <3>2 DEF Asked
      <4>2. m.type = "ApplyCharge" /\ m.op = o
        BY <4>1 DEF AskOf
      <4>3. Owner[c] \in Accounts
        BY CardType
      <4>4. AccountMail(Owner[c], m)
        BY <2>1, <4>1, <4>3 DEF AllOK, MailboxOK, Good
      <4> QED
        BY <1>8, <4>2, <4>4 DEF AccountMail
    <3>3. ASSUME Replied(c, o) PROVE o \in Ops
      <4>1. PICK m \in InMail(c) : m \in RepliesTo(o)
        BY <3>3 DEF Replied
      <4>2. m.type = "AccountChargeReply" /\ m.op = o
        BY <4>1 DEF RepliesTo
      <4>3. c \notin Accounts
        BY CardType
      <4>4. CardMail(c, m)
        BY <2>1, <4>1, <4>3 DEF AllOK, MailboxOK, Good
      <4> QED
        BY <1>8, <4>2, <4>4 DEF CardMail
    <3>4. o \in Ops
      BY <3>1, <3>2, <3>3
    <3> QED
      BY <1>9, <2>4, <3>1, <3>4 DEF Pending
  <2>5. ASSUME NEW m \in InMail(Router)', m.type = "OperationCompleted"
        PROVE  m \in InMail(Router) /\ m.op \in Ops
    <3>1. m \in InMail(Router)
      BY <1>5, <1>6, <2>5
    <3>2. RouterMail(m)
      BY <1>2, <3>1 DEF AllOK, MailboxOK, Good
    <3> QED
      BY <1>8, <2>5, <3>1, <3>2 DEF RouterMail
  <2>6. \A r \in Range(results) : r.op \in Ops
    BY DEF AllOK, EventsOK, ResultsKnown
  <2>7. ASSUME NEW o, Finished(c, o)' PROVE Finished(c, o)
    <3>1. \/ \E m \in InMail(Router)' : m.type = "OperationCompleted" /\ m.op = o
          \/ \E r \in Range(results) : r.op = o
      BY <1>1, <2>7 DEF Finished
    <3>2. o \in Ops
      BY <2>5, <2>6, <3>1
    <3> QED
      BY <1>9, <2>5, <2>7, <3>1, <3>2 DEF Finished
  <2>8. TasksInv(c)'
    <3>1. \A o : Finished(c, o) => o \in Ops
      BY DEF Finished, OfCard
    <3>2. \A o : Pending(c, o) => o \in Ops
      BY DEF Pending, ChargeOf, OfCard
    <3>3. Unreplaced' => Unreplaced
      BY GrowsLemma DEF Unreplaced
    <3> QED
      BY <1>8, <2>1, <2>2, <2>4, <2>7, <3>1, <3>2, <3>3 DEF TasksInv
  <2>9. ServedInv(c)'
    <3>1. \A o : ChargeOf(o, c) => ChargeOf(o, c)'
      BY GrowsLemma
    <3>2. \A o : AskOf(o)' = AskOf(o) /\ RepliesTo(o)' = RepliesTo(o)
      BY DEF AskOf, RepliesTo
    <3> QED
      BY <2>1, <2>2, <2>3, <3>1, <3>2 DEF ServedInv
  <2>10. InMail(Router)' \cap Completions(c)' \subseteq InMail(Router) \cap Completions(c)
    BY <1>9, <2>5 DEF Completions
  <2>11. InMail(Router) \cap Completions(c)' \subseteq Completions(c) /\ e \notin Completions(c)'
    BY <1>5, <1>6, <2>10 DEF Completions
  <2>12. Ordered(mailbox'[Router], Completions(c)')
    <3>1. Ordered(mailbox[Router], Completions(c))
      BY <2>1 DEF ResultsInv
    <3>2. Ordered(mailbox[Router], Completions(c)')
      <4>1. \A i \in DOMAIN mailbox[Router] : mailbox[Router][i] \in InMail(Router)
        BY DEF InMail, Range
      <4> QED
        BY <2>11, <3>1, <4>1 DEF Ordered
    <3> QED
      BY <1>7, <2>11, <3>2
  <2>13. \A i \in DOMAIN results : results[i] \in Range(results)
    BY DEF Range
  <2>14. ResultsInv(c)'
    BY <1>1, <1>9, <2>1, <2>6, <2>10, <2>12, <2>13 DEF ResultsInv
  <2> QED
    BY <2>8, <2>9, <2>14
<1>12. Calm
  BY <1>2, <1>3 DEF Calm
<1> QED
  BY <1>10, <1>11, <1>12 DEF OrderInv

\* The result of the operation o is put behind the others.
LEMMA ResultsAppend ==
  ASSUME AllOK, sent' = sent, NEW c \in Cards, ResultsInv(c), NoneNew(Router, Completions(c)),
         NEW m \in InMail(Router) \cap Completions(c), NEW e \in ActorEvent, e.op = m.op,
         \A k \in InMail(Router)' \cap Completions(c) : m.op < k.op,
         results' = Append(results, e)
  PROVE  ResultsInv(c)'
<1>0. /\ Completions(c)' = Completions(c)
      /\ \A o : OfCard(o, c)' <=> OfCard(o, c)
  BY SameOps
<1>1. Ordered(mailbox'[Router], Completions(c)) /\ InMail(Router)' \cap Completions(c) \subseteq InMail(Router)
  BY DEF ResultsInv, NoneNew
<1>2. results \in Seq(ActorEvent)
  BY DEF AllOK, EventsOK
<1>3. PICK n \in Nat : n = Len(results) /\ DOMAIN results = 1..n
  BY <1>2, SeqLemma
<1>4. /\ Append(results, e) \in Seq(ActorEvent) /\ Len(Append(results, e)) = n + 1
      /\ Append(results, e)[n + 1] = e
      /\ \A i \in 1..n : Append(results, e)[i] = results[i]
      /\ Range(Append(results, e)) = Range(results) \cup {e}
  BY <1>2, <1>3, AppendLemma
<1>5. DOMAIN results' = 1..(n + 1)
  BY <1>4, SeqLemma
<1>6. \A r \in Range(results') : \A k \in InMail(Router)' \cap Completions(c) :
        OfCard(r.op, c) => r.op < k.op
  BY <1>1, <1>4 DEF ResultsInv
<1>7. ASSUME NEW i \in DOMAIN results', NEW j \in DOMAIN results',
             i < j, OfCard(results'[i].op, c), OfCard(results'[j].op, c)
      PROVE  results'[i].op < results'[j].op
  <2>1. i \in 1..n /\ results'[i] = results[i] /\ (j \in 1..n \/ j = n + 1)
    BY <1>4, <1>5, <1>7
  <2>2. CASE j \in 1..n
    BY <1>3, <1>4, <1>7, <2>1, <2>2 DEF ResultsInv
  <2>3. CASE j = n + 1
    <3>1. results'[j] = e /\ results[i] \in Range(results)
      BY <1>3, <1>4, <2>1, <2>3 DEF Range
    <3> QED
      BY <1>7, <2>1, <3>1 DEF ResultsInv
  <2> QED
    BY <2>1, <2>2, <2>3
<1> QED
  BY <1>0, <1>1, <1>6, <1>7 DEF ResultsInv

\* OperationCompleted: the first completion of a card is its oldest.
LEMMA RouterCompletedOrder ==
  ASSUME AllOK, AllOK', OrderInv, RouterCompleted
  PROVE  OrderInv' /\ Calm
<1>0. PICK m : m = Head(mailbox[Router])
  OBVIOUS
<1>1. /\ mailbox[Router] # <<>> /\ m.type \in {"OperationCompleted", "AccountQueryCompleted"}
      /\ EmitResult(m.op, m.ok, m.value) /\ Deliver(Router, Nothing)
      /\ UNCHANGED <<sent, operations, card>>
  BY <1>0 DEF RouterCompleted, HasMail
<1>2. Router \in Actors /\ Letter(Router) = RouterMsg
  BY ActorsApart
<1>3. m \in InMail(Router) /\ m \in RouterMsg /\ RouterMail(m)
  BY <1>0, <1>1, <1>2, HeadLemma DEF Good
<1>4. m.op \in Executed /\ operations[m.op] = m.op
  BY <1>1, <1>3 DEF RouterMail, AllOK, RouterOK, RouterInv
<1>5. m.type = "AccountQueryCompleted" => \A c : ~OfCard(m.op, c)
  BY <1>3 DEF RouterMail, IsQuery, OfCard
<1>6. PICK e : e = [type |-> "OperationResult", op |-> m.op, ok |-> m.ok, value |-> m.value]
  OBVIOUS
<1>7. e.op = m.op /\ (results' = results \/ results' = Append(results, e))
  BY <1>1, <1>4, <1>6 DEF EmitResult
<1>8. ASSUME results' = Append(results, e) PROVE e \in ActorEvent
  <2>1. m.op \in Nat /\ m.ok \in BOOLEAN /\ m.value \in Values
    BY <1>1, <1>3, RouterFields
  <2> QED
    BY <1>6, <2>1 DEF ActorEvent
<1>9. PICK new : new = Nothing
  OBVIOUS
<1>10. /\ Sends(Router, new) /\ \A y \in DOMAIN new : \A k \in Range(new[y]) : Plain(k)
       /\ Range(Added(new, Router)) = {}
  BY <1>1, <1>2, <1>9, SendsNone
<1>11. ASSUME NEW c \in Cards PROVE TasksInv(c)' /\ ServedInv(c)' /\ ResultsInv(c)'
  <2>1. TasksInv(c) /\ ServedInv(c) /\ ResultsInv(c)
    BY DEF OrderInv
  <2>2. Quiet(c)
    BY <1>10, QuietLemma
  <2>3. CASE ~OfCard(m.op, c) \/ results' = results
    <3>1. NoResult(c)
      BY <1>7, <1>8, <2>3 DEF NoResult
    <3> QED
      BY <1>0, <1>1, <1>10, <3>1, QuietStep
  <2>4. CASE OfCard(m.op, c) /\ results' # results
    <3>1. m \in Completions(c) /\ e \in ActorEvent /\ results' = Append(results, e)
      BY <1>1, <1>3, <1>5, <1>7, <1>8, <2>4 DEF Completions
    <3>2. \A k \in InMail(Router)' \cap Completions(c) : m.op < k.op
      <4>1. TypeOK /\ Ordered(mailbox[Router], Completions(c))
        BY <2>1, AllParts DEF ResultsInv
      <4> QED
        BY <1>0, <1>10, <3>1, <4>1, DeliverLemma
    <3>3. ResultsInv(c)'
      BY <1>1, <1>3, <1>7, <2>1, <2>2, <3>1, <3>2, ResultsAppend DEF Quiet
    <3>4. ASSUME NEW o, Finished(c, o)' PROVE Finished(c, o)
      <4>1. OfCard(o, c)
        BY <1>1, <3>4, SameOps DEF Finished
      <4>2. ASSUME NEW k \in InMail(Router)', k.type = "OperationCompleted", k.op = o
            PROVE  k \in InMail(Router)
        BY <2>2, <4>1, <4>2, RouterMailType DEF Completions, NoneNew, Quiet
      <4>3. Range(results') = Range(results) \cup {e}
        BY <3>1, AppendLemma DEF AllOK, EventsOK
      <4>4. m.type = "OperationCompleted"
        BY <3>1 DEF Completions
      <4> QED
        BY <1>3, <1>7, <3>4, <4>1, <4>2, <4>3, <4>4 DEF Finished
    <3>5. \A o : Pending(c, o)' => Pending(c, o)
      BY <1>1, <2>2, PendingFrame DEF Quiet
    <3>6. TasksInv(c)'
      BY <1>1, <2>1, <2>2, <3>4, <3>5, TasksFrame DEF Quiet
    <3>7. ServedInv(c)'
      BY <1>0, <1>1, <1>10, <2>1, <2>2, ServedQuiet
    <3> QED
      BY <3>3, <3>6, <3>7
  <2> QED
    BY <2>3, <2>4
<1>12. CommandsInv'
  <2>1. Executed' = Executed
    BY <1>1 DEF Executed
  <2>2. NoneNew(Router, Executes)
    BY <1>2, <1>10, NoneNewLemma
  <2> QED
    BY <2>1, <2>2, CommandsFrame DEF OrderInv
<1>13. Calm
  <2>1. \A y : Range(Added(new, y)) = {}
    BY <1>1, <1>2, <1>9, SendsNone
  <2> QED
    BY <1>0, <1>1, <1>10, <2>1, CalmLemma
<1> QED
  BY <1>11, <1>12, <1>13 DEF OrderInv

\* What card c has to do with is executed.
LEMMA KnownExecuted ==
  ASSUME AllOK, NEW c \in Cards
  PROVE  /\ \A o : Finished(c, o) => o \in Executed
         /\ \A o : Pending(c, o) => o \in Executed
         /\ \A o \in Range(card[c].tasks) : o \in Executed
         /\ \A m \in InMail(c) \cap Tasks : m.op \in Executed
<1>1. /\ c \in Actors /\ c # Router /\ c \notin Accounts /\ Router \in Actors
      /\ Owner[c] \in Accounts /\ Owner[c] \in Actors /\ Owner[c] # Router
      /\ \A o \in Range(card[c].tasks) : o \in Executed
  BY CardType
<1>2. /\ \A m \in InMail(c) : CardMail(c, m)
      /\ \A m \in InMail(Owner[c]) : AccountMail(Owner[c], m)
      /\ \A m \in InMail(Router) : RouterMail(m)
  BY <1>1 DEF AllOK, MailboxOK, Good
<1>3. ASSUME NEW o, Finished(c, o) PROVE o \in Executed
  <2>1. ASSUME NEW m \in InMail(Router), m.type = "OperationCompleted", m.op = o PROVE o \in Executed
    BY <1>2, <2>1 DEF RouterMail
  <2>2. ASSUME NEW r \in Range(results), r.op = o PROVE o \in Executed
    <3>1. ResultsKnown /\ OfCard(o, c)
      BY <1>3 DEF AllOK, EventsOK, Finished
    <3> QED
      BY <2>2, <3>1 DEF ResultsKnown, OfCard
  <2> QED
    BY <1>3, <2>1, <2>2 DEF Finished
<1>4. ASSUME NEW o, Pending(c, o) PROVE o \in Executed
  <2>1. ASSUME Asked(c, o) PROVE o \in Executed
    <3>1. PICK m \in InMail(Owner[c]) : m \in AskOf(o)
      BY <2>1 DEF Asked
    <3>2. m.type = "ApplyCharge" /\ m.op = o
      BY <3>1 DEF AskOf
    <3> QED
      BY <1>2, <3>2 DEF AccountMail
  <2>2. ASSUME Replied(c, o) PROVE o \in Executed
    <3>1. PICK m \in InMail(c) : m \in RepliesTo(o)
      BY <2>2 DEF Replied
    <3>2. m.type = "AccountChargeReply" /\ m.op = o
      BY <3>1 DEF RepliesTo
    <3> QED
      BY <1>2, <3>2 DEF CardMail
  <2> QED
    BY <1>4, <2>1, <2>2 DEF Pending
<1>5. \A m \in InMail(c) \cap Tasks : m.op \in Executed
  BY <1>2 DEF CardMail, Tasks
<1> QED
  BY <1>1, <1>3, <1>4, <1>5

\* The current charge of card c, when a step neither adds nor takes its ask or reply.
LEMMA ServedMail ==
  ASSUME AllOK, sent' = sent, NEW x, NEW new, Sends(x, new), NEW c \in Cards, ServedInv(c),
         SameCurrent(c),
         card[c].tasks # <<>> =>
           LET o == Head(card[c].tasks)
           IN  /\ Range(Added(new, Owner[c])) \cap AskOf(o) = {}
               /\ Range(Added(new, c)) \cap RepliesTo(o) = {}
               /\ Owner[c] # x \/ Head(mailbox[x]) \notin AskOf(o)
               /\ c # x \/ Head(mailbox[x]) \notin RepliesTo(o)
  PROVE  ServedInv(c)'
<1> SUFFICES ASSUME card[c].tasks # <<>> PROVE ServedInv(c)'
  BY DEF ServedInv, SameCurrent
<1>0. PICK o : o = Head(card[c].tasks)
  OBVIOUS
<1>1. c \in Actors /\ Owner[c] \in Actors
  BY CardType
<1>2. NoneNew(Owner[c], AskOf(o)) /\ InMail(Owner[c]) \cap AskOf(o) \subseteq InMail(Owner[c])'
  BY <1>0, <1>1, NoneNewLemma
<1>3. NoneNew(c, RepliesTo(o)) /\ InMail(c) \cap RepliesTo(o) \subseteq InMail(c)'
  BY <1>0, <1>1, NoneNewLemma
<1>4. (Asked(c, o) => Asked(c, o)') /\ (Replied(c, o) => Replied(c, o)')
  BY <1>2, <1>3 DEF Asked, Replied
<1>5. \A p : p = Head(card[c].tasks) => Kept(c, p)
  BY <1>0, <1>2, <1>3, <1>4 DEF Kept
<1> QED
  BY <1>5, ServedFrame

\* Charge and LimitCard: the task is newer than all that the card has been given.
LEMMA ExecuteOnCardOrder ==
  ASSUME AllOK, AllOK', OrderInv, NEW o, ExecuteOnCard(o)
  PROVE  OrderInv' /\ Calm
<1>0. PICK d, m, new : d = Op[o].card /\ m = [type |-> "Task", op |-> o] /\ new = To(d, m)
  OBVIOUS
<1>1. /\ Execute(o, {"Charge", "LimitCard"}) /\ Deliver(Router, To(d, m))
      /\ UNCHANGED <<sent, card, results>>
  BY <1>0 DEF ExecuteOnCard, history
<1>2. /\ mailbox[Router] # <<>> /\ Router \in Actors /\ o \in Ops
      /\ Head(mailbox[Router]).type = "Execute" /\ Head(mailbox[Router]).op = o
      /\ Executed' \subseteq Executed \cup {Head(mailbox[Router]).op}
  BY <1>1, ExecuteParts
<1>3. d \in Cards /\ o \in Nat /\ d \in Actors /\ d # Router /\ d \notin Accounts
  <2>1. Op[o].kind \in {"Charge", "LimitCard"}
    BY <1>1 DEF Execute
  <2> QED
    BY <1>0, <1>2, <2>1, OperationType, ActorsApart DEF AllOK
<1>4. /\ Sends(Router, new) /\ Range(Added(new, d)) = {m}
      /\ \A z : z # d => Range(Added(new, z)) = {}
  BY <1>0, <1>1, <1>2, SendsOne
<1>5. m.type = "Task" /\ m.op = o
  BY <1>0
<1>6. \A k \in Executed : k < o
  <2>1. Head(mailbox[Router]) \in Executes /\ Head(mailbox[Router]) \in InMail(Router)
    BY <1>2, HeadLemma, ActorsApart DEF Executes
  <2> QED
    BY <1>2, <2>1 DEF OrderInv, CommandsInv
<1>7. \A p : m \notin AskOf(p) /\ m \notin RepliesTo(p)
  BY <1>5 DEF AskOf, RepliesTo
<1>8. \A p : Head(mailbox[Router]) \notin AskOf(p) /\ Head(mailbox[Router]) \notin RepliesTo(p)
  BY <1>2 DEF AskOf, RepliesTo
<1>9. ASSUME NEW c \in Cards PROVE TasksInv(c)' /\ ServedInv(c)' /\ ResultsInv(c)'
  <2>1. TasksInv(c) /\ ServedInv(c) /\ ResultsInv(c) /\ card'[c].tasks = card[c].tasks
    BY <1>1 DEF OrderInv
  <2>2. c \in Actors /\ Owner[c] \in Actors /\ Owner[c] \in Accounts /\ c # Router
    BY CardType
  <2>3. NoneNew(Router, Completions(c))
    BY <1>2, <1>3, <1>4, NoneNewLemma
  <2>4. \A p : NoneNew(Owner[c], AskOf(p)) /\ NoneNew(c, RepliesTo(p))
    <3>1. ASSUME NEW p PROVE NoneNew(Owner[c], AskOf(p))
      <4>1. Range(Added(new, Owner[c])) \cap AskOf(p) = {}
        BY <1>3, <1>4, <2>2
      <4> QED
        BY <1>4, <2>2, <4>1, NoneNewLemma
    <3>2. ASSUME NEW p PROVE NoneNew(c, RepliesTo(p))
      <4>1. Range(Added(new, c)) \cap RepliesTo(p) = {}
        BY <1>4, <1>7
      <4> QED
        BY <1>4, <2>2, <4>1, NoneNewLemma
    <3> QED
      BY <3>1, <3>2
  <2>5. NoResult(c)
    BY <1>1 DEF NoResult
  <2>6. ResultsInv(c)'
    BY <1>1, <2>1, <2>3, <2>5, ResultsFrame
  <2>7. \A p : Finished(c, p)' => Finished(c, p)
    BY <1>1, <2>3, <2>5, FinishedFrame
  <2>8. \A p : Pending(c, p)' => Pending(c, p)
    BY <1>1, <2>4, PendingFrame
  <2>9. ServedInv(c)'
    <3>1. \A p : Range(Added(new, Owner[c])) \cap AskOf(p) = {} /\ Range(Added(new, c)) \cap RepliesTo(p) = {}
      BY <1>3, <1>4, <1>7, <2>2
    <3> QED
      BY <1>1, <1>4, <1>8, <2>1, <3>1, ServedMail DEF SameCurrent
  <2>10. TasksInv(c)'
    <3>1. CASE c # d
      <4>1. NoneNew(c, Tasks)
        BY <1>4, <2>2, <3>1, NoneNewLemma
      <4> QED
        BY <1>1, <2>1, <2>7, <2>8, <4>1, TasksFrame
    <3>2. CASE c = d
      <4>1. TypeOK /\ Ordered(mailbox[c], Tasks)
        BY <2>1, AllParts DEF TasksInv
      <4>2. \A k \in InMail(c) \cap Tasks : k.op < o
        BY <1>6, KnownExecuted
      <4>3. Ordered(Added(new, c), Tasks)
        <5>1. Added(new, c) = <<m>>
          BY <1>0, <3>2, ToLemma DEF Added
        <5> QED
          BY <5>1, FewLemma
      <4>4. Ordered(mailbox'[c], Tasks)
        BY <1>4, <1>5, <2>2, <3>2, <4>1, <4>2, <4>3, DeliverLemma
      <4>5. InMail(c)' \subseteq InMail(c) \cup {m}
        BY <1>4, <2>2, <3>2, <4>1, DeliverLemma
      <4>6. /\ \A p \in Range(card[c].tasks) : p < o
            /\ \A p : Finished(c, p) => p < o
            /\ \A p : Pending(c, p) => p < o
        BY <1>6, KnownExecuted
      <4>7. Ops' = Ops /\ Tasks' = Tasks /\ (Unreplaced' => Unreplaced)
        BY <1>1, SameOps DEF Unreplaced
      <4> QED
        BY <1>5, <2>1, <2>7, <2>8, <4>4, <4>5, <4>6, <4>7 DEF TasksInv
    <3> QED
      BY <3>1, <3>2
  <2> QED
    BY <2>6, <2>9, <2>10
<1>10. CommandsInv'
  <2>1. Range(Added(new, Router)) \cap Executes = {}
    BY <1>3, <1>4
  <2> QED
    BY <1>2, <1>4, <2>1, CommandsExecute DEF OrderInv
<1>11. Calm
  BY <1>2, <1>4, <1>5, CalmLemma
<1> QED
  BY <1>9, <1>10, <1>11 DEF OrderInv

\* The messages that ask for a charge and that reply.
LEMMA AskReply ==
  /\ \A m \in AccountMsg : m.type = "ApplyCharge" => m \in AskOf(m.op)
  /\ \A m \in CardMsg : m.type = "AccountChargeReply" => m \in RepliesTo(m.op)
<1>1. ASSUME NEW m \in AccountMsg, m.type = "ApplyCharge" PROVE m \in AskOf(m.op)
  <2>1. m \in [type : {"ApplyCharge", "ApplyAccountLimit"}, op : Nat]
    BY <1>1 DEF AccountMsg, StateMsg
  <2>2. m = [type |-> "ApplyCharge", op |-> m.op]
    BY <1>1, <2>1
  <2> QED
    BY <2>2 DEF AskOf
<1>2. ASSUME NEW m \in CardMsg, m.type = "AccountChargeReply" PROVE m \in RepliesTo(m.op)
  <2>1. m \in [type : {"AccountChargeReply"}, op : Nat, ok : BOOLEAN]
    BY <1>2 DEF CardMsg, StateMsg
  <2>2. m = [type |-> "AccountChargeReply", op |-> m.op, ok |-> m.ok] /\ m.ok \in BOOLEAN
    BY <1>2, <2>1
  <2> QED
    BY <2>2 DEF RepliesTo
<1> QED
  BY <1>1, <1>2

\* ApplyChargeFromCard: the ask of the card is exchanged for a reply.
LEMMA AccountChargeOrder ==
  ASSUME AllOK, AllOK', OrderInv, NEW a \in Accounts, AccountCharge(a)
  PROVE  OrderInv'
<1>0. PICK h, o : h = Head(mailbox[a]) /\ o = h.op
  OBVIOUS
<1>k. PICK ok \in BOOLEAN : ok = ChargeAllowed(a, o)
  BY DEF ChargeAllowed
<1>m. PICK d, m, new : /\ d = Op[o].card /\ m = [type |-> "AccountChargeReply", op |-> o, ok |-> ok]
                       /\ new = To(d, m)
  OBVIOUS
<1>1. /\ mailbox[a] # <<>> /\ h.type = "ApplyCharge" /\ Deliver(a, To(d, m))
      /\ UNCHANGED <<sent, operations, card, results>>
  BY <1>0, <1>k, <1>m DEF AccountCharge, HasMail, routerVars
<1>2. a \in Actors /\ a # Router /\ a \notin Cards /\ Letter(a) = AccountMsg /\ Router \in Actors
  BY ActorsApart
<1>3. h \in InMail(a) /\ h \in AccountMsg /\ Good(a, h)
  BY <1>0, <1>1, <1>2, HeadLemma
<1>4. o \in Executed /\ ChargeOf(o, d) /\ Owner[d] = a
  BY <1>0, <1>1, <1>2, <1>3, <1>m DEF Good, AccountMail
<1>5. d \in Cards /\ d \in Actors /\ d # Router /\ d \notin Accounts
  BY <1>4, <1>m, OperationType, ActorsApart DEF ChargeOf, OfCard, AllOK
<1>6. h \in AskOf(o)
  BY <1>0, <1>1, <1>3, AskReply
<1>7. m.type = "AccountChargeReply" /\ m.op = o /\ m \in RepliesTo(o)
  BY <1>m DEF RepliesTo
<1>8. \A p : p # o => h \notin AskOf(p) /\ m \notin RepliesTo(p)
  BY <1>0, <1>7 DEF AskOf, RepliesTo
<1>9. m \notin Tasks /\ \A p : h \notin RepliesTo(p)
  BY <1>1, <1>7 DEF Tasks, RepliesTo
<1>10. /\ Sends(a, new) /\ Range(Added(new, d)) = {m}
       /\ \A z : z # d => Range(Added(new, z)) = {}
  BY <1>m, <1>1, <1>2, SendsOne
<1>11. TypeOK
  BY AllParts
<1>12. ASSUME NEW c \in Cards PROVE TasksInv(c)' /\ ServedInv(c)' /\ ResultsInv(c)'
  <2>1. TasksInv(c) /\ ServedInv(c) /\ ResultsInv(c) /\ card'[c].tasks = card[c].tasks
    BY <1>1 DEF OrderInv
  <2>2. c \in Actors /\ Owner[c] \in Actors /\ Owner[c] \in Accounts /\ c # Router /\ c # a
    BY <1>2, CardType
  <2>3. NoneNew(Router, Completions(c))
    BY <1>2, <1>5, <1>10, NoneNewLemma
  <2>4. NoResult(c)
    BY <1>1 DEF NoResult
  <2>5. ResultsInv(c)'
    BY <1>1, <2>1, <2>3, <2>4, ResultsFrame
  <2>6. \A p : Finished(c, p)' => Finished(c, p)
    BY <1>1, <2>3, <2>4, FinishedFrame
  <2>7. Range(Added(new, Owner[c])) = {} /\ InMail(Owner[c])' \subseteq InMail(Owner[c])
    <3>1. Range(Added(new, Owner[c])) = {}
      BY <1>5, <1>10, <2>2
    <3> QED
      BY <1>10, <1>11, <2>2, <3>1, DeliverLemma
  <2>8. InMail(c)' \subseteq InMail(c) \cup (IF c = d THEN {m} ELSE {})
    BY <1>10, <1>11, <2>2, DeliverLemma
  <2>9. ASSUME NEW p, Pending(c, p)' PROVE Pending(c, p)
    <3>1. ChargeOf(p, c) /\ (Asked(c, p)' \/ Replied(c, p)')
      BY <1>1, <2>9, SameOps DEF Pending
    <3>2. Asked(c, p)' => Asked(c, p)
      BY <2>7 DEF Asked
    <3>3. Replied(c, p)' => Replied(c, p) \/ (c = d /\ p = o)
      BY <1>8, <2>8 DEF Replied
    <3>4. Asked(d, o)
      BY <1>3, <1>4, <1>6 DEF Asked
    <3> QED
      BY <3>1, <3>2, <3>3, <3>4 DEF Pending
  <2>10. NoneNew(c, Tasks)
    <3>1. Range(Added(new, c)) \cap Tasks = {}
      BY <1>9, <1>10
    <3> QED
      BY <1>10, <2>2, <3>1, NoneNewLemma
  <2>11. TasksInv(c)'
    BY <1>1, <2>1, <2>6, <2>9, <2>10, TasksFrame
  <2>12. ServedInv(c)'
    <3>0. PICK p : p = Head(card[c].tasks)
      OBVIOUS
    <3>1. CASE card[c].tasks = <<>>
      BY <2>1, <3>1 DEF ServedInv
    <3>2. CASE card[c].tasks # <<>> /\ p # o
      BY <1>1, <1>0, <1>8, <1>9, <1>10, <2>1, <2>7, <3>0, <3>2, ServedMail DEF SameCurrent
    <3>3. CASE card[c].tasks # <<>> /\ p = o
      <4>1. /\ ChargeOf(o, c) /\ AtMostOne(mailbox[Owner[c]], AskOf(o))
            /\ AtMostOne(mailbox[c], RepliesTo(o)) /\ (Asked(c, o) <=> ~Replied(c, o))
        BY <2>1, <3>0, <3>3 DEF ServedInv
      <4>2. c = d /\ Owner[c] = a
        BY <1>4, <1>m, <4>1 DEF ChargeOf, OfCard
      <4>3. Asked(c, o) /\ ~Replied(c, o)
        BY <1>3, <1>6, <4>1, <4>2 DEF Asked
      <4>4. InMail(a)' \cap AskOf(o) = {}
        <5>1. Head(mailbox[a]) \in AskOf(o) /\ Range(Added(new, a)) \cap AskOf(o) = {}
          BY <1>0, <1>6, <2>7, <4>2
        <5> QED
          BY <1>10, <1>11, <4>1, <4>2, <5>1, DeliverLemma
      <4>5. NoneNew(a, AskOf(o))
        BY <1>2, <1>10, <2>7, <4>2, NoneNewLemma
      <4>6. AtMostOne(mailbox'[c], RepliesTo(o))
        <5>1. Added(new, c) = <<m>>
          <6>1. DOMAIN To(d, m) = {d} /\ To(d, m)[d] = <<m>>
            BY ToLemma
          <6> QED
            BY <1>m, <4>2, <6>1 DEF Added
        <5>2. AtMostOne(Added(new, c), RepliesTo(o))
          BY <5>1, FewLemma
        <5>3. InMail(c) \cap RepliesTo(o) = {}
          BY <4>3 DEF Replied
        <5> QED
          BY <1>10, <1>11, <2>2, <4>1, <5>2, <5>3, DeliverLemma
      <4>7. m \in InMail(c)'
        BY <1>10, <1>11, <2>2, <4>2, DeliverLemma
      <4>8. Replied(c, o)' /\ ~Asked(c, o)'
        BY <1>7, <4>2, <4>4, <4>7 DEF Replied, Asked
      <4>9. AtMostOne(mailbox'[a], AskOf(o)) /\ ChargeOf(o, c)'
        BY <1>1, <4>1, <4>2, <4>5, SameOps DEF NoneNew
      <4>10. Head(card'[c].tasks) = o /\ AskOf(o)' = AskOf(o) /\ RepliesTo(o)' = RepliesTo(o)
        BY <2>1, <3>0, <3>3 DEF AskOf, RepliesTo
      <4> QED
        BY <4>2, <4>6, <4>8, <4>9, <4>10 DEF ServedInv
    <3> QED
      BY <3>1, <3>2, <3>3
  <2> QED
    BY <2>5, <2>11, <2>12
<1>13. CommandsInv'
  <2>1. Executed' = Executed
    BY <1>1 DEF Executed
  <2>2. NoneNew(Router, Executes)
    BY <1>2, <1>5, <1>10, NoneNewLemma
  <2> QED
    BY <2>1, <2>2, CommandsFrame DEF OrderInv
<1> QED
  BY <1>12, <1>13 DEF OrderInv

\* A step of card c that is of no matter to another card.
LEMMA OtherCard ==
  ASSUME AllOK, AllOK', OrderInv, UNCHANGED <<sent, results>>, NEW c \in Cards, NEW new, Sends(c, new),
         NEW d \in Cards, d # c, card'[d] = card[d], Range(Added(new, d)) = {},
         Range(Added(new, Router)) \cap Completions(d) = {},
         \A o : ChargeOf(o, d) => Range(Added(new, Owner[d])) \cap AskOf(o) = {}
  PROVE  TasksInv(d)' /\ ServedInv(d)' /\ ResultsInv(d)'
<1>1. /\ d \in Actors /\ Owner[d] \in Actors /\ Owner[d] # c /\ Router \in Actors
      /\ TasksInv(d) /\ ServedInv(d) /\ ResultsInv(d)
  BY CardType DEF OrderInv
<1>2. NoneNew(Router, Completions(d)) /\ NoResult(d)
  BY <1>1, NoneNewLemma DEF NoResult
<1>3. NoneNew(d, Tasks)
  BY <1>1, NoneNewLemma
<1>4. ResultsInv(d)'
  BY <1>1, <1>2, ResultsFrame
<1>5. \A o : Finished(d, o)' => Finished(d, o)
  BY <1>2, FinishedFrame
<1>6. \A o : ChargeOf(o, d) => NoneNew(Owner[d], AskOf(o)) /\ NoneNew(d, RepliesTo(o))
  BY <1>1, NoneNewLemma
<1>7. \A o : Pending(d, o)' => Pending(d, o)
  BY <1>6, PendingFrame
<1>8. TasksInv(d)'
  BY <1>1, <1>3, <1>5, <1>7, TasksFrame
<1>9. ServedInv(d)'
  BY <1>1, ServedMail DEF ServedInv, SameCurrent
<1> QED
  BY <1>4, <1>8, <1>9

\* A reply that card c does not wait for.
LEMMA CardDropsOrder ==
  ASSUME AllOK, AllOK', OrderInv, NEW c \in Cards, mailbox[c] # <<>>,
         Head(mailbox[c]).type = "AccountChargeReply",
         ~(card[c].tasks # <<>> /\ Head(card[c].tasks) = Head(mailbox[c]).op),
         Deliver(c, To(Router, Debug)), UNCHANGED <<sent, operations, card, results>>
  PROVE  OrderInv'
<1>0. PICK h, new : h = Head(mailbox[c]) /\ new = To(Router, Debug)
  OBVIOUS
<1>1. c \in Actors /\ c # Router /\ c \notin Accounts /\ Router \in Actors /\ Owner[c] # Router
  BY CardType
<1>2. /\ Sends(c, new) /\ Range(Added(new, Router)) = {Debug}
      /\ \A z : z # Router => Range(Added(new, z)) = {}
  BY <1>0, <1>1, SendsOne
<1>3. Plain(Debug)
  BY DEF Plain, Debug
<1>4. \A y \in DOMAIN new : \A m \in Range(new[y]) : Plain(m)
  BY <1>0, <1>1, <1>3, SendsOne
<1>5. /\ Debug \notin Executes /\ \A d \in Cards : Debug \notin Completions(d)
  BY <1>3, PlainLemma
<1>6. ASSUME NEW d \in Cards, d # c PROVE TasksInv(d)' /\ ServedInv(d)' /\ ResultsInv(d)'
  <2>1. d # Router /\ Owner[d] # Router
    BY CardType
  <2> QED
    BY <1>2, <1>5, <1>6, <2>1, OtherCard
<1>7. TasksInv(c)' /\ ServedInv(c)' /\ ResultsInv(c)'
  <2>1. Quiet(c) /\ NoResult(c) /\ SameCurrent(c)
    BY <1>2, <1>4, QuietLemma DEF NoResult, SameCurrent
  <2>2. TasksInv(c) /\ ServedInv(c) /\ ResultsInv(c)
    BY DEF OrderInv
  <2>3. ResultsInv(c)'
    BY <2>1, <2>2, ResultsFrame DEF Quiet
  <2>4. \A o : Finished(c, o)' => Finished(c, o)
    BY <2>1, FinishedFrame DEF Quiet
  <2>5. \A o : Pending(c, o)' => Pending(c, o)
    BY <2>1, PendingFrame DEF Quiet
  <2>6. TasksInv(c)'
    BY <2>1, <2>2, <2>4, <2>5, TasksFrame DEF Quiet
  <2>7. card[c].tasks # <<>> => h \notin RepliesTo(Head(card[c].tasks))
    BY <1>0 DEF RepliesTo
  <2>8. Owner[c] # c
    BY <1>1, CardType
  <2>9. ServedInv(c)'
    BY <1>0, <1>1, <1>2, <2>1, <2>2, <2>7, <2>8, ServedMail
  <2> QED
    BY <2>3, <2>6, <2>9
<1>8. CommandsInv'
  <2>1. Executed' = Executed
    BY DEF Executed
  <2>2. NoneNew(Router, Executes)
    BY <1>1, <1>2, <1>5, NoneNewLemma
  <2> QED
    BY <2>1, <2>2, CommandsFrame DEF OrderInv
<1> QED
  BY <1>6, <1>7, <1>8 DEF OrderInv

\* ReplaceState of a card: its tasks are discarded.
LEMMA CardReplaceOrder ==
  ASSUME AllOK, AllOK', OrderInv, NEW c \in Cards, CardReplace(c)
  PROVE  OrderInv' /\ ~Unreplaced
<1>0. PICK h, new : h = Head(mailbox[c]) /\ new = Nothing
  OBVIOUS
<1>1. /\ mailbox[c] # <<>> /\ Deliver(c, Nothing) /\ UNCHANGED <<sent, operations, results>>
      /\ card' = [card EXCEPT ![c] = [limit |-> h.limit, consumed |-> h.consumed, tasks |-> <<>>]]
  BY <1>0 DEF CardReplace, HasMail, routerVars, history
<1>u. ~Unreplaced /\ ~Unreplaced'
  <2>1. mailbox[c] # <<>> /\ Head(mailbox[c]).type = "ReplaceState"
    BY DEF CardReplace, HasMail
  <2>2. Good(c, Head(mailbox[c])) /\ c # Router /\ c \notin Accounts
    BY <2>1, CardType, HeadLemma
  <2>3. HasKind("ReplaceDatabase")
    BY <2>1, <2>2 DEF Good, CardMail
  <2> QED
    BY <1>1, <2>3, SameOps DEF Unreplaced
<1>2. c \in Actors /\ c # Router /\ c \notin Accounts /\ Router \in Actors
  BY CardType
<1>3. Sends(c, new) /\ DOMAIN new = {} /\ \A z : Range(Added(new, z)) = {}
  BY <1>0, <1>1, <1>2, SendsNone
<1>4. card'[c].tasks = <<>> /\ \A d \in Cards : d # c => card'[d] = card[d]
  BY <1>1 DEF AllOK, CardsOK
<1>6. ASSUME NEW d \in Cards, d # c PROVE TasksInv(d)' /\ ServedInv(d)' /\ ResultsInv(d)'
  BY <1>1, <1>3, <1>4, <1>6, OtherCard
<1>7. TasksInv(c)' /\ ServedInv(c)' /\ ResultsInv(c)'
  <2>1. Quiet(c) /\ NoResult(c)
    BY <1>1, <1>3, QuietLemma DEF NoResult
  <2>2. TasksInv(c) /\ ResultsInv(c)
    BY DEF OrderInv
  <2>3. ResultsInv(c)'
    BY <1>1, <2>1, <2>2, ResultsFrame DEF Quiet
  <2>4. \A o : Finished(c, o)' => Finished(c, o)
    BY <1>1, <2>1, FinishedFrame DEF Quiet
  <2>5. \A o : Pending(c, o)' => Pending(c, o)
    BY <1>1, <2>1, PendingFrame DEF Quiet
  <2>6. TasksInv(c)'
    <3>1. Ops' = Ops /\ Tasks' = Tasks
      BY <1>1, SameOps
    <3>2. Ordered(mailbox'[c], Tasks) /\ InMail(c)' \cap Tasks \subseteq InMail(c) \cap Tasks
      BY <2>1, <2>2 DEF TasksInv, NoneNew, Quiet
    <3>3. Range(<<>>) = {} /\ DOMAIN <<>> = {}
      BY FewLemma
    <3> QED
      BY <1>4, <1>u, <2>2, <2>4, <2>5, <3>1, <3>2, <3>3 DEF TasksInv
  <2>7. ServedInv(c)'
    BY <1>4 DEF ServedInv
  <2> QED
    BY <2>3, <2>6, <2>7
<1>8. CommandsInv'
  <2>1. Executed' = Executed
    BY <1>1 DEF Executed
  <2>2. NoneNew(Router, Executes)
    BY <1>2, <1>3, NoneNewLemma
  <2> QED
    BY <2>1, <2>2, CommandsFrame DEF OrderInv
<1> QED
  BY <1>6, <1>7, <1>8, <1>u DEF OrderInv

-----------------------------------------------------------------------------
(* A card that runs its tasks *)

\* The tasks pre of card c are in order and newer than what is finished or pending.
Queued(c, pre) ==
  /\ \A i, j \in DOMAIN pre : i < j => pre[i] < pre[j]
  /\ \A p \in Range(pre) : /\ \A o : Finished(c, o) => o < p
                           /\ \A o : Pending(c, o) => o <= p

\* Card c becomes s at its next message: the first n of its tasks pre are done.
Steps(c, s, pre, n) ==
  /\ Shape(c, s, pre, n) /\ Becomes(c, s) /\ mailbox[c] # <<>>
  /\ UNCHANGED <<sent, operations, results>>

\* What card c sends.
LEMMA StepsMail ==
  ASSUME AllOK, NEW c \in Cards, NEW s, NEW pre, NEW n, Steps(c, s, pre, n),
         NEW new, new = CardSends(c, s)
  PROVE  /\ Sends(c, new) /\ Added(new, Router) = DoneMail(s) /\ Added(new, Owner[c]) = AskMail(s)
         /\ \A y : y # Router /\ y # Owner[c] => Added(new, y) = <<>>
         /\ \A m \in Range(DoneMail(s)) :
              /\ m.type = "OperationCompleted" /\ OfCard(m.op, c) /\ m \in RouterMsg
              /\ \E i \in 1..n : m.op = pre[i]
         /\ \A m \in Range(AskMail(s)) : /\ s.asks # <<>> /\ m \in AskOf(Head(s.tasks))
                                         /\ ChargeOf(Head(s.tasks), c)
         /\ card'[c].tasks = s.tasks /\ \A d \in Cards : d # c => card'[d] = card[d]
<1>1. /\ c \in Actors /\ Owner[c] # Router /\ c # Router /\ mailbox[c] # <<>> /\ Deliver(c, new)
      /\ card' = [card EXCEPT ![c] = [limit |-> s.limit, consumed |-> s.consumed, tasks |-> s.tasks]]
  BY CardType, BecomesSends DEF Steps
<1>2. Shape(c, s, pre, n)
  BY DEF Steps
<1>3. /\ DOMAIN new = {Router, Owner[c]} /\ new[Router] = DoneMail(s) /\ new[Owner[c]] = AskMail(s)
      /\ DoneAre(c, s, pre, n) /\ (s.asks = <<>> => AskMail(s) = <<>>) /\ AskMail(s) \in Seq(AccountMsg)
  BY <1>2, ShapeMail
<1>4. DoneMail(s) \in Seq(RouterMsg)
  BY <1>3 DEF DoneAre
<1>5. Sends(c, new)
  <2>1. \A y \in DOMAIN new : new[y] \in Seq(Range(new[y]))
    BY <1>3, <1>4, SeqOfRange
  <2> QED
    BY <1>1, <2>1 DEF Sends
<1>6. /\ Added(new, Router) = DoneMail(s) /\ Added(new, Owner[c]) = AskMail(s)
      /\ \A y : y # Router /\ y # Owner[c] => Added(new, y) = <<>>
  BY <1>3 DEF Added
<1>7. ASSUME NEW m \in Range(DoneMail(s))
      PROVE  /\ m.type = "OperationCompleted" /\ OfCard(m.op, c) /\ m \in RouterMsg
             /\ \E i \in 1..n : m.op = pre[i]
  <2>1. PICK i \in 1..n : m = DoneMail(s)[i] /\ m \in RouterMsg
    BY <1>3, SeqLemma DEF DoneAre
  <2> QED
    BY <1>3, <2>1 DEF DoneAre
<1>8. ASSUME NEW m \in Range(AskMail(s))
      PROVE  s.asks # <<>> /\ m \in AskOf(Head(s.tasks)) /\ ChargeOf(Head(s.tasks), c)
  <2>1. s.asks # <<>>
    BY <1>3, FewLemma
  <2>2. AskMail(s) = <<[type |-> "ApplyCharge", op |-> Head(s.tasks)]>> /\ ChargeOf(Head(s.tasks), c)
    BY <1>2, <2>1, ShapeMail
  <2> QED
    BY <2>1, <2>2, FewLemma DEF AskOf
<1>9. card'[c].tasks = s.tasks /\ \A d \in Cards : d # c => card'[d] = card[d]
  BY <1>1 DEF AllOK, CardsOK
<1> QED
  BY <1>5, <1>6, <1>7, <1>8, <1>9

\* The step is of no matter to the other cards and to the commands of the router.
LEMMA StepsOthers ==
  ASSUME AllOK, AllOK', OrderInv, NEW c \in Cards, NEW s, NEW pre, NEW n, Steps(c, s, pre, n)
  PROVE  /\ CommandsInv'
         /\ \A d \in Cards : d # c => TasksInv(d)' /\ ServedInv(d)' /\ ResultsInv(d)'
<1>0. PICK new : new = CardSends(c, s)
  OBVIOUS
<1>1. /\ Sends(c, new) /\ Added(new, Router) = DoneMail(s) /\ Added(new, Owner[c]) = AskMail(s)
      /\ \A y : y # Router /\ y # Owner[c] => Added(new, y) = <<>>
      /\ \A m \in Range(DoneMail(s)) : m.type = "OperationCompleted" /\ OfCard(m.op, c)
      /\ \A m \in Range(AskMail(s)) : m \in AskOf(Head(s.tasks)) /\ ChargeOf(Head(s.tasks), c)
      /\ \A d \in Cards : d # c => card'[d] = card[d]
  BY <1>0, StepsMail
<1>2. UNCHANGED <<sent, operations, results>> /\ Router \in Actors
  BY CardType DEF Steps
<1>3. CommandsInv'
  <2>1. Executed' = Executed
    BY <1>2 DEF Executed
  <2>2. Range(Added(new, Router)) \cap Executes = {}
    BY <1>1 DEF Executes
  <2>3. NoneNew(Router, Executes)
    BY <1>1, <1>2, <2>2, NoneNewLemma
  <2> QED
    BY <2>1, <2>3, CommandsFrame DEF OrderInv
<1>4. ASSUME NEW d \in Cards, d # c PROVE TasksInv(d)' /\ ServedInv(d)' /\ ResultsInv(d)'
  <2>1. \A o : OfCard(o, c) => ~OfCard(o, d)
    BY <1>4 DEF OfCard
  <2>2. d # Router /\ d # Owner[c] /\ Owner[d] # Router
    BY CardType
  <2>3. Range(Added(new, d)) = {}
    BY <1>1, <2>2, FewLemma
  <2>4. Range(Added(new, Router)) \cap Completions(d) = {}
    BY <1>1, <2>1 DEF Completions
  <2>5. ASSUME NEW o, ChargeOf(o, d) PROVE Range(Added(new, Owner[d])) \cap AskOf(o) = {}
    <3>1. \A m \in AskOf(Head(s.tasks)) \cap AskOf(o) : Head(s.tasks) = o
      BY DEF AskOf
    <3>2. ~ChargeOf(o, c)
      BY <2>1, <2>5 DEF ChargeOf
    <3> QED
      BY <1>1, <2>2, <3>1, <3>2, FewLemma
  <2> QED
    BY <1>1, <1>2, <1>4, <2>3, <2>4, <2>5, OtherCard
<1> QED
  BY <1>3, <1>4

\* The tasks that are done come before the ones that remain.
LEMMA QueueParts ==
  ASSUME NEW c \in Cards, NEW s, NEW pre, NEW n, Shape(c, s, pre, n), Queued(c, pre)
  PROVE  /\ \A i, j \in DOMAIN s.tasks : i < j => s.tasks[i] < s.tasks[j]
         /\ \A o \in Range(s.tasks) : o \in Range(pre) /\ \A i \in 1..n : pre[i] < o
         /\ \A i \in 1..n : pre[i] \in Range(pre)
         /\ \A o \in Range(s.tasks) : Head(s.tasks) <= o
         /\ s.tasks # <<>> => Head(s.tasks) \in Range(s.tasks)
<1>1. /\ s \in CardRun /\ pre \in Seq(Nat) /\ n \in 0..Len(pre)
      /\ Len(s.tasks) = Len(pre) - n /\ \A j \in 1..(Len(pre) - n) : s.tasks[j] = pre[n + j]
  BY DEF Shape
<1>2. s.tasks \in Seq(Nat)
  BY <1>1 DEF CardRun
<1>3. PICK l \in Nat : l = Len(pre) /\ DOMAIN pre = 1..l /\ \A i \in 1..l : pre[i] \in Nat
  BY <1>1, SeqLemma
<1>4. n \in Nat /\ n <= l /\ l - n \in Nat /\ DOMAIN s.tasks = 1..(l - n) /\ Len(s.tasks) = l - n
      /\ \A j \in 1..(l - n) : s.tasks[j] = pre[n + j]
  <2>1. n \in 0..l /\ Len(s.tasks) = l - n /\ \A j \in 1..(l - n) : s.tasks[j] = pre[n + j]
    BY <1>1, <1>3
  <2>2. n \in Nat /\ n <= l /\ l - n \in Nat
    BY <2>1
  <2>3. DOMAIN s.tasks = 1..Len(s.tasks)
    BY <1>2, SeqLemma
  <2> QED
    BY <2>1, <2>2, <2>3
<1>5. \A i, j \in 1..l : i < j => pre[i] < pre[j]
  BY <1>3 DEF Queued
<1>6. ASSUME NEW i \in 1..(l - n), NEW j \in 1..(l - n), i < j PROVE s.tasks[i] < s.tasks[j]
  <2>1. n + i \in 1..l /\ n + j \in 1..l /\ n + i < n + j
    BY <1>4, <1>6
  <2> QED
    BY <1>4, <1>5, <2>1
<1>7. \A i \in 1..n : pre[i] \in Range(pre)
  <2>1. \A i \in 1..n : i \in DOMAIN pre
    BY <1>3, <1>4
  <2> QED
    BY <2>1 DEF Range
<1>8. ASSUME NEW o \in Range(s.tasks)
      PROVE  o \in Range(pre) /\ Head(s.tasks) <= o /\ \A i \in 1..n : pre[i] < o
  <2>1. PICK j \in 1..(l - n) : o = s.tasks[j]
    BY <1>4 DEF Range
  <2>2. n + j \in 1..l /\ o = pre[n + j] /\ \A i \in 1..n : i \in 1..l /\ i < n + j
    BY <1>4, <2>1
  <2>3. o \in Range(pre)
    BY <1>3, <2>2 DEF Range
  <2>4. \A i \in 1..n : pre[i] < o
    BY <1>5, <2>2
  <2>5. Head(s.tasks) = s.tasks[1] /\ 1 \in 1..(l - n)
    <3>1. s.tasks # <<>>
      BY FewLemma
    <3> QED
      BY <1>2, <1>4, <2>1, <3>1, SeqLemma
  <2>6. o \in Nat /\ s.tasks[1] \in Nat
    BY <1>3, <1>4, <2>2, <2>5
  <2>7. Head(s.tasks) <= o
    <3>1. CASE j = 1
      BY <2>1, <2>5, <2>6, <3>1
    <3>2. CASE 1 < j
      <4>1. s.tasks[1] < s.tasks[j]
        BY <1>6, <2>5, <3>2
      <4> QED
        BY <2>1, <2>5, <2>6, <4>1
    <3> QED
      BY <3>1, <3>2
  <2> QED
    BY <2>3, <2>4, <2>7
<1>9. s.tasks # <<>> => Head(s.tasks) \in Range(s.tasks)
  BY <1>2, SeqLemma
<1> QED
  BY <1>4, <1>6, <1>7, <1>8, <1>9

\* What is finished and what is pending after the step.
LEMMA StepsFinished ==
  ASSUME AllOK, AllOK', NEW c \in Cards, NEW s, NEW pre, NEW n, Steps(c, s, pre, n), NEW o
  PROVE  /\ Finished(c, o)' => Finished(c, o) \/ \E i \in 1..n : o = pre[i]
         /\ Pending(c, o)' => Pending(c, o) \/ (s.asks # <<>> /\ o = Head(s.tasks))
<1>0. PICK new : new = CardSends(c, s)
  OBVIOUS
<1>1. /\ Sends(c, new) /\ Added(new, Router) = DoneMail(s) /\ Added(new, Owner[c]) = AskMail(s)
      /\ \A y : y # Router /\ y # Owner[c] => Added(new, y) = <<>>
      /\ \A m \in Range(DoneMail(s)) : \E i \in 1..n : m.op = pre[i]
      /\ \A m \in Range(AskMail(s)) : s.asks # <<>> /\ m \in AskOf(Head(s.tasks))
  BY <1>0, StepsMail
<1>2. UNCHANGED <<sent, operations, results>>
  BY DEF Steps
<1>3. c \in Actors /\ c # Router /\ Owner[c] \in Actors /\ c # Owner[c] /\ Router \in Actors /\ TypeOK
  BY CardType, AllParts
<1>4. /\ InMail(Router)' \subseteq InMail(Router) \cup Range(DoneMail(s))
      /\ InMail(Owner[c])' \subseteq InMail(Owner[c]) \cup Range(AskMail(s))
      /\ InMail(c)' \subseteq InMail(c)
  BY <1>1, <1>3, DeliverLemma, FewLemma
<1>5. ASSUME Finished(c, o)' PROVE Finished(c, o) \/ \E i \in 1..n : o = pre[i]
  <2>1. /\ OfCard(o, c)
        /\ \/ \E m \in InMail(Router)' : m.type = "OperationCompleted" /\ m.op = o
           \/ \E r \in Range(results) : r.op = o
    BY <1>2, <1>5, SameOps DEF Finished
  <2> QED
    BY <1>1, <1>4, <2>1 DEF Finished
<1>6. ASSUME Pending(c, o)' PROVE Pending(c, o) \/ (s.asks # <<>> /\ o = Head(s.tasks))
  <2>1. ChargeOf(o, c) /\ (Asked(c, o)' \/ Replied(c, o)')
    BY <1>2, <1>6, SameOps DEF Pending
  <2>2. Replied(c, o)' => Replied(c, o)
    BY <1>4 DEF Replied
  <2>3. ASSUME Asked(c, o)' PROVE Asked(c, o) \/ (s.asks # <<>> /\ o = Head(s.tasks))
    <3>1. PICK m \in InMail(Owner[c])' : m \in AskOf(o)
      BY <2>3 DEF Asked
    <3>2. m \in AskOf(Head(s.tasks)) => o = Head(s.tasks)
      BY <3>1 DEF AskOf
    <3> QED
      BY <1>1, <1>4, <3>1, <3>2 DEF Asked
  <2> QED
    BY <2>1, <2>2, <2>3 DEF Pending
<1> QED
  BY <1>5, <1>6

\* The tasks that remain after a run of the queue are in order.
LEMMA StepsTasks ==
  ASSUME AllOK, AllOK', OrderInv, NEW c \in Cards, NEW s, NEW pre, NEW n, Steps(c, s, pre, n),
         Queued(c, pre), \A k \in InMail(c)' \cap Tasks, p \in Range(pre) : p < k.op,
         Unreplaced => \A o : Pending(c, o)' => s.tasks # <<>> /\ o = Head(s.tasks)
  PROVE  TasksInv(c)'
<1>0. PICK new : new = CardSends(c, s)
  OBVIOUS
<1>1. /\ Sends(c, new) /\ card'[c].tasks = s.tasks
      /\ \A y : y # Router /\ y # Owner[c] => Added(new, y) = <<>>
  BY <1>0, StepsMail
<1>2. UNCHANGED <<sent, operations, results>> /\ Shape(c, s, pre, n) /\ TasksInv(c)
  BY DEF Steps, OrderInv
<1>3. Ops' = Ops /\ Tasks' = Tasks /\ c \in Actors /\ c # Router /\ c # Owner[c]
  BY <1>2, SameOps, CardType
<1>4. /\ \A i, j \in DOMAIN s.tasks : i < j => s.tasks[i] < s.tasks[j]
      /\ \A o \in Range(s.tasks) : o \in Range(pre) /\ \A i \in 1..n : pre[i] < o
      /\ \A i \in 1..n : pre[i] \in Range(pre)
      /\ \A o \in Range(s.tasks) : Head(s.tasks) <= o
      /\ s.tasks # <<>> => Head(s.tasks) \in Range(s.tasks)
  BY <1>2, QueueParts
<1>5. NoneNew(c, Tasks)
  <2>1. Range(Added(new, c)) \cap Tasks = {}
    BY <1>1, <1>3, FewLemma
  <2> QED
    BY <1>1, <1>3, <2>1, NoneNewLemma
<1>6. Ordered(mailbox'[c], Tasks) /\ InMail(c)' \cap Tasks \subseteq InMail(c) \cap Tasks
  BY <1>2, <1>5 DEF TasksInv, NoneNew
<1>7. s.asks # <<>> => s.tasks # <<>>
  BY <1>2, ShapeMail
<1>8. \A o : /\ Finished(c, o)' => Finished(c, o) \/ \E i \in 1..n : o = pre[i]
             /\ Pending(c, o)' => Pending(c, o) \/ (s.asks # <<>> /\ o = Head(s.tasks))
  BY StepsFinished
<1>9. ASSUME NEW m \in InMail(c)' \cap Tasks
      PROVE  /\ \A o \in Range(s.tasks) : o < m.op
             /\ \A o \in Ops : Finished(c, o)' => o < m.op
             /\ \A o \in Ops : Pending(c, o)' => o < m.op
  <2>1. \A o \in Range(s.tasks) : o < m.op
    BY <1>4, <1>9
  <2>2. \A i \in 1..n : pre[i] < m.op
    BY <1>4, <1>9
  <2>3. \A o \in Ops : (Finished(c, o) => o < m.op) /\ (Pending(c, o) => o < m.op)
    BY <1>2, <1>6, <1>9 DEF TasksInv
  <2> QED
    BY <1>4, <1>7, <1>8, <2>1, <2>2, <2>3
<1>10. ASSUME NEW p \in Range(s.tasks)
       PROVE  /\ \A o \in Ops : Finished(c, o)' => o < p
              /\ \A o \in Ops : Pending(c, o)' => o <= p
  <2>1. \A o : (Finished(c, o) => o < p) /\ (Pending(c, o) => o <= p)
    BY <1>4, <1>10 DEF Queued
  <2>2. Head(s.tasks) <= p /\ \A i \in 1..n : pre[i] < p
    BY <1>4, <1>10
  <2> QED
    BY <1>8, <2>1, <2>2
<1>11. Unreplaced' => Unreplaced
  BY <1>2, SameOps DEF Unreplaced
<1> QED
  BY <1>1, <1>3, <1>4, <1>6, <1>9, <1>10, <1>11 DEF TasksInv

\* The completions that a run of the queue sends are in order.
LEMMA StepsResults ==
  ASSUME AllOK, AllOK', OrderInv, NEW c \in Cards, NEW s, NEW pre, NEW n, Steps(c, s, pre, n),
         Queued(c, pre)
  PROVE  ResultsInv(c)'
<1>0. PICK new : new = CardSends(c, s)
  OBVIOUS
<1>1. /\ Sends(c, new) /\ Added(new, Router) = DoneMail(s)
      /\ \A m \in Range(DoneMail(s)) : \E i \in 1..n : m.op = pre[i]
  BY <1>0, StepsMail
<1>2. UNCHANGED <<sent, operations, results>> /\ Shape(c, s, pre, n) /\ ResultsInv(c) /\ TypeOK
  BY AllParts DEF Steps, OrderInv
<1>3. /\ Completions(c)' = Completions(c) /\ Router \in Actors
      /\ \A o : OfCard(o, c)' <=> OfCard(o, c)
  BY <1>2, SameOps, CardType
<1>4. \A i \in 1..n : pre[i] \in Range(pre) /\ \A o : Finished(c, o) => o < pre[i]
  BY <1>2, QueueParts DEF Queued
<1>5. Ordered(DoneMail(s), Completions(c))
  <2>1. /\ DoneMail(s) \in Seq(RouterMsg) /\ Len(DoneMail(s)) = n /\ n \in Nat
        /\ \A i \in 1..n : DoneMail(s)[i].op = pre[i]
    <3>1. DoneAre(c, s, pre, n)
      BY <1>2, ShapeMail
    <3> QED
      BY <3>1 DEF DoneAre
  <2>2. DOMAIN DoneMail(s) = 1..n
    BY <2>1, SeqLemma
  <2>3. \A i, j \in 1..n : i < j => pre[i] < pre[j]
    <3>1. pre \in Seq(Nat) /\ n \in 0..Len(pre)
      BY <1>2 DEF Shape
    <3>2. PICK l \in Nat : l = Len(pre) /\ DOMAIN pre = 1..l
      BY <3>1, SeqLemma
    <3>3. \A i \in 1..n : i \in DOMAIN pre
      BY <3>1, <3>2
    <3> QED
      BY <3>3 DEF Queued
  <2> QED
    BY <2>1, <2>2, <2>3 DEF Ordered
<1>6. \A m \in InMail(Router) \cap Completions(c) : Finished(c, m.op)
  BY DEF Completions, Finished
<1>7. \A r \in Range(results) : OfCard(r.op, c) => Finished(c, r.op)
  BY DEF Finished
<1>8. Ordered(mailbox'[Router], Completions(c))
  <2>1. \A m \in InMail(Router) \cap Completions(c), k \in Range(DoneMail(s)) \cap Completions(c) : m.op < k.op
    BY <1>1, <1>4, <1>6
  <2>2. Ordered(mailbox[Router], Completions(c))
    BY <1>2 DEF ResultsInv
  <2> QED
    BY <1>1, <1>2, <1>3, <1>5, <2>1, <2>2, DeliverLemma
<1>9. ASSUME NEW r \in Range(results), NEW m \in InMail(Router)' \cap Completions(c), OfCard(r.op, c)
      PROVE  r.op < m.op
  <2>1. m \in InMail(Router) \/ m \in Range(DoneMail(s))
    BY <1>1, <1>2, <1>3, <1>9, DeliverLemma
  <2>2. CASE m \in InMail(Router)
    BY <1>2, <1>9, <2>2 DEF ResultsInv
  <2>3. CASE m \in Range(DoneMail(s))
    BY <1>1, <1>4, <1>7, <1>9, <2>3
  <2> QED
    BY <2>1, <2>2, <2>3
<1> QED
  BY <1>2, <1>3, <1>8, <1>9 DEF ResultsInv

\* The current task after a run of the queue is served.
LEMMA StepsServed ==
  ASSUME AllOK, AllOK', OrderInv, NEW c \in Cards, NEW s, NEW pre, NEW n, Steps(c, s, pre, n),
         s.asks # <<>> => ~Pending(c, Head(s.tasks)),
         s.asks = <<>> /\ s.tasks # <<>> => Head(mailbox[c]) \notin RepliesTo(Head(s.tasks))
  PROVE  ServedInv(c)'
<1>0. PICK new, o : new = CardSends(c, s) /\ o = Head(s.tasks)
  OBVIOUS
<1>1. /\ Sends(c, new) /\ Added(new, Owner[c]) = AskMail(s) /\ card'[c].tasks = s.tasks
      /\ \A y : y # Router /\ y # Owner[c] => Added(new, y) = <<>>
  BY <1>0, StepsMail
<1>2. UNCHANGED <<sent, operations, results>> /\ Shape(c, s, pre, n) /\ ServedInv(c) /\ TypeOK
  BY AllParts DEF Steps, OrderInv
<1>3. /\ c \in Actors /\ c # Router /\ c # Owner[c] /\ Owner[c] \in Actors
      /\ Range(Added(new, c)) = {}
  <2>1. c \in Actors /\ c # Router /\ c # Owner[c] /\ Owner[c] \in Actors
    BY CardType
  <2> QED
    BY <1>1, <2>1, FewLemma
<1>4. CASE s.tasks = <<>>
  BY <1>1, <1>4 DEF ServedInv
<1>5. CASE s.tasks # <<>> /\ s.asks = <<>>
  <2>1. card[c].tasks # <<>> /\ Head(s.tasks) = Head(card[c].tasks)
    BY <1>2, <1>5 DEF Shape
  <2>2. SameCurrent(c)
    BY <1>1, <2>1 DEF SameCurrent
  <2>3. AskMail(s) = <<>>
    BY <1>2, <1>5, ShapeMail
  <2>4. Range(Added(new, Owner[c])) = {}
    BY <1>1, <2>3, FewLemma
  <2> QED
    BY <1>1, <1>2, <1>3, <1>5, <2>1, <2>2, <2>4, ServedMail
<1>6. CASE s.tasks # <<>> /\ s.asks # <<>>
  <2>1. PICK m : m = [type |-> "ApplyCharge", op |-> o]
    OBVIOUS
  <2>2. AskMail(s) = <<m>> /\ ChargeOf(o, c) /\ m \in AskOf(o)
    BY <1>0, <1>2, <1>6, <2>1, ShapeMail DEF AskOf
  <2>3. InMail(Owner[c]) \cap AskOf(o) = {} /\ InMail(c) \cap RepliesTo(o) = {}
    BY <1>0, <1>6, <2>2 DEF Pending, Asked, Replied
  <2>4. /\ AtMostOne(mailbox[Owner[c]], AskOf(o)) /\ AtMostOne(Added(new, Owner[c]), AskOf(o))
        /\ AtMostOne(mailbox[c], RepliesTo(o))
    <3>1. AtMostOne(Added(new, Owner[c]), AskOf(o))
      BY <1>1, <2>2, FewLemma
    <3>2. AtMostOne(mailbox[Owner[c]], AskOf(o))
      BY <2>3 DEF AtMostOne, InMail, Range
    <3>3. AtMostOne(mailbox[c], RepliesTo(o))
      BY <2>3 DEF AtMostOne, InMail, Range
    <3> QED
      BY <3>1, <3>2, <3>3
  <2>5. AtMostOne(mailbox'[Owner[c]], AskOf(o))
    BY <1>1, <1>2, <1>3, <2>3, <2>4, DeliverLemma
  <2>6. NoneNew(c, RepliesTo(o))
    BY <1>1, <1>3, NoneNewLemma
  <2>7. m \in InMail(Owner[c])'
    <3>1. Range(Added(new, Owner[c])) = {m}
      BY <1>1, <2>2, FewLemma
    <3> QED
      BY <1>1, <1>2, <1>3, <3>1, DeliverLemma
  <2>8. Asked(c, o)' /\ ~Replied(c, o)'
    BY <2>2, <2>3, <2>6, <2>7 DEF Asked, Replied, NoneNew
  <2>9. AtMostOne(mailbox'[c], RepliesTo(o)) /\ ChargeOf(o, c)'
    BY <1>2, <2>2, <2>4, <2>6, SameOps DEF NoneNew
  <2>10. Head(card'[c].tasks) = o
    BY <1>0, <1>1
  <2> QED
    BY <2>5, <2>8, <2>9, <2>10 DEF ServedInv
<1> QED
  BY <1>4, <1>5, <1>6

\* A card that runs its tasks in order keeps them in order.
LEMMA StepsOrder ==
  ASSUME AllOK, AllOK', OrderInv, NEW c \in Cards, NEW s, NEW pre, NEW n, Steps(c, s, pre, n),
         Queued(c, pre), \A k \in InMail(c)' \cap Tasks, p \in Range(pre) : p < k.op,
         n = 0 /\ card[c].tasks = <<>> => \A o \in Range(pre) : ~Pending(c, o),
         n = 0 => Head(mailbox[c]).type # "AccountChargeReply",
         Unreplaced => \A o : Pending(c, o)' => s.tasks # <<>> /\ o = Head(s.tasks)
  PROVE  OrderInv'
<1>1. Shape(c, s, pre, n)
  BY DEF Steps
<1>2. /\ \A o \in Range(s.tasks) : o \in Range(pre) /\ \A i \in 1..n : pre[i] < o
      /\ \A i \in 1..n : pre[i] \in Range(pre)
      /\ s.tasks # <<>> => Head(s.tasks) \in Range(s.tasks)
  BY <1>1, QueueParts
<1>3. n \in Nat /\ \A p \in Range(pre) : p \in Nat
  <2>1. pre \in Seq(Nat) /\ n \in 0..Len(pre)
    BY <1>1 DEF Shape
  <2> QED
    BY <2>1, SeqLemma
<1>4. ASSUME s.asks # <<>> PROVE ~Pending(c, Head(s.tasks))
  <2>0. PICK o : o = Head(s.tasks)
    OBVIOUS
  <2>1. s.tasks # <<>> /\ (card[c].tasks = <<>> \/ n > 0)
    BY <1>1, <1>4 DEF Shape
  <2>2. o \in Range(pre) /\ o \in Nat /\ \A i \in 1..n : pre[i] < o
    BY <1>2, <1>3, <2>0, <2>1
  <2>3. CASE n = 0
    BY <2>0, <2>1, <2>2, <2>3
  <2>4. CASE n > 0
    <3>1. pre[1] < o /\ pre[1] \in Range(pre) /\ pre[1] \in Nat
      <4>1. 1 \in 1..n
        BY <1>3, <2>4
      <4> QED
        BY <1>2, <1>3, <2>2, <4>1
    <3>2. Pending(c, o) => o <= pre[1]
      BY <3>1 DEF Queued
    <3> QED
      BY <2>0, <2>2, <3>1, <3>2
  <2> QED
    BY <1>3, <2>3, <2>4
<1>5. ASSUME s.asks = <<>>, s.tasks # <<>> PROVE Head(mailbox[c]) \notin RepliesTo(Head(s.tasks))
  <2>1. n = 0
    BY <1>1, <1>5 DEF Shape
  <2> QED
    BY <2>1 DEF RepliesTo
<1>6. TasksInv(c)'
  BY StepsTasks
<1>7. ServedInv(c)'
  BY <1>4, <1>5, StepsServed
<1>8. ResultsInv(c)'
  BY StepsResults
<1>9. CommandsInv' /\ \A d \in Cards : d # c => TasksInv(d)' /\ ServedInv(d)' /\ ResultsInv(d)'
  BY StepsOthers
<1> QED
  BY <1>6, <1>7, <1>8, <1>9 DEF OrderInv

\* The tasks of a card are queued; so are they with a new one.
LEMMA TasksQueued ==
  ASSUME AllOK, NEW c \in Cards, TasksInv(c)
  PROVE  /\ Queued(c, card[c].tasks)
         /\ \A m \in InMail(c) \cap Tasks : m.op \in Nat =>
              Queued(c, Append(card[c].tasks, m.op)) /\ ~Pending(c, m.op)
<1>0. PICK tasks : tasks = card[c].tasks
  OBVIOUS
<1>1. \A o : (Finished(c, o) => o \in Ops) /\ (Pending(c, o) => o \in Ops)
  BY DEF Finished, Pending, ChargeOf, OfCard
<1>2. /\ \A i, j \in DOMAIN tasks : i < j => tasks[i] < tasks[j]
      /\ \A p \in Range(tasks) : /\ \A o : Finished(c, o) => o < p
                                 /\ \A o : Pending(c, o) => o <= p
  BY <1>0, <1>1 DEF TasksInv
<1>3. ASSUME NEW m \in InMail(c) \cap Tasks, m.op \in Nat
      PROVE  Queued(c, Append(tasks, m.op)) /\ ~Pending(c, m.op)
  <2>1. /\ \A p \in Range(tasks) : p < m.op
        /\ \A o : Finished(c, o) => o < m.op
        /\ \A o : Pending(c, o) => o < m.op
    BY <1>0, <1>1, <1>3 DEF TasksInv
  <2>2. tasks \in Seq(Nat)
    BY <1>0, CardType
  <2>3. PICK l \in Nat : l = Len(tasks) /\ DOMAIN tasks = 1..l
    BY <2>2, SeqLemma
  <2>4. /\ Append(tasks, m.op) \in Seq(Nat) /\ Len(Append(tasks, m.op)) = l + 1
        /\ Append(tasks, m.op)[l + 1] = m.op
        /\ \A i \in 1..l : Append(tasks, m.op)[i] = tasks[i]
        /\ Range(Append(tasks, m.op)) = Range(tasks) \cup {m.op}
    BY <1>3, <2>2, <2>3, AppendLemma
  <2>5. PICK q : q = Append(tasks, m.op)
    OBVIOUS
  <2>6. DOMAIN q = 1..(l + 1) /\ q[l + 1] = m.op /\ \A i \in 1..l : q[i] = tasks[i]
    BY <2>4, <2>5, SeqLemma
  <2>7. ASSUME NEW i \in DOMAIN q, NEW j \in DOMAIN q, i < j PROVE q[i] < q[j]
    <3>1. i \in 1..l /\ (j \in 1..l \/ j = l + 1)
      BY <2>6, <2>7
    <3>2. CASE j \in 1..l
      BY <1>2, <2>3, <2>6, <2>7, <3>1, <3>2
    <3>3. CASE j = l + 1
      <4>1. tasks[i] \in Range(tasks)
        BY <2>3, <3>1 DEF Range
      <4> QED
        BY <2>1, <2>6, <3>1, <3>3, <4>1
    <3> QED
      BY <3>1, <3>2, <3>3
  <2>8. \A p \in Range(q) : /\ \A o : Finished(c, o) => o < p
                            /\ \A o : Pending(c, o) => o <= p
    <3>1. \A o \in Ops : o < m.op => o <= m.op
      BY <1>3 DEF Ops
    <3> QED
      BY <1>1, <1>2, <2>1, <2>4, <2>5, <3>1
  <2>9. ~Pending(c, m.op)
    BY <1>3, <2>1
  <2> QED
    BY <2>5, <2>7, <2>8, <2>9 DEF Queued
<1> QED
  BY <1>0, <1>2, <1>3 DEF Queued

\* A busy card queues its new task.
LEMMA OfferBusy ==
  ASSUME NEW c, NEW o, card[c].tasks # <<>>, NEW s, s = Offer(Run(c, card[c].tasks), o)
  PROVE  /\ s.tasks = Append(card[c].tasks, o) /\ s.asks = <<>> /\ s.done = <<>>
         /\ s.limit = card[c].limit /\ s.consumed = card[c].consumed
<1>1. PICK r : r = Run(c, card[c].tasks)
  OBVIOUS
<1>2. r = [limit |-> card[c].limit, consumed |-> card[c].consumed, tasks |-> card[c].tasks,
           asks |-> <<>>, done |-> <<>>]
  BY <1>1 DEF Run
<1>3. s = [r EXCEPT !.tasks = Append(r.tasks, o)]
  BY <1>1, <1>2 DEF Offer
<1> QED
  BY <1>2, <1>3

\* ExecuteCharge and ExecuteLimitChange, as steps of the queue.
LEMMA TaskSteps ==
  ASSUME AllOK, OrderInv, NEW c \in Cards, CardTask(c), NEW o, o = Head(mailbox[c]).op,
         NEW s, s = Offer(Run(c, card[c].tasks), o), NEW pre, pre = Append(card[c].tasks, o)
  PROVE  /\ Head(mailbox[c]) \in InMail(c) /\ Head(mailbox[c]).type = "Task"
         /\ o \in Executed /\ OfCard(o, c) /\ o \in Nat
         /\ \E n : Steps(c, s, pre, n)
         /\ Queued(c, pre) /\ ~Pending(c, o) /\ Range(pre) = Range(card[c].tasks) \cup {o}
         /\ \A k \in InMail(c)' \cap Tasks, p \in Range(pre) : p < k.op
<1>0. PICK h : h = Head(mailbox[c]) /\ o = h.op
  OBVIOUS
<1>1. /\ mailbox[c] # <<>> /\ h.type = "Task" /\ Becomes(c, s)
      /\ UNCHANGED <<sent, operations, results>>
  BY <1>0 DEF CardTask, HasMail, routerVars
<1>2. /\ c \in Actors /\ c # Router /\ c # Owner[c] /\ Letter(c) = CardMsg
      /\ card[c].tasks \in Seq(Nat)
  BY CardType
<1>3. o \in Executed /\ OfCard(o, c)
  BY <1>0, <1>1, TaskHead
<1>4. h \in InMail(c) /\ h \in Tasks /\ o \in Nat
  <2>1. h \in InMail(c) /\ h \in CardMsg
    BY <1>0, <1>1, <1>2, HeadLemma
  <2> QED
    BY <1>0, <1>1, <2>1, CardFields DEF Tasks
<1>5. PICK n : Shape(c, s, pre, n)
  BY <1>0, <1>3, TaskShape
<1>6. Steps(c, s, pre, n)
  BY <1>1, <1>5 DEF Steps
<1>7. TasksInv(c) /\ TypeOK
  BY AllParts DEF OrderInv
<1>8. Queued(c, pre) /\ ~Pending(c, o)
  BY <1>0, <1>4, <1>7, TasksQueued
<1>9. Range(pre) = Range(card[c].tasks) \cup {o}
  BY <1>0, <1>2, <1>4, AppendLemma
<1>10. ASSUME NEW k \in InMail(c)' \cap Tasks, NEW p \in Range(pre) PROVE p < k.op
  <2>0. PICK new : new = CardSends(c, s)
    OBVIOUS
  <2>1. Sends(c, new) /\ Range(Added(new, c)) = {}
    <3>1. Sends(c, new) /\ Added(new, c) = <<>>
      BY <1>2, <1>6, <2>0, StepsMail
    <3> QED
      BY <3>1, FewLemma
  <2>2. k \in InMail(c)
    BY <1>2, <1>7, <1>10, <2>1, DeliverLemma
  <2>3. o < k.op
    <3>1. Head(mailbox[c]) \in Tasks /\ Range(Added(new, c)) \cap Tasks = {} /\ Ordered(mailbox[c], Tasks)
      BY <1>0, <1>4, <1>7, <2>1 DEF TasksInv
    <3>2. Head(mailbox[c]).op < k.op
      BY <1>7, <1>10, <2>1, <3>1, DeliverLemma
    <3> QED
      BY <1>0, <3>2
  <2>4. \A q \in Range(card[c].tasks) : q < k.op
    BY <1>7, <1>10, <2>2 DEF TasksInv
  <2> QED
    BY <1>9, <1>10, <2>3, <2>4
<1> QED
  BY <1>0, <1>1, <1>3, <1>4, <1>6, <1>8, <1>9, <1>10

\* The same steps keep the order.
LEMMA CardTaskOrder ==
  ASSUME AllOK, AllOK', OrderInv, NEW c \in Cards, CardTask(c)
  PROVE  OrderInv'
<1>0. PICK o, s, pre : /\ o = Head(mailbox[c]).op /\ s = Offer(Run(c, card[c].tasks), o)
                       /\ pre = Append(card[c].tasks, o)
  OBVIOUS
<1>1. /\ o \in Nat /\ Head(mailbox[c]).type = "Task" /\ \E n : Steps(c, s, pre, n)
      /\ Queued(c, pre) /\ ~Pending(c, o) /\ Range(pre) = Range(card[c].tasks) \cup {o}
      /\ \A k \in InMail(c)' \cap Tasks, p \in Range(pre) : p < k.op
  BY <1>0, TaskSteps
<1>2. PICK n : Steps(c, s, pre, n)
  BY <1>1
<1>3. card[c].tasks \in Seq(Nat) /\ TasksInv(c)
  BY CardType DEF OrderInv
<1>4. card[c].tasks = <<>> => \A p \in Range(pre) : ~Pending(c, p)
  BY <1>1, FewLemma
<1>5. ASSUME Unreplaced, NEW p, Pending(c, p)' PROVE s.tasks # <<>> /\ p = Head(s.tasks)
  <2>1. Pending(c, p) \/ (s.asks # <<>> /\ p = Head(s.tasks))
    BY <1>2, <1>5, StepsFinished
  <2>2. s.asks # <<>> => s.tasks # <<>>
    BY <1>2, ShapeMail DEF Steps
  <2>3. CASE Pending(c, p)
    <3>1. card[c].tasks # <<>> /\ p = Head(card[c].tasks)
      BY <1>3, <1>5, <2>3 DEF TasksInv, Pending, ChargeOf, OfCard
    <3>2. s.tasks = pre
      <4>1. s = Offer(Run(c, card[c].tasks), o)
        BY <1>0
      <4>2. s.tasks = Append(card[c].tasks, o)
        BY <3>1, <4>1, OfferBusy
      <4> QED
        BY <1>0, <4>2
    <3>3. pre # <<>> /\ Head(pre) = Head(card[c].tasks)
      BY <1>0, <1>1, <1>3, <3>1
    <3> QED
      BY <3>1, <3>2, <3>3
  <2> QED
    BY <2>1, <2>2, <2>3
<1> QED
  BY <1>1, <1>2, <1>4, <1>5, StepsOrder

\* The charge that is answered is no longer pending, unless it is put to the account again.
LEMMA StepsAnswered ==
  ASSUME AllOK, OrderInv, NEW c \in Cards, NEW s, NEW pre, NEW n, Steps(c, s, pre, n),
         NEW m, m = Head(mailbox[c]), m.type = "AccountChargeReply",
         card[c].tasks # <<>>, Head(card[c].tasks) = m.op, Pending(c, m.op)'
  PROVE  s.asks # <<>> /\ m.op = Head(s.tasks)
<1>0. PICK new, o : new = CardSends(c, s) /\ o = m.op
  OBVIOUS
<1>1. /\ Sends(c, new) /\ Added(new, Owner[c]) = AskMail(s)
      /\ \A y : y # Router /\ y # Owner[c] => Added(new, y) = <<>>
      /\ \A k \in Range(AskMail(s)) : s.asks # <<>> /\ k \in AskOf(Head(s.tasks))
  BY <1>0, StepsMail
<1>2. /\ c \in Actors /\ c # Router /\ c # Owner[c] /\ Owner[c] \in Actors /\ Letter(c) = CardMsg
      /\ TypeOK /\ mailbox[c] # <<>>
  BY CardType, AllParts DEF Steps
<1>3. m \in InMail(c) /\ m \in RepliesTo(o)
  BY <1>0, <1>2, HeadLemma, AskReply
<1>4. /\ AtMostOne(mailbox[c], RepliesTo(o)) /\ (Asked(c, o) <=> ~Replied(c, o))
  BY <1>0 DEF OrderInv, ServedInv
<1>5. ~Asked(c, o)
  BY <1>3, <1>4 DEF Replied
<1>6. InMail(c)' \cap RepliesTo(o) = {}
  <2>1. Range(Added(new, c)) \cap RepliesTo(o) = {} /\ Head(mailbox[c]) \in RepliesTo(o)
    BY <1>0, <1>1, <1>2, <1>3, FewLemma
  <2> QED
    BY <1>1, <1>2, <1>4, <2>1, DeliverLemma
<1>7. Asked(c, o)'
  <2>1. RepliesTo(o)' = RepliesTo(o)
    BY DEF RepliesTo
  <2>2. Asked(c, o)' \/ Replied(c, o)'
    BY <1>0 DEF Pending
  <2> QED
    BY <1>6, <2>2 DEF Replied
<1>8. PICK k \in InMail(Owner[c])' : k \in AskOf(o)
  BY <1>7 DEF Asked
<1>9. k \in Range(AskMail(s))
  BY <1>1, <1>2, <1>5, <1>8, DeliverLemma DEF Asked
<1>10. k \in AskOf(Head(s.tasks)) => Head(s.tasks) = o
  BY <1>8 DEF AskOf
<1> QED
  BY <1>0, <1>1, <1>9, <1>10

\* AccountChargeReply to the current charge, as steps of the queue.
LEMMA ReplySteps ==
  ASSUME AllOK, OrderInv, NEW c \in Cards, CardReply(c), NEW m, m = Head(mailbox[c]),
         NEW s, s = AfterReply(c, m), card[c].tasks # <<>>, Head(card[c].tasks) = m.op
  PROVE  /\ m \in InMail(c) /\ m.type = "AccountChargeReply"
         /\ \E n \in Nat \ {0} : Steps(c, s, card[c].tasks, n)
         /\ s.consumed = ConsumedAfter(c, m) /\ Queued(c, card[c].tasks)
         /\ \A k \in InMail(c)' \cap Tasks, p \in Range(card[c].tasks) : p < k.op
<1>1. /\ mailbox[c] # <<>> /\ m.type = "AccountChargeReply" /\ Becomes(c, s)
      /\ UNCHANGED <<sent, operations, results>>
  BY DEF CardReply, AfterReply, HasMail, routerVars
<1>2. c \in Actors /\ c # Router /\ c # Owner[c] /\ m \in InMail(c)
  BY <1>1, CardType, HeadLemma
<1>3. m.ok \in BOOLEAN /\ ConsumedAfter(c, m) \in Nat
  BY <1>1, ReplyHead
<1>4. /\ \E n \in Nat \ {0} : Shape(c, s, card[c].tasks, n)
      /\ s.consumed = ConsumedAfter(c, m)
  <2>0. m.op = Head(card[c].tasks)
    OBVIOUS
  <2> QED
    BY <1>3, <2>0, ReplyShape
<1>5. PICK n \in Nat \ {0} : Shape(c, s, card[c].tasks, n)
  BY <1>4
<1>6. Steps(c, s, card[c].tasks, n)
  BY <1>1, <1>5 DEF Steps
<1>7. TasksInv(c) /\ TypeOK /\ Queued(c, card[c].tasks)
  BY AllParts, TasksQueued DEF OrderInv
<1>8. ASSUME NEW k \in InMail(c)' \cap Tasks, NEW p \in Range(card[c].tasks) PROVE p < k.op
  <2>0. PICK new : new = CardSends(c, s)
    OBVIOUS
  <2>1. Sends(c, new) /\ Added(new, c) = <<>>
    BY <1>2, <1>6, <2>0, StepsMail
  <2>2. k \in InMail(c)
    BY <1>2, <1>7, <1>8, <2>1, DeliverLemma, FewLemma
  <2> QED
    BY <1>7, <1>8, <2>2 DEF TasksInv
<1> QED
  BY <1>1, <1>2, <1>4, <1>5, <1>6, <1>7, <1>8

\* AccountChargeReply.
LEMMA CardReplyOrder ==
  ASSUME AllOK, AllOK', OrderInv, NEW c \in Cards, CardReply(c)
  PROVE  OrderInv'
<1>0. PICK m, s, pre : m = Head(mailbox[c]) /\ s = AfterReply(c, m) /\ pre = card[c].tasks
  OBVIOUS
<1>1. /\ mailbox[c] # <<>> /\ m.type = "AccountChargeReply"
      /\ UNCHANGED <<sent, operations, results>>
  BY <1>0 DEF CardReply, HasMail, routerVars
<1>2. CASE ~(card[c].tasks # <<>> /\ Head(card[c].tasks) = m.op)
  <2>1. Deliver(c, To(Router, Debug)) /\ UNCHANGED card
    BY <1>0, <1>2 DEF CardReply
  <2> QED
    BY <1>0, <1>1, <1>2, <2>1, CardDropsOrder
<1>3. CASE card[c].tasks # <<>> /\ Head(card[c].tasks) = m.op
  <2>1. /\ \E n \in Nat \ {0} : Steps(c, s, pre, n)
        /\ Queued(c, pre) /\ \A k \in InMail(c)' \cap Tasks, p \in Range(pre) : p < k.op
    BY <1>0, <1>3, ReplySteps
  <2>2. PICK n \in Nat \ {0} : Steps(c, s, pre, n)
    BY <2>1
  <2>3. Pending(c, m.op)' => s.asks # <<>> /\ m.op = Head(s.tasks)
    BY <1>0, <1>1, <1>3, <2>2, StepsAnswered
  <2>4. TasksInv(c)
    BY DEF OrderInv
  <2>5. ASSUME Unreplaced, NEW p, Pending(c, p)' PROVE s.tasks # <<>> /\ p = Head(s.tasks)
    <3>1. s.asks # <<>> => s.tasks # <<>>
      BY <2>2, ShapeMail DEF Steps
    <3>2. Pending(c, p) \/ (s.asks # <<>> /\ p = Head(s.tasks))
      BY <2>2, <2>5, StepsFinished
    <3>3. ASSUME Pending(c, p) PROVE p = m.op
      BY <1>3, <2>4, <2>5, <3>3 DEF TasksInv, Pending, ChargeOf, OfCard
    <3> QED
      BY <2>3, <2>5, <3>1, <3>2, <3>3
  <2> QED
    BY <2>1, <2>2, <2>5, StepsOrder
<1> QED
  BY <1>2, <1>3

\* Initially there is nothing to be out of order.
LEMMA InitOrder == Init => OrderInv
<1> SUFFICES ASSUME Init PROVE OrderInv
  OBVIOUS
<1>1. \A y \in Actors : mailbox[y] = <<>> /\ InMail(y) = {}
  BY FewLemma DEF Init, InMail
<1>2. /\ Router \in Actors /\ results = <<>> /\ DOMAIN results = {} /\ Range(results) = {}
  BY ActorsApart, FewLemma DEF Init
<1>3. CommandsInv
  BY <1>1, <1>2, FewLemma DEF CommandsInv
<1>4. ASSUME NEW c \in Cards PROVE TasksInv(c) /\ ServedInv(c) /\ ResultsInv(c)
  <2>1. c \in Actors /\ card[c].tasks = <<>> /\ mailbox[c] = <<>> /\ InMail(c) = {}
    BY <1>1, ActorsApart DEF Init
  <2>2. Range(card[c].tasks) = {} /\ DOMAIN card[c].tasks = {}
    BY <2>1, FewLemma
  <2>6. \A o : ~Pending(c, o)
    <3>1. Owner[c] \in Actors
      BY ActorsApart
    <3> QED
      BY <1>1, <2>1, <3>1 DEF Pending, Asked, Replied
  <2>3. TasksInv(c)
    BY <2>1, <2>2, <2>6, FewLemma DEF TasksInv
  <2>4. ServedInv(c)
    BY <2>1 DEF ServedInv
  <2>5. ResultsInv(c)
    BY <1>1, <1>2, FewLemma DEF ResultsInv
  <2> QED
    BY <2>3, <2>4, <2>5
<1> QED
  BY <1>3, <1>4 DEF OrderInv

\* Every step keeps the order.
LEMMA NextOrder ==
  ASSUME AllOK, OrderInv, [Next]_vars
  PROVE  OrderInv'
<1>1. AllOK' /\ Grows
  BY NextOK
<1>2. CASE UNCHANGED vars
  BY <1>2, IdleOrder DEF vars, routerVars, history
<1>3. CASE Send
  BY <1>1, <1>3, SendOrder
<1>4. CASE Recv
  BY <1>4, IdleOrder DEF Recv, routerVars, history
<1>5. CASE RouterStep
  <2>1. ASSUME NEW o \in Ops,
               \/ ExecuteOnCard(o) \/ ExecuteLimitAccount(o) \/ ExecuteQuery(o)
               \/ ExecuteGetDatabase(o) \/ ExecuteReplaceDatabase(o)
        PROVE  OrderInv'
    BY <1>1, <2>1, ExecuteOnCardOrder, ExecuteLimitAccountOrder, ExecuteQueryOrder,
       ExecuteGetDatabaseOrder, ExecuteReplaceDatabaseOrder
  <2> QED
    BY <1>1, <1>5, <2>1, RouterCompletedOrder, RouterDebugOrder, RouterSnapshotOrder DEF RouterStep
<1>6. ASSUME NEW a \in Accounts, AccountStep(a) PROVE OrderInv'
  BY <1>1, <1>6, AccountChargeOrder, AccountLimitOrder, AccountStartOrder, AccountQueryReplyOrder,
     AccountSnapshotOrder, AccountReplaceOrder DEF AccountStep
<1>7. ASSUME NEW c \in Cards, CardStep(c) PROVE OrderInv'
  BY <1>1, <1>7, CardTaskOrder, CardReplyOrder, CardQueryOrder, CardSnapshotOrder,
     CardReplaceOrder DEF CardStep
<1> QED
  BY <1>2, <1>3, <1>4, <1>5, <1>6, <1>7 DEF Next

-----------------------------------------------------------------------------
(* Theorems *)

\* Every message, task and result is about an operation that the router has
\* executed, and the operations of a card pass through the actors in order.
THEOREM DatabaseInvariance == Spec => [](AllOK /\ OrderInv)
<1>1. Init => AllOK /\ OrderInv
  BY InitOK, InitOrder
<1>2. AllOK /\ OrderInv /\ [Next]_vars => (AllOK /\ OrderInv)'
  BY NextOK, NextOrder
<1> QED
  BY <1>1, <1>2, PTL DEF Spec

\* The state of the actors, their mailboxes and the channel of events have their types.
THEOREM DatabaseTypeCorrect == Spec => []TypeOK
<1>1. AllOK /\ OrderInv => TypeOK
  BY AllParts
<1> QED
  BY <1>1, DatabaseInvariance, PTL

\* A card that is busy waits for exactly one ask or reply (CardActor::current_task).
THEOREM BusyCardsServed == Spec => []BusyCardIsServed
<1>1. ASSUME AllOK, OrderInv PROVE BusyCardIsServed
  <2> SUFFICES ASSUME NEW c \in Cards, card[c].tasks # <<>>, NEW o, o = Head(card[c].tasks)
               PROVE  Cardinality({i \in 1..Len(mailbox[Owner[c]]) :
                         LET m == mailbox[Owner[c]][i] IN m.type = "ApplyCharge" /\ m.op = o})
                      + Cardinality({i \in 1..Len(mailbox[c]) :
                         LET m == mailbox[c][i] IN m.type = "AccountChargeReply" /\ m.op = o}) = 1
    BY DEF BusyCardIsServed
  <2>1. /\ AtMostOne(mailbox[Owner[c]], AskOf(o)) /\ AtMostOne(mailbox[c], RepliesTo(o))
        /\ Asked(c, o) <=> ~Replied(c, o)
    BY <1>1 DEF OrderInv, ServedInv
  <2>2. mailbox[Owner[c]] \in Seq(AccountMsg) /\ mailbox[c] \in Seq(CardMsg)
    <3>1. /\ c \in Actors /\ Letter(c) = CardMsg /\ Owner[c] \in Actors
          /\ Letter(Owner[c]) = AccountMsg
      BY <1>1, CardType
    <3> QED
      BY <1>1, <3>1 DEF AllOK, MailboxOK
  <2>3. PICK asks : asks = {i \in 1..Len(mailbox[Owner[c]]) :
                       LET m == mailbox[Owner[c]][i] IN m.type = "ApplyCharge" /\ m.op = o}
    OBVIOUS
  <2>4. PICK replies : replies = {i \in 1..Len(mailbox[c]) :
                       LET m == mailbox[c][i] IN m.type = "AccountChargeReply" /\ m.op = o}
    OBVIOUS
  <2>5. /\ asks = {i \in DOMAIN mailbox[Owner[c]] : mailbox[Owner[c]][i] \in AskOf(o)}
        /\ asks # {} <=> Asked(c, o)
    <3>1. DOMAIN mailbox[Owner[c]] = 1..Len(mailbox[Owner[c]])
          /\ \A i \in DOMAIN mailbox[Owner[c]] : mailbox[Owner[c]][i] \in AccountMsg
      BY <2>2, SeqLemma
    <3>2. \A m \in AccountMsg : m.type = "ApplyCharge" /\ m.op = o <=> m \in AskOf(o)
      BY AskReply DEF AskOf
    <3>3. asks = {i \in DOMAIN mailbox[Owner[c]] : mailbox[Owner[c]][i] \in AskOf(o)}
      BY <2>3, <3>1, <3>2
    <3> QED
      BY <3>3 DEF Asked, InMail, Range
  <2>6. /\ replies = {i \in DOMAIN mailbox[c] : mailbox[c][i] \in RepliesTo(o)}
        /\ replies # {} <=> Replied(c, o)
    <3>1. DOMAIN mailbox[c] = 1..Len(mailbox[c]) /\ \A i \in DOMAIN mailbox[c] : mailbox[c][i] \in CardMsg
      BY <2>2, SeqLemma
    <3>2. \A m \in CardMsg : m.type = "AccountChargeReply" /\ m.op = o <=> m \in RepliesTo(o)
      BY AskReply DEF RepliesTo
    <3>3. replies = {i \in DOMAIN mailbox[c] : mailbox[c][i] \in RepliesTo(o)}
      BY <2>4, <3>1, <3>2
    <3> QED
      BY <3>3 DEF Replied, InMail, Range
  <2>7. (asks = {} \/ \E i : asks = {i}) /\ (replies = {} \/ \E i : replies = {i})
    <3>1. \A i, j \in asks : i = j
      BY <2>1, <2>5 DEF AtMostOne
    <3>2. \A i, j \in replies : i = j
      BY <2>1, <2>6 DEF AtMostOne
    <3>3. ASSUME asks # {} PROVE \E i : asks = {i}
      <4>1. PICK i : i \in asks
        BY <3>3
      <4>2. asks = {i}
        BY <3>1, <4>1
      <4> QED
        BY <4>2
    <3>4. ASSUME replies # {} PROVE \E i : replies = {i}
      <4>1. PICK i : i \in replies
        BY <3>4
      <4>2. replies = {i}
        BY <3>2, <4>1
      <4> QED
        BY <4>2
    <3> QED
      BY <3>3, <3>4
  <2>8. Cardinality({}) = 0 /\ \A i : Cardinality({i}) = 1
    BY FS_EmptySet, FS_Singleton
  <2>9. Cardinality(asks) + Cardinality(replies) = 1
    <3>1. CASE asks = {}
      <4>1. replies # {}
        BY <2>1, <2>5, <2>6, <3>1
      <4>2. Cardinality(asks) = 0 /\ Cardinality(replies) = 1
        BY <2>7, <2>8, <3>1, <4>1
      <4> QED
        BY <4>2
    <3>2. CASE asks # {}
      <4>1. replies = {}
        BY <2>1, <2>5, <2>6, <3>2
      <4>2. Cardinality(asks) = 1 /\ Cardinality(replies) = 0
        BY <2>7, <2>8, <3>2, <4>1
      <4> QED
        BY <4>2
    <3> QED
      BY <3>1, <3>2
  <2> QED
    BY <2>3, <2>4, <2>9
<1> QED
  BY <1>1, DatabaseInvariance, PTL

\* The results of the operations of one card come in the order in which they were sent.
THEOREM CardsInOrder == Spec => []CardOrder
<1>1. ASSUME AllOK, OrderInv PROVE CardOrder
  <2> SUFFICES ASSUME NEW i \in 1..Len(results), NEW j \in 1..Len(results), i < j,
                      Op[results[i].op].kind \in {"Charge", "LimitCard"},
                      Op[results[j].op].kind \in {"Charge", "LimitCard"},
                      Op[results[i].op].card = Op[results[j].op].card
               PROVE  results[i].op < results[j].op
    BY DEF CardOrder
  <2>1. results \in Seq(ActorEvent) /\ ResultsKnown /\ sent \in Seq(Operation)
    BY <1>1 DEF AllOK, EventsOK
  <2>2. DOMAIN results = 1..Len(results)
    BY <2>1, SeqLemma
  <2>3. results[i].op \in Ops /\ results[j].op \in Ops
    BY <2>1, <2>2 DEF ResultsKnown, Range
  <2>4. PICK c : c = Op[results[i].op].card
    OBVIOUS
  <2>5. c \in Cards /\ OfCard(results[i].op, c) /\ OfCard(results[j].op, c)
    BY <2>1, <2>3, <2>4, OperationType DEF OfCard
  <2>6. ResultsInv(c)
    BY <1>1, <2>5 DEF OrderInv
  <2> QED
    BY <2>2, <2>5, <2>6 DEF ResultsInv
<1> QED
  BY <1>1, DatabaseInvariance, PTL

-----------------------------------------------------------------------------
(* Limits *)

AccountWithin(a) == Within(account[a].consumed, account[a].limit)
CardWithin(c) ==
  /\ Within(card[c].consumed, card[c].limit)
  /\ card[c].tasks # <<>> => Within(card[c].consumed + Op[Head(card[c].tasks)].amount, card[c].limit)

\* LimitsInv, by account and by card.
LEMMA LimitsParts ==
  LimitsInv <=> (AllChecked => /\ \A a \in Accounts : AccountWithin(a)
                               /\ \A c \in Cards : CardWithin(c))
BY DEF LimitsInv, AccountWithin, CardWithin

\* What is checked after a step was checked before it.
LEMMA CheckedBefore ==
  ASSUME AllOK, Grows
  PROVE  (Unreplaced' => Unreplaced) /\ (AllChecked' => AllChecked)
<1>1. Unreplaced' => Unreplaced
  BY GrowsLemma DEF Unreplaced
<1>2. ASSUME AllChecked', NEW o \in Ops, Op[o].kind = "Charge" PROVE ~Op[o].offline
  <2>1. o \in Ops' /\ Op[o]' = Op[o]
    BY DEF Grows
  <2>2. \A p \in Ops' : (Op[p].kind)' = "Charge" => ~(Op[p].offline)'
    BY <1>2 DEF AllChecked
  <2> QED
    BY <1>2, <2>1, <2>2
<1> QED
  BY <1>1, <1>2 DEF AllChecked

\* A card that a step does not change is within its limit as before.
LEMMA CardWithinFrame ==
  ASSUME AllOK, Grows, NEW c \in Cards, CardWithin(c), card'[c] = card[c]
  PROVE  CardWithin(c)'
<1>1. CASE card[c].tasks = <<>>
  BY <1>1 DEF CardWithin
<1>2. CASE card[c].tasks # <<>>
  <2>0. PICK o : o = Head(card[c].tasks)
    OBVIOUS
  <2>1. card[c].tasks \in Seq(Nat) /\ \A p \in Range(card[c].tasks) : p \in Executed
    BY CardType
  <2>2. o \in Ops
    BY <1>2, <2>0, <2>1, SeqLemma, GrowsLemma
  <2>3. Op[o]' = Op[o] /\ Head(card'[c].tasks) = o
    BY <2>0, <2>2 DEF Grows
  <2>4. /\ Within(card[c].consumed, card[c].limit)
        /\ Within(card[c].consumed + Op[o].amount, card[c].limit)
    BY <1>2, <2>0 DEF CardWithin
  <2> QED
    BY <2>3, <2>4 DEF CardWithin, Within
<1> QED
  BY <1>1, <1>2

\* A step that changes neither accounts nor cards.
LEMMA LimitsFrame ==
  ASSUME AllOK, Grows, LimitsInv, UNCHANGED <<account, card>>
  PROVE  LimitsInv'
<1> SUFFICES ASSUME AllChecked' PROVE (\A a \in Accounts : AccountWithin(a)') /\ (\A c \in Cards : CardWithin(c)')
  BY DEF LimitsInv, AccountWithin, CardWithin
<1>1. (\A a \in Accounts : AccountWithin(a)) /\ (\A c \in Cards : CardWithin(c))
  BY CheckedBefore, LimitsParts
<1>2. \A a \in Accounts : AccountWithin(a)'
  BY <1>1 DEF AccountWithin
<1>3. \A c \in Cards : CardWithin(c)'
  BY <1>1, CardWithinFrame
<1> QED
  BY <1>2, <1>3

\* One account, or one card, changes.
LEMMA LimitsOneAccount ==
  ASSUME AllOK, Grows, LimitsInv, card' = card, NEW a \in Accounts, NEW r,
         account' = [account EXCEPT ![a] = r] \/ account' = account,
         AllChecked /\ AccountWithin(a) /\ account' # account => Within(r.consumed, r.limit)
  PROVE  LimitsInv'
<1>0. CASE account' = account
  BY <1>0, LimitsFrame
<1> SUFFICES ASSUME AllChecked', account' # account
             PROVE  (\A b \in Accounts : AccountWithin(b)') /\ (\A c \in Cards : CardWithin(c)')
  BY <1>0 DEF LimitsInv, AccountWithin, CardWithin
<1>1. AllChecked /\ (\A b \in Accounts : AccountWithin(b)) /\ (\A c \in Cards : CardWithin(c))
  BY CheckedBefore, LimitsParts
<1>2. DOMAIN account = Accounts
  BY DEF AllOK, AccountsOK
<1>3. \A b \in Accounts : AccountWithin(b)'
  <2>1. \A b \in Accounts : account'[b] = IF b = a THEN r ELSE account[b]
    BY <1>2
  <2> QED
    BY <1>1, <2>1 DEF AccountWithin
<1>4. \A c \in Cards : CardWithin(c)'
  BY <1>1, CardWithinFrame
<1> QED
  BY <1>3, <1>4

\* The same for one card.
LEMMA LimitsOneCard ==
  ASSUME AllOK, Grows, LimitsInv, account' = account, NEW c \in Cards,
         \A d \in Cards : d # c => card'[d] = card[d],
         AllChecked /\ CardWithin(c) => CardWithin(c)'
  PROVE  LimitsInv'
<1> SUFFICES ASSUME AllChecked'
             PROVE  (\A b \in Accounts : AccountWithin(b)') /\ (\A d \in Cards : CardWithin(d)')
  BY DEF LimitsInv, AccountWithin, CardWithin
<1>1. AllChecked /\ (\A b \in Accounts : AccountWithin(b)) /\ (\A d \in Cards : CardWithin(d))
  BY CheckedBefore, LimitsParts
<1>2. \A b \in Accounts : AccountWithin(b)'
  BY <1>1 DEF AccountWithin
<1>3. \A d \in Cards : CardWithin(d)'
  BY <1>1, CardWithinFrame
<1> QED
  BY <1>2, <1>3

\* No consumption is within every limit.
LEMMA WithinZero == \A l \in Limits : Within(0, l)
BY DEF Within, Limits, NoLimit

\* ApplyChargeFromCard: check_account_limit and the charge are one step.
LEMMA AccountChargeLimits ==
  ASSUME AllOK, Grows, LimitsInv, NEW a \in Accounts, AccountCharge(a)
  PROVE  LimitsInv'
<1>0. PICK o : o = Head(mailbox[a]).op
  OBVIOUS
<1>k. PICK ok \in BOOLEAN : ok = ChargeAllowed(a, o)
  BY DEF ChargeAllowed
<1>1. /\ mailbox[a] # <<>> /\ Head(mailbox[a]).type = "ApplyCharge" /\ card' = card
      /\ account' = IF ok THEN [account EXCEPT ![a].consumed = account[a].consumed + Op[o].amount]
                          ELSE account
  BY <1>0, <1>k DEF AccountCharge, HasMail
<1>2. PICK r : r = [limit |-> account[a].limit, consumed |-> account[a].consumed + Op[o].amount,
                    pending |-> account[a].pending]
  OBVIOUS
<1>3. account' = [account EXCEPT ![a] = r] \/ account' = account
  BY <1>1, <1>2, AccountExcept
<1>4. r.consumed = account[a].consumed + Op[o].amount /\ r.limit = account[a].limit
  BY <1>2
<1>5. o \in Ops /\ Op[o].kind = "Charge"
  <2>1. Good(a, Head(mailbox[a])) /\ a # Router
    BY <1>1, AccountType, HeadLemma
  <2>2. ChargeOf(o, Op[o].card)
    BY <1>0, <1>1, <2>1 DEF Good, AccountMail
  <2> QED
    BY <2>2 DEF ChargeOf, OfCard
<1>6. ASSUME AllChecked, account' # account PROVE Within(r.consumed, r.limit)
  <2>1. ok /\ ~Op[o].offline
    BY <1>1, <1>5, <1>6 DEF AllChecked
  <2> QED
    BY <1>4, <1>k, <2>1 DEF ChargeAllowed
<1> QED
  BY <1>1, <1>3, <1>6, LimitsOneAccount

\* ApplyAccountLimit: can_raise_limit.
LEMMA AccountLimitLimits ==
  ASSUME AllOK, Grows, LimitsInv, NEW a \in Accounts, AccountLimit(a)
  PROVE  LimitsInv'
<1>0. PICK o : o = Head(mailbox[a]).op
  OBVIOUS
<1>1. /\ card' = card
      /\ account' = IF Within(account[a].consumed, Op[o].limit)
                    THEN [account EXCEPT ![a].limit = Op[o].limit] ELSE account
  BY <1>0 DEF AccountLimit
<1>2. PICK r : r = [limit |-> Op[o].limit, consumed |-> account[a].consumed,
                    pending |-> account[a].pending]
  OBVIOUS
<1>3. account' = [account EXCEPT ![a] = r] \/ account' = account
  BY <1>1, <1>2, AccountExcept
<1>4. account' # account => Within(r.consumed, r.limit)
  BY <1>1, <1>2
<1> QED
  BY <1>1, <1>3, <1>4, LimitsOneAccount

\* StartAccountQuery and StartAccountBill.
LEMMA AccountStartLimits ==
  ASSUME AllOK, Grows, LimitsInv, NEW a \in Accounts, AccountStart(a)
  PROVE  LimitsInv'
<1>0. PICK m : m = Head(mailbox[a])
  OBVIOUS
<1>b. PICK p : p = [op |-> m.op, remaining |-> m.num_cards, spent |-> <<>>,
                    billing |-> (Op[m.op].kind = "Bill")]
  OBVIOUS
<1>1. /\ card' = card
      /\ \/ account' = account
         \/ account' = [account EXCEPT ![a].consumed = 0]
         \/ account' = [account EXCEPT ![a].pending = p]
  BY <1>0, <1>b DEF AccountStart
<1>2. PICK r, q : /\ r = [limit |-> account[a].limit, consumed |-> 0, pending |-> account[a].pending]
                  /\ q = [limit |-> account[a].limit, consumed |-> account[a].consumed, pending |-> p]
  OBVIOUS
<1>3. account' = account \/ account' = [account EXCEPT ![a] = r] \/ account' = [account EXCEPT ![a] = q]
  BY <1>1, <1>2, AccountExcept
<1>4. Within(r.consumed, r.limit) /\ (AccountWithin(a) => Within(q.consumed, q.limit))
  BY <1>2, WithinZero, AccountType DEF AccountWithin
<1> QED
  BY <1>1, <1>3, <1>4, LimitsOneAccount

\* CardQueryReply.
LEMMA AccountQueryReplyLimits ==
  ASSUME AllOK, Grows, LimitsInv, NEW a \in Accounts, AccountQueryReply(a)
  PROVE  LimitsInv'
<1>0. PICK m, p : m = Head(mailbox[a]) /\ p = account[a].pending
  OBVIOUS
<1>1. PICK q, r : /\ q = [limit |-> account[a].limit, consumed |-> account[a].consumed,
                          pending |-> [op |-> p.op, remaining |-> p.remaining - 1,
                                       spent |-> Append(p.spent, [card |-> m.card, consumed |-> m.consumed]),
                                       billing |-> p.billing]]
                  /\ r = [limit |-> account[a].limit,
                          consumed |-> IF p.billing THEN 0 ELSE account[a].consumed,
                          pending |-> NoQuery]
  OBVIOUS
<1>2. /\ card' = card
      /\ \/ account' = account
         \/ account' = [account EXCEPT ![a].pending = q.pending]
         \/ account' = [account EXCEPT ![a] = r]
  BY <1>0, <1>1 DEF AccountQueryReply
<1>3. account' = account \/ account' = [account EXCEPT ![a] = r] \/ account' = [account EXCEPT ![a] = q]
  BY <1>1, <1>2, AccountExcept
<1>4. AccountWithin(a) => Within(r.consumed, r.limit) /\ Within(q.consumed, q.limit)
  BY <1>1, WithinZero, AccountType DEF AccountWithin
<1> QED
  BY <1>2, <1>3, <1>4, LimitsOneAccount

\* ReplaceState of an account.
LEMMA AccountReplaceLimits ==
  ASSUME AllOK, Grows, LimitsInv, NEW a \in Accounts, AccountReplace(a)
  PROVE  LimitsInv' /\ ~Unreplaced
<1>0. PICK m, r : m = Head(mailbox[a]) /\ r = [limit |-> m.limit, consumed |-> m.consumed,
                                              pending |-> account[a].pending]
  OBVIOUS
<1>1. /\ mailbox[a] # <<>> /\ m.type = "ReplaceState" /\ card' = card
      /\ account' = [account EXCEPT ![a] = r]
  BY <1>0 DEF AccountReplace, HasMail
<1>2. ~Unreplaced
  <2>1. Good(a, m) /\ a # Router
    BY <1>0, <1>1, AccountType, HeadLemma
  <2> QED
    BY <1>1, <2>1 DEF Good, AccountMail, Unreplaced
<1> QED
  BY <1>1, <1>2, LimitsOneAccount DEF AllChecked

\* A card that runs its tasks.
LEMMA StepsLimits ==
  ASSUME AllOK, Grows, LimitsInv, NEW c \in Cards, NEW s, NEW pre, NEW n, Steps(c, s, pre, n),
         account' = account,
         AllChecked /\ CardWithin(c) => Within(s.consumed, s.limit),
         s.asks = <<>> /\ s.tasks # <<>> => s.limit = card[c].limit /\ s.consumed = card[c].consumed
  PROVE  LimitsInv'
<1>1. /\ card' = [card EXCEPT ![c] = [limit |-> s.limit, consumed |-> s.consumed, tasks |-> s.tasks]]
      /\ Shape(c, s, pre, n) /\ sent' = sent
  BY BecomesSends DEF Steps
<1>2. /\ card'[c].limit = s.limit /\ card'[c].consumed = s.consumed /\ card'[c].tasks = s.tasks
      /\ \A d \in Cards : d # c => card'[d] = card[d]
  BY <1>1 DEF AllOK, CardsOK
<1>3. ASSUME AllChecked, CardWithin(c) PROVE CardWithin(c)'
  <2>0. PICK o : o = Head(s.tasks)
    OBVIOUS
  <2>1. Within(s.consumed, s.limit)
    BY <1>3
  <2>2. ASSUME s.tasks # <<>> PROVE Within(s.consumed + Op[o].amount, s.limit)
    <3>1. CASE s.asks = <<>>
      <4>1. card[c].tasks # <<>> /\ Head(card[c].tasks) = o
        BY <1>1, <2>0, <2>2, <3>1 DEF Shape
      <4> QED
        BY <1>3, <2>2, <3>1, <4>1 DEF CardWithin
    <3>2. CASE s.asks # <<>>
      <4>1. Admitted(s, o)
        BY <1>1, <2>0, <3>2 DEF Shape
      <4>2. ChargeOf(o, c)
        BY <1>1, <2>0, <3>2, ShapeMail
      <4>3. ~Op[o].offline
        BY <1>3, <4>2 DEF AllChecked, ChargeOf, OfCard
      <4> QED
        BY <4>1, <4>3 DEF Admitted
    <3> QED
      BY <3>1, <3>2
  <2>3. Op[o]' = Op[o]
    BY <1>1 DEF Op
  <2> QED
    BY <1>2, <2>0, <2>1, <2>2, <2>3 DEF CardWithin
<1> QED
  BY <1>2, <1>3, LimitsOneCard

\* ExecuteCharge and ExecuteLimitChange.
LEMMA CardTaskLimits ==
  ASSUME AllOK, Grows, LimitsInv, NEW c \in Cards, CardTask(c)
  PROVE  LimitsInv'
<1>0. PICK o, s, pre : /\ o = Head(mailbox[c]).op /\ s = Offer(Run(c, card[c].tasks), o)
                       /\ pre = Append(card[c].tasks, o)
  OBVIOUS
<1>1. /\ mailbox[c] # <<>> /\ Head(mailbox[c]).type = "Task" /\ Becomes(c, s)
      /\ UNCHANGED <<sent, operations, results, account>>
  BY <1>0 DEF CardTask, HasMail, routerVars
<1>2. o \in Executed /\ OfCard(o, c)
  BY <1>0, <1>1, TaskHead
<1>3. /\ \E n \in Nat : Shape(c, s, pre, n)
      /\ s.consumed = card[c].consumed
      /\ Within(card[c].consumed, card[c].limit) => Within(s.consumed, s.limit)
      /\ card[c].tasks # <<>> => s.limit = card[c].limit
  BY <1>0, <1>2, TaskShape
<1>4. PICK n : Shape(c, s, pre, n)
  BY <1>3
<1>5. Steps(c, s, pre, n)
  BY <1>1, <1>4 DEF Steps
<1>6. s.asks = <<>> /\ s.tasks # <<>> => card[c].tasks # <<>>
  BY <1>4 DEF Shape
<1>7. CardWithin(c) => Within(s.consumed, s.limit)
  BY <1>3 DEF CardWithin
<1> QED
  BY <1>1, <1>3, <1>5, <1>6, <1>7, StepsLimits

\* AccountChargeReply: the room that was checked before the account was asked is
\* still there, as the limit does not change while the card waits.
LEMMA CardReplyLimits ==
  ASSUME AllOK, Grows, LimitsInv, NEW c \in Cards, CardReply(c)
  PROVE  LimitsInv'
<1>0. PICK m, s : m = Head(mailbox[c]) /\ s = AfterReply(c, m)
  OBVIOUS
<1>1. /\ mailbox[c] # <<>> /\ m.type = "AccountChargeReply"
      /\ UNCHANGED <<sent, operations, results, account>>
  BY <1>0 DEF CardReply, HasMail, routerVars
<1>2. \/ UNCHANGED card
      \/ card[c].tasks # <<>> /\ Head(card[c].tasks) = m.op /\ Becomes(c, s)
  BY <1>0 DEF CardReply, AfterReply
<1>3. CASE UNCHANGED card
  BY <1>1, <1>3, LimitsFrame
<1>4. CASE card[c].tasks # <<>> /\ Head(card[c].tasks) = m.op /\ Becomes(c, s)
  <2>0. PICK pre : pre = card[c].tasks
    OBVIOUS
  <2>1. m.ok \in BOOLEAN /\ ConsumedAfter(c, m) \in Nat
    BY <1>0, <1>1, ReplyHead
  <2>2. /\ \E n \in Nat \ {0} : Shape(c, s, card[c].tasks, n)
        /\ s.consumed = ConsumedAfter(c, m)
        /\ Within(ConsumedAfter(c, m), card[c].limit) => Within(s.consumed, s.limit)
    <3>0. m.op = Head(card[c].tasks) /\ card[c].tasks # <<>>
      BY <1>4
    <3> QED
      BY <1>0, <2>1, <3>0, ReplyShape
  <2>3. PICK n \in Nat \ {0} : Shape(c, s, pre, n)
    BY <2>0, <2>2
  <2>4. Steps(c, s, pre, n)
    BY <1>1, <1>4, <2>3 DEF Steps
  <2>5. ASSUME s.asks = <<>>, s.tasks # <<>> PROVE FALSE
    <3>0. Shape(c, s, pre, n) /\ n # 0
      BY <2>3
    <3>1. n = 0
      BY <2>5, <3>0 DEF Shape
    <3> QED
      BY <3>0, <3>1
  <2>6. CardWithin(c) => Within(s.consumed, s.limit)
    BY <1>4, <2>2 DEF CardWithin, ConsumedAfter
  <2> QED
    BY <1>1, <2>4, <2>5, <2>6, StepsLimits
<1> QED
  BY <1>2, <1>3, <1>4

\* QueryCardState.
LEMMA CardQueryLimits ==
  ASSUME AllOK, OrderInv, Grows, LimitsInv, NEW c \in Cards, CardQuery(c)
  PROVE  LimitsInv'
<1>1. /\ card' = card \/ card' = [card EXCEPT ![c].consumed = 0]
      /\ UNCHANGED <<account, sent>>
  BY DEF CardQuery
<1>2. CASE card' = card
  BY <1>1, <1>2, LimitsFrame
<1>3. CASE card' = [card EXCEPT ![c].consumed = 0]
  <2>1. card' = [card EXCEPT ![c] = [limit |-> card[c].limit, consumed |-> 0, tasks |-> card[c].tasks]]
    BY <1>3, CardExcept
  <2>2. /\ card'[c].limit = card[c].limit /\ card'[c].consumed = 0 /\ card'[c].tasks = card[c].tasks
        /\ \A d \in Cards : d # c => card'[d] = card[d]
    BY <2>1 DEF AllOK, CardsOK
  <2>3. card[c].limit \in Limits /\ card[c].consumed \in Nat /\ card[c].tasks \in Seq(Nat)
        /\ \A o \in Range(card[c].tasks) : o \in Executed /\ OfCard(o, c)
    BY CardType
  <2>4. ASSUME CardWithin(c), AllChecked PROVE CardWithin(c)'
    <3>0. PICK o : o = Head(card[c].tasks)
      OBVIOUS
    <3>1. Within(0, card[c].limit)
      BY <2>3, WithinZero
    <3>2. ASSUME card[c].tasks # <<>> PROVE Within(0 + Op[o].amount, card[c].limit)
      <4>1. Op[o].amount \in Nat
        <5>1. OrderInv => ChargeOf(o, c)
          BY <3>0, <3>2 DEF OrderInv, ServedInv
        <5> QED
          BY <5>1, OperationType DEF AllOK, ChargeOf, OfCard
      <4>2. Within(card[c].consumed + Op[o].amount, card[c].limit)
        BY <2>4, <3>0, <3>2 DEF CardWithin
      <4> QED
        BY <2>3, <4>1, <4>2 DEF Within, Limits, NoLimit
    <3>3. Op[o]' = Op[o]
      BY <1>1 DEF Op
    <3> QED
      BY <2>2, <3>0, <3>1, <3>2, <3>3 DEF CardWithin
  <2> QED
    BY <1>1, <2>2, <2>4, LimitsOneCard
<1> QED
  BY <1>1, <1>2, <1>3

\* ReplaceState of a card.
LEMMA CardReplaceLimits ==
  ASSUME AllOK, AllOK', OrderInv, Grows, LimitsInv, NEW c \in Cards, CardReplace(c)
  PROVE  LimitsInv'
<1>1. ~Unreplaced
  BY CardReplaceOrder
<1>2. ~AllChecked'
  BY <1>1, CheckedBefore DEF AllChecked
<1> QED
  BY <1>2 DEF LimitsInv

\* The router, and every step that only looks at the accounts and the cards.
LEMMA RouterUnchanged ==
  RouterStep => UNCHANGED <<account, card>>
<1>1. ASSUME NEW o, \/ ExecuteOnCard(o) \/ ExecuteLimitAccount(o) \/ ExecuteQuery(o)
                    \/ ExecuteGetDatabase(o) \/ ExecuteReplaceDatabase(o)
      PROVE  UNCHANGED <<account, card>>
  BY <1>1 DEF ExecuteOnCard, ExecuteLimitAccount, ExecuteQuery, ExecuteGetDatabase,
              ExecuteReplaceDatabase
<1>2. RouterCompleted \/ RouterDebug \/ RouterSnapshot => UNCHANGED <<account, card>>
  BY DEF RouterCompleted, RouterDebug, RouterSnapshot
<1> QED
  BY <1>1, <1>2 DEF RouterStep

\* Every step respects the limits.
LEMMA NextLimits ==
  ASSUME AllOK, OrderInv, LimitsInv, [Next]_vars
  PROVE  LimitsInv'
<1>1. AllOK' /\ Grows
  BY NextOK
<1>2. CASE UNCHANGED vars \/ Send \/ Recv
  <2>1. UNCHANGED <<account, card>>
    BY <1>2 DEF vars, Send, Recv
  <2> QED
    BY <1>1, <2>1, LimitsFrame
<1>3. CASE RouterStep
  BY <1>1, <1>3, RouterUnchanged, LimitsFrame
<1>4. ASSUME NEW a \in Accounts, AccountStep(a) PROVE LimitsInv'
  <2>1. CASE AccountSnapshot(a)
    <3>1. UNCHANGED <<account, card>>
      BY <2>1 DEF AccountSnapshot
    <3> QED
      BY <1>1, <3>1, LimitsFrame
  <2> QED
    BY <1>1, <1>4, <2>1, AccountChargeLimits, AccountLimitLimits, AccountStartLimits,
       AccountQueryReplyLimits, AccountReplaceLimits DEF AccountStep
<1>5. ASSUME NEW c \in Cards, CardStep(c) PROVE LimitsInv'
  <2>1. CASE CardSnapshot(c)
    <3>1. UNCHANGED <<account, card>>
      BY <2>1 DEF CardSnapshot
    <3> QED
      BY <1>1, <3>1, LimitsFrame
  <2> QED
    BY <1>1, <1>5, <2>1, CardTaskLimits, CardReplyLimits, CardQueryLimits, CardReplaceLimits
    DEF CardStep
<1> QED
  BY <1>2, <1>3, <1>4, <1>5 DEF Next

\* Initially nothing is consumed.
LEMMA InitLimits == Init => LimitsInv
<1> SUFFICES ASSUME Init PROVE (\A a \in Accounts : AccountWithin(a)) /\ (\A c \in Cards : CardWithin(c))
  BY LimitsParts
<1>1. Within(0, NoLimit)
  BY WithinZero DEF Limits
<1> QED
  BY <1>1 DEF Init, AccountWithin, CardWithin

-----------------------------------------------------------------------------
(* Consumption *)

\* The amount of the charge that card c waits for, once the account has accepted it.
Accepts(o)     == [type |-> "AccountChargeReply", op |-> o, ok |-> TRUE]
IsAccepted(c)  == card[c].tasks # <<>> /\ Accepts(Head(card[c].tasks)) \in InMail(c)
Outstanding(c) == IF IsAccepted(c) THEN Op[Head(card[c].tasks)].amount ELSE 0
SpentOK ==
  \A c \in Cards : Outstanding(c) \in Nat /\ Spent(c) = card[c].consumed + Outstanding(c)

\* An acceptance in the mailbox of card c is the one that it waits for.
LEMMA AcceptedLemma ==
  ASSUME AllOK, OrderInv, Unreplaced, NEW c \in Cards
  PROVE  /\ mailbox[c] \in Seq(CardMsg) /\ DOMAIN mailbox[c] = 1..Len(mailbox[c])
         /\ \A i \in Accepted(c) : card[c].tasks # <<>> /\ mailbox[c][i] = Accepts(Head(card[c].tasks))
         /\ \A i, j \in Accepted(c) : i = j
<1>0. PICK o : o = Head(card[c].tasks)
  OBVIOUS
<1>1. mailbox[c] \in Seq(CardMsg) /\ c \in Actors /\ c # Router /\ c \notin Accounts
  BY CardType DEF AllOK, MailboxOK
<1>2. DOMAIN mailbox[c] = 1..Len(mailbox[c])
  BY <1>1, SeqLemma
<1>3. ASSUME NEW i \in Accepted(c) PROVE card[c].tasks # <<>> /\ mailbox[c][i] = Accepts(o)
  <2>0. PICK m : m = mailbox[c][i]
    OBVIOUS
  <2>1. m \in InMail(c) /\ m \in CardMsg /\ m.type = "AccountChargeReply" /\ m.ok
    BY <1>1, <1>2, <2>0, SeqLemma DEF Accepted, InMail, Range
  <2>2. ChargeOf(m.op, c)
    BY <1>1, <2>1 DEF AllOK, MailboxOK, Good, CardMail
  <2>3. m \in RepliesTo(m.op)
    BY <2>1, AskReply
  <2>4. Pending(c, m.op) /\ m.op \in Ops
    BY <2>1, <2>2, <2>3 DEF Pending, Replied, ChargeOf, OfCard
  <2>5. card[c].tasks # <<>> /\ m.op = o
    BY <1>0, <2>4 DEF OrderInv, TasksInv
  <2>6. m = Accepts(m.op)
    BY <2>1, <2>3 DEF RepliesTo, Accepts
  <2> QED
    BY <2>0, <2>5, <2>6
<1>4. Accepts(o) \in RepliesTo(o)
  BY DEF Accepts, RepliesTo
<1>5. ASSUME NEW i \in Accepted(c), NEW j \in Accepted(c) PROVE i = j
  <2>1. card[c].tasks # <<>> /\ mailbox[c][i] \in RepliesTo(o) /\ mailbox[c][j] \in RepliesTo(o)
    BY <1>3, <1>4
  <2>2. AtMostOne(mailbox[c], RepliesTo(o))
    BY <1>0, <2>1 DEF OrderInv, ServedInv
  <2> QED
    BY <2>1, <2>2 DEF AtMostOne, Accepted
<1> QED
  BY <1>0, <1>1, <1>2, <1>3, <1>5

\* What a card has spent is what it has consumed and what is outstanding.
LEMMA SpentLemma == AllOK /\ OrderInv /\ Unreplaced => SpentOK
<1> SUFFICES ASSUME AllOK, OrderInv, Unreplaced, NEW c \in Cards
             PROVE  Outstanding(c) \in Nat /\ Spent(c) = card[c].consumed + Outstanding(c)
  BY DEF SpentOK
<1>0. PICK o, f : o = Head(card[c].tasks) /\ f = [i \in Accepted(c) |-> Op[mailbox[c][i].op].amount]
  OBVIOUS
<1>1. /\ \A i \in Accepted(c) : card[c].tasks # <<>> /\ mailbox[c][i] = Accepts(o)
      /\ \A i, j \in Accepted(c) : i = j
  BY <1>0, AcceptedLemma
<1>2. card[c].consumed \in Nat /\ (card[c].tasks # <<>> => Op[o].amount \in Nat)
  <2>1. ASSUME card[c].tasks # <<>> PROVE ChargeOf(o, c)
    BY <1>0, <2>1 DEF OrderInv, ServedInv
  <2> QED
    BY <2>1, CardType, OperationType DEF AllOK, ChargeOf, OfCard
<1>3. IsAccepted(c) <=> Accepted(c) # {}
  <2>1. Accepts(o).type = "AccountChargeReply" /\ Accepts(o).ok
    BY DEF Accepts
  <2>2. ASSUME IsAccepted(c) PROVE Accepted(c) # {}
    BY <1>0, <2>1, <2>2 DEF IsAccepted, InMail, Range, Accepted
  <2>3. ASSUME Accepted(c) # {} PROVE IsAccepted(c)
    BY <1>0, <1>1, <2>3 DEF IsAccepted, InMail, Range, Accepted
  <2> QED
    BY <2>2, <2>3
<1>4. Spent(c) = card[c].consumed + SumFunction(f)
  BY <1>0 DEF Spent
<1>5. CASE Accepted(c) = {}
  <2>1. SumFunction(f) = 0
    BY <1>0, <1>5, SumSmall
  <2> QED
    BY <1>3, <1>4, <1>5, <2>1 DEF Outstanding
<1>6. CASE Accepted(c) # {}
  <2>1. PICK i : i \in Accepted(c)
    BY <1>6
  <2>2. DOMAIN f = {i} /\ f[i] = Op[mailbox[c][i].op].amount
    BY <1>0, <1>1, <2>1
  <2>3. mailbox[c][i].op = o
    BY <1>1, <2>1 DEF Accepts
  <2>4. SumFunction(f) = Op[o].amount /\ Op[o].amount \in Nat
    BY <1>1, <1>2, <2>1, <2>2, <2>3, SumSmall
  <2> QED
    BY <1>0, <1>3, <1>4, <1>6, <2>4 DEF Outstanding
<1> QED
  BY <1>5, <1>6

\* Neither a card nor an account is over its limit, whatever the interleaving of
\* the checks of the card and of the account with each other and with new limits.
THEOREM LimitsRespected == Spec => []WithinLimits
<1>1. Init => LimitsInv
  BY InitLimits
<1>2. AllOK /\ OrderInv /\ LimitsInv /\ [Next]_vars => LimitsInv'
  BY NextLimits
<1>3. AllOK /\ OrderInv /\ LimitsInv => WithinLimits
  <2> SUFFICES ASSUME AllOK, OrderInv, LimitsInv, AllChecked
               PROVE  /\ \A a \in Accounts : AccountWithin(a)
                      /\ \A c \in Cards : Within(Spent(c), card[c].limit)
    BY DEF WithinLimits, AllChecked, Unreplaced, AccountWithin
  <2>1. (\A a \in Accounts : AccountWithin(a)) /\ (\A c \in Cards : CardWithin(c))
    BY LimitsParts
  <2>2. SpentOK
    BY SpentLemma DEF AllChecked
  <2>3. ASSUME NEW c \in Cards PROVE Within(Spent(c), card[c].limit)
    <3>1. Spent(c) = card[c].consumed + Outstanding(c) /\ card[c].consumed \in Nat /\ CardWithin(c)
      BY <2>1, <2>2, CardType DEF SpentOK
    <3>2. CASE IsAccepted(c)
      BY <3>1, <3>2 DEF Outstanding, IsAccepted, CardWithin
    <3>3. CASE ~IsAccepted(c)
      <4>1. Spent(c) = card[c].consumed
        BY <3>1, <3>3 DEF Outstanding
      <4> QED
        BY <3>1, <4>1 DEF CardWithin
    <3> QED
      BY <3>2, <3>3
  <2> QED
    BY <2>1, <2>3
<1> QED
  BY <1>1, <1>2, <1>3, DatabaseInvariance, PTL DEF Spec

\* What card c owes: what a step may change of it is the outstanding amount.
LEMMA OutstandingLemma ==
  ASSUME AllOK, OrderInv, NEW c \in Cards
  PROVE  /\ Outstanding(c) \in Nat
         /\ \A o : o = Head(card[c].tasks) /\ ~Replied(c, o) => Outstanding(c) = 0
         /\ card[c].tasks = <<>> => Outstanding(c) = 0
         /\ \A o : card[c].tasks # <<>> /\ o = Head(card[c].tasks) =>
              /\ Accepts(o) \in InMail(c) => Outstanding(c) = Op[o].amount
              /\ Accepts(o) \notin InMail(c) => Outstanding(c) = 0
<1>0. PICK o : o = Head(card[c].tasks)
  OBVIOUS
<1>1. Accepts(o) \in RepliesTo(o)
  BY DEF Accepts, RepliesTo
<1>2. ~Replied(c, o) => Accepts(o) \notin InMail(c)
  BY <1>1 DEF Replied
<1>3. card[c].tasks # <<>> => Op[o].amount \in Nat
  <2>1. ASSUME card[c].tasks # <<>> PROVE ChargeOf(o, c)
    BY <1>0, <2>1 DEF OrderInv, ServedInv
  <2> QED
    BY <2>1, OperationType DEF AllOK, ChargeOf, OfCard
<1> QED
  BY <1>0, <1>2, <1>3 DEF Outstanding, IsAccepted

\* What card c owes its account; without bills and replacements an account has
\* the sum of what its cards owe.
Owed(c) == card[c].consumed + Outstanding(c)
SumOK ==
  Simple => \A a \in Accounts : account[a].consumed = SumFunction([c \in CardsOf(a) |-> Owed(c)])

\* The sums of what is owed are the sums of what is spent.
LEMMA SumParts == AllOK /\ OrderInv => (SumOK <=> AccountIsSumOfCards)
<1> SUFFICES ASSUME AllOK, OrderInv, Simple
             PROVE  \A a \in Accounts : [c \in CardsOf(a) |-> Owed(c)] = [c \in CardsOf(a) |-> Spent(c)]
  BY DEF SumOK, AccountIsSumOfCards, Simple, Unreplaced
<1>1. SpentOK
  BY SpentLemma DEF Simple
<1>2. \A c \in Cards : Owed(c) = Spent(c)
  BY <1>1 DEF SpentOK, Owed
<1>3. \A a : CardsOf(a) \subseteq Cards
  BY DEF CardsOf
<1> QED
  BY <1>2, <1>3

\* Bills and replacements do not go away.
LEMMA SimpleBefore ==
  ASSUME AllOK, Grows
  PROVE  Simple' => Simple
BY GrowsLemma DEF Simple, Unreplaced

\* A card owes as much as before when a step changes neither what it has consumed,
\* nor its current task, nor the replies to it.
LEMMA OwedFrame ==
  ASSUME AllOK, Grows, NEW c \in Cards, card'[c].consumed = card[c].consumed,
         card'[c].tasks = <<>> <=> card[c].tasks = <<>>,
         card[c].tasks # <<>> => Head(card'[c].tasks) = Head(card[c].tasks),
         InMail(c)' \cap Replies = InMail(c) \cap Replies
  PROVE  Owed(c)' = Owed(c)
<1>0. PICK o : o = Head(card[c].tasks)
  OBVIOUS
<1>1. CASE card[c].tasks = <<>>
  BY <1>1 DEF Owed, Outstanding, IsAccepted
<1>2. CASE card[c].tasks # <<>>
  <2>1. card[c].tasks \in Seq(Nat) /\ \A p \in Range(card[c].tasks) : p \in Executed
    BY CardType
  <2>2. o \in Ops /\ o \in Nat
    BY <1>0, <1>2, <2>1, SeqLemma, GrowsLemma
  <2>3. Op[o]' = Op[o] /\ Head(card'[c].tasks) = o
    BY <1>0, <1>2, <2>2 DEF Grows
  <2>4. Accepts(o) \in Replies
    BY <2>2 DEF Accepts, Replies, CardMsg
  <2>5. Accepts(o) \in InMail(c)' <=> Accepts(o) \in InMail(c)
    BY <2>4
  <2>6. IsAccepted(c) <=> Accepts(o) \in InMail(c)
    BY <1>0, <1>2 DEF IsAccepted
  <2>7. IsAccepted(c)' <=> Accepts(o) \in InMail(c)'
    BY <1>2, <2>3 DEF IsAccepted, Accepts
  <2>8. Outstanding(c)' = Outstanding(c)
    BY <1>0, <2>3, <2>5, <2>6, <2>7 DEF Outstanding
  <2> QED
    BY <2>8 DEF Owed
<1> QED
  BY <1>1, <1>2

\* A step after which every account and every card owes the same.
LEMMA SumFrame ==
  ASSUME AllOK, Grows, SumOK,
         Simple => /\ \A a \in Accounts : account'[a].consumed = account[a].consumed
                   /\ \A c \in Cards : Owed(c)' = Owed(c)
  PROVE  SumOK'
<1> SUFFICES ASSUME Simple', NEW a \in Accounts
             PROVE  account'[a].consumed = SumFunction([c \in CardsOf(a) |-> Owed(c)'])
  BY DEF SumOK, CardsOf
<1>1. Simple
  BY SimpleBefore
<1>2. [c \in CardsOf(a) |-> Owed(c)'] = [c \in CardsOf(a) |-> Owed(c)]
  BY <1>1 DEF CardsOf
<1>3. account[a].consumed = SumFunction([c \in CardsOf(a) |-> Owed(c)])
  BY <1>1 DEF SumOK
<1> QED
  BY <1>1, <1>2, <1>3

\* A step that leaves the cards, the replies and the consumption of the accounts alone.
LEMMA CalmSum ==
  ASSUME AllOK, Grows, SumOK, Calm,
         Simple => card' = card /\ \A a \in Accounts : account'[a].consumed = account[a].consumed
  PROVE  SumOK'
<1>1. ASSUME Simple PROVE \A c \in Cards : Owed(c)' = Owed(c)
  BY <1>1, OwedFrame DEF Calm
<1> QED
  BY <1>1, SumFrame

\* A charge adds the same amount to the account and to the card.
LEMMA SumOne ==
  ASSUME AllOK, AllOK', OrderInv, OrderInv', Grows, SumOK, NEW d \in Cards, NEW n \in Nat,
         Simple => /\ \A b \in Accounts : account'[b].consumed =
                        IF b = Owner[d] THEN account[b].consumed + n ELSE account[b].consumed
                   /\ \A c \in Cards : Owed(c)' = IF c = d THEN Owed(c) + n ELSE Owed(c)
  PROVE  SumOK'
<1> SUFFICES ASSUME Simple', NEW a \in Accounts
             PROVE  account'[a].consumed = SumFunction([c \in CardsOf(a) |-> Owed(c)'])
  BY DEF SumOK, CardsOf
<1>1. Simple
  BY SimpleBefore
<1>2. PICK D, f, h : /\ D = CardsOf(a) /\ f = [c \in CardsOf(a) |-> Owed(c)]
                     /\ h = [c \in CardsOf(a) |-> Owed(c)']
  OBVIOUS
<1>3. account[a].consumed = SumFunction(f)
  BY <1>1, <1>2 DEF SumOK
<1>4. CASE a # Owner[d]
  <2>1. \A c \in CardsOf(a) : c \in Cards /\ c # d
    BY <1>4 DEF CardsOf
  <2>2. f = h
    BY <1>1, <1>2, <2>1
  <2> QED
    BY <1>1, <1>2, <1>3, <1>4, <2>2
<1>5. CASE a = Owner[d]
  <2>1. \A c \in Cards : Owed(c) \in Nat
    BY CardType, OutstandingLemma DEF Owed
  <2>2. IsFiniteSet(D) /\ D \subseteq Cards /\ d \in D
    BY <1>2, <1>5, ActorsAssumption, FS_Subset DEF CardsOf
  <2>3. /\ f \in [D -> Nat] /\ h \in [D -> Nat] /\ h[d] = f[d] + n /\ f[d] \in Nat
        /\ \A c \in D : c # d => h[c] = f[c]
    BY <1>1, <1>2, <2>1, <2>2
  <2>4. SumFunction(h) = SumFunction(f) + h[d] - f[d] /\ SumFunction(f) \in Nat
    BY <2>2, <2>3, SumChange, SumType
  <2>5. SumFunction(h) = SumFunction(f) + n
    BY <2>3, <2>4, SMTT(30)
  <2> QED
    BY <1>1, <1>2, <1>3, <1>5, <2>5
<1> QED
  BY <1>4, <1>5

\* AccountCharge: the card owes what the account has accepted, until it handles the reply.
LEMMA AccountChargeOwed ==
  ASSUME AllOK, AllOK', OrderInv, OrderInv', Grows, NEW a \in Accounts, AccountCharge(a),
         NEW o, o = Head(mailbox[a]).op, NEW d, d = Op[o].card, NEW n,
         n = IF ChargeAllowed(a, o) THEN Op[o].amount ELSE 0
  PROVE  /\ ChargeOf(o, d) /\ d \in Cards /\ Owner[d] = a /\ Pending(d, o) /\ n \in Nat
         /\ \A b \in Accounts : account'[b].consumed =
              IF b = Owner[d] THEN account[b].consumed + n ELSE account[b].consumed
         /\ Unreplaced =>
              /\ card[d].tasks # <<>> /\ o = Head(card[d].tasks) /\ Owed(d) = card[d].consumed
              /\ \A c \in Cards : Owed(c)' = IF c = d THEN Owed(c) + n ELSE Owed(c)
<1>0. PICK h : h = Head(mailbox[a]) /\ o = h.op
  OBVIOUS
<1>k. PICK ok \in BOOLEAN : ok = ChargeAllowed(a, o)
  BY DEF ChargeAllowed
<1>m. PICK m, new : m = [type |-> "AccountChargeReply", op |-> o, ok |-> ok] /\ new = To(d, m)
  OBVIOUS
<1>1. /\ mailbox[a] # <<>> /\ h.type = "ApplyCharge" /\ Deliver(a, To(d, m))
      /\ UNCHANGED <<sent, card>>
      /\ account' = IF ok THEN [account EXCEPT ![a].consumed = account[a].consumed + Op[o].amount]
                          ELSE account
  BY <1>0, <1>k, <1>m DEF AccountCharge, HasMail
<1>2. a \in Actors /\ a # Router /\ a \notin Cards /\ Letter(a) = AccountMsg
  BY ActorsApart
<1>3. h \in InMail(a) /\ h \in AccountMsg /\ Good(a, h)
  BY <1>0, <1>1, <1>2, HeadLemma
<1>4. ChargeOf(o, d) /\ Owner[d] = a /\ o \in Ops
  BY <1>0, <1>1, <1>2, <1>3, <1>m DEF Good, AccountMail, ChargeOf, OfCard
<1>5. d \in Cards /\ Op[o].amount \in Nat
  BY <1>4, <1>m, OperationType DEF ChargeOf, OfCard, AllOK
<1>6. h \in AskOf(o)
  BY <1>0, <1>1, <1>3, AskReply
<1>7. Asked(d, o) /\ Pending(d, o)
  BY <1>3, <1>4, <1>6 DEF Asked, Pending
<1>8. /\ Sends(a, new) /\ Range(Added(new, d)) = {m}
      /\ \A z : z # d => Range(Added(new, z)) = {}
  BY <1>m, <1>1, <1>2, SendsOne
<1>9. ASSUME NEW c \in Cards
      PROVE  InMail(c)' = InMail(c) \cup (IF c = d THEN {m} ELSE {})
  <2>1. c \in Actors /\ c # a /\ TypeOK
    BY <1>2, ActorsApart, AllParts
  <2> QED
    BY <1>8, <2>1, DeliverLemma
<1>10. n \in Nat /\ n = IF ok THEN Op[o].amount ELSE 0
  BY <1>5, <1>k
<1>11. \A b \in Accounts : account'[b].consumed =
         IF b = Owner[d] THEN account[b].consumed + n ELSE account[b].consumed
  <2>1. account[a].consumed \in Nat /\ DOMAIN account = Accounts
    BY AccountType DEF AllOK, AccountsOK
  <2>2. CASE ok
    <3>1. account' = [account EXCEPT ![a] = [limit |-> account[a].limit,
                        consumed |-> account[a].consumed + Op[o].amount,
                        pending |-> account[a].pending]]
      BY <1>1, <2>2, AccountExcept
    <3> QED
      BY <1>4, <1>10, <2>1, <2>2, <3>1
  <2>3. CASE ~ok
    BY <1>1, <1>4, <1>10, <2>1, <2>3
  <2> QED
    BY <2>2, <2>3
<1>13. ASSUME Unreplaced
       PROVE  card[d].tasks # <<>> /\ o = Head(card[d].tasks) /\ Owed(d) = card[d].consumed
  <2>1. card[d].tasks # <<>> /\ o = Head(card[d].tasks)
    BY <1>4, <1>5, <1>7, <1>13, ZenonT(30) DEF OrderInv, TasksInv
  <2>2. ~Replied(d, o)
    BY <1>5, <1>7, <2>1 DEF OrderInv, ServedInv
  <2>3. Outstanding(d) = 0 /\ card[d].consumed \in Nat
    BY <1>5, <2>1, <2>2, OutstandingLemma, CardType
  <2> QED
    BY <2>1, <2>3, SMTT(30) DEF Owed
<1>12. ASSUME Unreplaced, NEW c \in Cards PROVE Owed(c)' = IF c = d THEN Owed(c) + n ELSE Owed(c)
  <2>1. CASE c # d
    <3>1. InMail(c)' = InMail(c)
      BY <1>9, <2>1
    <3>2. Owed(c)' = Owed(c)
      BY <1>1, <3>1, OwedFrame
    <3> QED
      BY <2>1, <3>2
  <2>2. CASE c = d
    <3>1. card[d].tasks # <<>> /\ o = Head(card[d].tasks)
      BY <1>12, <1>13
    <3>2. ~Replied(d, o)
      BY <1>5, <1>7, <3>1 DEF OrderInv, ServedInv
    <3>3. Outstanding(d) = 0 /\ Accepts(o) \notin InMail(d)
      <4>1. Accepts(o) \in RepliesTo(o)
        BY DEF Accepts, RepliesTo
      <4> QED
        BY <1>5, <3>1, <3>2, <4>1, OutstandingLemma DEF Replied
    <3>4. Accepts(o) = m <=> ok
      BY <1>m DEF Accepts
    <3>5. Accepts(o) \in InMail(d)' <=> ok
      BY <1>5, <1>9, <3>3, <3>4
    <3>6. card'[d] = card[d] /\ Op[o]' = Op[o]
      BY <1>1 DEF Op
    <3>7. IsAccepted(d)' <=> ok
      BY <3>1, <3>5, <3>6 DEF IsAccepted, Accepts
    <3>8. Outstanding(d)' = n
      BY <1>10, <3>1, <3>6, <3>7 DEF Outstanding
    <3>9. card[d].consumed \in Nat
      BY <1>5, CardType
    <3>10. Owed(d) = card[d].consumed /\ Owed(d)' = card[d].consumed + n
      BY <3>3, <3>6, <3>8, <3>9 DEF Owed
    <3> QED
      BY <2>2, <3>10
  <2> QED
    BY <2>1, <2>2
<1> QED
  BY <1>4, <1>5, <1>7, <1>10, <1>11, <1>12, <1>13

\* A charge is in the sum of the account and in what the card owes.
LEMMA AccountChargeSum ==
  ASSUME AllOK, AllOK', OrderInv, OrderInv', Grows, SumOK, NEW a \in Accounts, AccountCharge(a)
  PROVE  SumOK'
<1>0. PICK o : o = Head(mailbox[a]).op
  OBVIOUS
<1>1. PICK d, n : d = Op[o].card /\ n = IF ChargeAllowed(a, o) THEN Op[o].amount ELSE 0
  OBVIOUS
<1> QED
  BY <1>0, <1>1, AccountChargeOwed, SumOne DEF Simple

\* A card that runs its tasks: the others owe the same, and it owes what it has
\* consumed when it has nothing left to do or has just asked the account.
LEMMA StepsOwed ==
  ASSUME AllOK, AllOK', OrderInv', Grows, NEW c \in Cards, NEW s, NEW pre, NEW n, Steps(c, s, pre, n)
  PROVE  /\ \A d \in Cards : d # c => Owed(d)' = Owed(d)
         /\ s.asks # <<>> \/ s.tasks = <<>> => Owed(c)' = s.consumed
<1>0. PICK new, o : new = CardSends(c, s) /\ o = Head(s.tasks)
  OBVIOUS
<1>1. /\ Sends(c, new) /\ Added(new, Owner[c]) = AskMail(s)
      /\ \A y : y # Router /\ y # Owner[c] => Added(new, y) = <<>>
      /\ card'[c].tasks = s.tasks /\ \A d \in Cards : d # c => card'[d] = card[d]
  BY <1>0, StepsMail
<1>2. card'[c].consumed = s.consumed /\ s.consumed \in Nat
  <2>1. card' = [card EXCEPT ![c] = [limit |-> s.limit, consumed |-> s.consumed, tasks |-> s.tasks]]
    BY BecomesSends DEF Steps
  <2>2. card'[c].consumed = s.consumed
    BY <2>1 DEF AllOK, CardsOK
  <2>3. s \in CardRun
    BY DEF Steps, Shape
  <2> QED
    BY <2>2, <2>3 DEF CardRun
<1>3. TypeOK
  BY AllParts
<1>4. ASSUME NEW d \in Cards, d # c PROVE Owed(d)' = Owed(d)
  <2>1. d \in Actors /\ d # Router /\ d # Owner[c]
    BY CardType
  <2>2. Range(Added(new, d)) = {}
    BY <1>1, <2>1, FewLemma
  <2>3. /\ InMail(d)' \subseteq InMail(d) \cup Range(Added(new, d))
        /\ InMail(d) \subseteq InMail(d)' \cup (IF d = c THEN {Head(mailbox[c])} ELSE {})
    BY <1>1, <1>3, <2>1, DeliverLemma
  <2>4. InMail(d)' = InMail(d)
    BY <1>4, <2>2, <2>3
  <2> QED
    BY <1>1, <1>4, <2>4, OwedFrame
<1>5. CASE s.tasks = <<>>
  BY <1>1, <1>2, <1>5, <1>4 DEF Owed, Outstanding, IsAccepted
<1>6. CASE s.asks # <<>>
  <2>1. s.tasks # <<>> /\ AskMail(s) = <<[type |-> "ApplyCharge", op |-> o]>>
    BY <1>0, <1>6, ShapeMail DEF Steps
  <2>2. [type |-> "ApplyCharge", op |-> o] \in InMail(Owner[c])'
    <3>1. Owner[c] \in Actors
      BY CardType
    <3>2. Range(AskMail(s)) = {[type |-> "ApplyCharge", op |-> o]}
      BY <2>1, FewLemma
    <3> QED
      BY <1>1, <1>3, <3>1, <3>2, DeliverLemma
  <2>3. Asked(c, o)'
    BY <2>2 DEF Asked, AskOf
  <2>4. ~Replied(c, o)'
    <3>1. ServedInv(c)'
      BY DEF OrderInv
    <3> QED
      BY <1>0, <1>1, <2>1, <2>3, <3>1 DEF ServedInv
  <2>5. Accepts(o) \notin InMail(c)'
    BY <2>4 DEF Replied, RepliesTo, Accepts
  <2>6. ~IsAccepted(c)'
    BY <1>0, <1>1, <2>5 DEF IsAccepted, Accepts
  <2>7. Outstanding(c)' = 0
    BY <2>6 DEF Outstanding
  <2> QED
    BY <1>2, <1>4, <2>7 DEF Owed
<1> QED
  BY <1>4, <1>5, <1>6

\* ExecuteCharge and ExecuteLimitChange: nothing is consumed.
LEMMA CardTaskOwed ==
  ASSUME AllOK, AllOK', OrderInv, OrderInv', Grows, NEW c \in Cards, CardTask(c)
  PROVE  \A d \in Cards : Owed(d)' = Owed(d)
<1>0. PICK o, s, pre : /\ o = Head(mailbox[c]).op /\ s = Offer(Run(c, card[c].tasks), o)
                       /\ pre = Append(card[c].tasks, o)
  OBVIOUS
<1>1. /\ mailbox[c] # <<>> /\ Head(mailbox[c]).type = "Task" /\ Becomes(c, s)
      /\ UNCHANGED <<sent, operations, results, account>>
  BY <1>0 DEF CardTask, HasMail, routerVars
<1>2. o \in Executed /\ OfCard(o, c) /\ card[c].tasks \in Seq(Nat) /\ card[c].consumed \in Nat
  BY <1>0, <1>1, TaskHead, CardType
<1>3. (\E n \in Nat : Shape(c, s, pre, n)) /\ s.consumed = card[c].consumed
  BY <1>0, <1>2, TaskShape
<1>4. PICK n : Shape(c, s, pre, n)
  BY <1>3
<1>5. Steps(c, s, pre, n)
  BY <1>1, <1>4 DEF Steps
<1>6. Owed(c)' = Owed(c)
  <2>1. CASE card[c].tasks = <<>>
    <3>0. s.asks = <<>> /\ s.tasks # <<>> => card[c].tasks # <<>>
      BY <1>4 DEF Shape
    <3>1. s.asks # <<>> \/ s.tasks = <<>>
      BY <2>1, <3>0
    <3>2. Owed(c)' = card[c].consumed
      BY <1>3, <1>5, <3>1, StepsOwed
    <3>3. Owed(c) = card[c].consumed
      BY <1>2, <2>1 DEF Owed, Outstanding, IsAccepted
    <3> QED
      BY <3>2, <3>3
  <2>2. CASE card[c].tasks # <<>>
    <3>1. s.tasks = Append(card[c].tasks, o) /\ s.asks = <<>>
      BY <1>0, <2>2 DEF Offer, Run
    <3>2. s.tasks # <<>> /\ Head(s.tasks) = Head(card[c].tasks)
      <4>1. o \in Nat
        BY <1>2, GrowsLemma DEF Ops
      <4> QED
        BY <1>2, <2>2, <3>1, <4>1
    <3>3. PICK new : new = CardSends(c, s)
      OBVIOUS
    <3>4. /\ Sends(c, new) /\ card'[c].tasks = s.tasks
          /\ \A y : \A m \in Range(Added(new, y)) : m.type # "AccountChargeReply"
      <4>1. /\ Sends(c, new) /\ Added(new, Router) = DoneMail(s) /\ Added(new, Owner[c]) = AskMail(s)
            /\ \A y : y # Router /\ y # Owner[c] => Added(new, y) = <<>>
            /\ \A m \in Range(DoneMail(s)) : m.type = "OperationCompleted"
            /\ \A m \in Range(AskMail(s)) : s.asks # <<>>
            /\ card'[c].tasks = s.tasks
        BY <1>5, <3>3, StepsMail
      <4>2. \A y : y # Router /\ y # Owner[c] => Range(Added(new, y)) = {}
        BY <4>1, FewLemma
      <4> QED
        BY <3>1, <4>1, <4>2
    <3>5. Calm
      BY <1>1, <3>4, CalmLemma
    <3>6. card'[c].consumed = card[c].consumed
      <4>1. card' = [card EXCEPT ![c] = [limit |-> s.limit, consumed |-> s.consumed, tasks |-> s.tasks]]
        BY <1>1, BecomesSends
      <4> QED
        BY <1>3, <4>1 DEF AllOK, CardsOK
    <3> QED
      BY <2>2, <3>2, <3>4, <3>5, <3>6, OwedFrame DEF Calm
  <2> QED
    BY <2>1, <2>2
<1> QED
  BY <1>5, <1>6, StepsOwed

\* Neither do the sums change.
LEMMA CardTaskSum ==
  ASSUME AllOK, AllOK', OrderInv, OrderInv', Grows, SumOK, NEW c \in Cards, CardTask(c)
  PROVE  SumOK'
<1>1. account' = account
  BY DEF CardTask
<1> QED
  BY <1>1, CardTaskOwed, SumFrame

\* CardReply: what was outstanding is consumed.
LEMMA CardReplyOwed ==
  ASSUME AllOK, AllOK', OrderInv, OrderInv', Grows, Unreplaced, NEW c \in Cards, CardReply(c),
         NEW m, m = Head(mailbox[c])
  PROVE  /\ card[c].tasks # <<>> /\ Head(card[c].tasks) = m.op
         /\ Owed(c) = ConsumedAfter(c, m) /\ \A d \in Cards : Owed(d)' = Owed(d)
<1>0. PICK s : s = AfterReply(c, m)
  OBVIOUS
<1>1. /\ mailbox[c] # <<>> /\ m.type = "AccountChargeReply"
      /\ UNCHANGED <<sent, operations, results, account>>
  BY <1>0 DEF CardReply, HasMail, routerVars
<1>2. \/ ~(card[c].tasks # <<>> /\ Head(card[c].tasks) = m.op)
      \/ card[c].tasks # <<>> /\ Head(card[c].tasks) = m.op /\ Becomes(c, s)
  BY <1>0 DEF CardReply, AfterReply
<1>3. /\ m \in InMail(c) /\ m \in CardMsg /\ ChargeOf(m.op, c) /\ m.op \in Ops /\ m.ok \in BOOLEAN
      /\ Op[m.op].amount \in Nat /\ ConsumedAfter(c, m) \in Nat
  <2>1. c \in Actors /\ Letter(c) = CardMsg
    BY CardType
  <2>2. m \in InMail(c) /\ m \in CardMsg
    BY <1>0, <1>1, <2>1, HeadLemma
  <2>3. /\ ChargeOf(m.op, c) /\ m.op \in Ops /\ m.ok \in BOOLEAN
        /\ Op[m.op].amount \in Nat /\ ConsumedAfter(c, m) \in Nat
    BY <1>0, <1>1, ReplyHead
  <2> QED
    BY <2>2, <2>3
<1>4. m \in RepliesTo(m.op)
  BY <1>1, <1>3, AskReply
<1>5. card[c].tasks # <<>> /\ Head(card[c].tasks) = m.op
  <2>1. Pending(c, m.op)
    BY <1>3, <1>4 DEF Pending, Replied
  <2> QED
    BY <1>3, <2>1 DEF OrderInv, TasksInv
<1>7. card[c].tasks # <<>> /\ Head(card[c].tasks) = m.op /\ Becomes(c, s)
  BY <1>2, <1>5
<1>10. PICK pre, o : pre = card[c].tasks /\ o = m.op
  OBVIOUS
<1>11. (\E n \in Nat \ {0} : Shape(c, s, pre, n)) /\ s.consumed = ConsumedAfter(c, m)
  <2>0. m.op = Head(card[c].tasks) /\ card[c].tasks # <<>>
    BY <1>7
  <2> QED
    BY <1>0, <1>3, <1>10, <2>0, ReplyShape
<1>12. PICK n \in Nat \ {0} : Shape(c, s, pre, n)
  BY <1>11
<1>13. Steps(c, s, pre, n)
  BY <1>1, <1>7, <1>12 DEF Steps
<1>14. s.asks # <<>> \/ s.tasks = <<>>
  <2>1. Shape(c, s, pre, n) /\ n # 0
    BY <1>12
  <2>2. s.asks = <<>> /\ s.tasks # <<>> => n = 0
    BY <2>1 DEF Shape
  <2> QED
    BY <2>1, <2>2
<1>15. (\A d \in Cards : d # c => Owed(d)' = Owed(d)) /\ Owed(c)' = ConsumedAfter(c, m)
  BY <1>11, <1>13, <1>14, StepsOwed
<1>16. Accepts(o) \in InMail(c) <=> m.ok
  <2>1. ASSUME m.ok PROVE m = Accepts(o)
    <3>1. PICK ok \in BOOLEAN : m = [type |-> "AccountChargeReply", op |-> o, ok |-> ok]
      BY <1>4, <1>10 DEF RepliesTo
    <3>2. ok = TRUE
      BY <2>1, <3>1
    <3> QED
      BY <3>1, <3>2 DEF Accepts
  <2>2. ASSUME Accepts(o) \in InMail(c) PROVE m.ok
    <3>1. AtMostOne(mailbox[c], RepliesTo(o))
      BY <1>7, <1>10 DEF OrderInv, ServedInv
    <3>2. Accepts(o) \in RepliesTo(o)
      BY DEF Accepts, RepliesTo
    <3>3. Accepts(o) = m
      BY <1>3, <1>4, <1>10, <2>2, <3>1, <3>2 DEF AtMostOne, InMail, Range
    <3> QED
      BY <3>3 DEF Accepts
  <2> QED
    BY <1>3, <2>1, <2>2
<1>17. Owed(c) = ConsumedAfter(c, m)
  <2>1. card[c].tasks # <<>> /\ o = Head(card[c].tasks) /\ card[c].consumed \in Nat
    BY <1>7, <1>10, CardType
  <2>2. CASE m.ok
    <3>1. Outstanding(c) = Op[o].amount
      BY <1>16, <2>1, <2>2, OutstandingLemma
    <3> QED
      BY <1>10, <2>2, <3>1 DEF Owed, ConsumedAfter
  <2>3. CASE ~m.ok
    <3>1. Outstanding(c) = 0
      BY <1>16, <2>1, <2>3, OutstandingLemma
    <3> QED
      BY <2>1, <2>3, <3>1 DEF Owed, ConsumedAfter
  <2> QED
    BY <2>2, <2>3
<1>18. \A d \in Cards : Owed(d)' = Owed(d)
  BY <1>15, <1>17
<1> QED
  BY <1>7, <1>17, <1>18

\* Neither do the sums change.
LEMMA CardReplySum ==
  ASSUME AllOK, AllOK', OrderInv, OrderInv', Grows, SumOK, NEW c \in Cards, CardReply(c)
  PROVE  SumOK'
<1>1. account' = account
  BY DEF CardReply
<1>2. Simple => \A d \in Cards : Owed(d)' = Owed(d)
  BY CardReplyOwed DEF Simple
<1> QED
  BY <1>1, <1>2, SumFrame

\* The other steps of an account leave its consumption alone, unless it is billed.
LEMMA AccountStepSum ==
  ASSUME AllOK, AllOK', OrderInv, Grows, SumOK, NEW a \in Accounts,
         AccountLimit(a) \/ AccountStart(a) \/ AccountQueryReply(a) \/ AccountSnapshot(a)
  PROVE  SumOK'
<1>1. Calm
  BY AccountLimitOrder, AccountStartOrder, AccountQueryReplyOrder, AccountSnapshotOrder
<1>2. card' = card
  BY DEF AccountLimit, AccountStart, AccountQueryReply, AccountSnapshot
<1>3. account \in [Accounts -> [limit : Limits, consumed : Nat,
                    pending : [op : Nat, remaining : Nat, spent : Spendings, billing : BOOLEAN]]]
  BY DEF AllOK, AccountsOK
<1>4. ASSUME Simple PROVE \A b \in Accounts : account'[b].consumed = account[b].consumed
  <2>1. CASE AccountLimit(a)
    BY <1>3, <2>1 DEF AccountLimit
  <2>2. CASE AccountStart(a)
    <3>0. PICK m : m = Head(mailbox[a])
      OBVIOUS
    <3>1. mailbox[a] # <<>> /\ m.type = "Start" /\ a \in Actors /\ a # Router
      BY <2>2, <3>0, AccountType DEF AccountStart, HasMail
    <3>2. m.op \in Ops
      <4>1. Good(a, m)
        BY <3>0, <3>1, HeadLemma
      <4> QED
        BY <3>1, <4>1, GrowsLemma DEF Good, AccountMail
    <3>3. Op[m.op].kind # "Bill"
      BY <1>4, <3>2 DEF Simple, HasKind
    <3>4. \/ account' = account
          \/ \E p : account' = [account EXCEPT ![a].pending = p]
      BY <2>2, <3>0, <3>3 DEF AccountStart
    <3> QED
      BY <1>3, <3>4
  <2>3. CASE AccountQueryReply(a)
    <3>1. account[a].pending.billing = FALSE
      BY <1>3, <1>4, AccountType DEF Simple
    <3>2. \/ account' = account
          \/ \E p : account' = [account EXCEPT ![a].pending = p]
          \/ account' = [account EXCEPT ![a] = [limit |-> account[a].limit,
                            consumed |-> account[a].consumed, pending |-> NoQuery]]
      BY <2>3, <3>1 DEF AccountQueryReply
    <3> QED
      BY <1>3, <3>2
  <2>4. CASE AccountSnapshot(a)
    BY <2>4 DEF AccountSnapshot
  <2> QED
    BY <2>1, <2>2, <2>3, <2>4
<1> QED
  BY <1>1, <1>2, <1>4, CalmSum

\* QueryCardState resets a card only for a bill.
LEMMA CardQuerySum ==
  ASSUME AllOK, AllOK', OrderInv, Grows, SumOK, NEW c \in Cards, CardQuery(c)
  PROVE  SumOK'
<1>0. PICK m : m = Head(mailbox[c])
  OBVIOUS
<1>1. Calm
  BY CardQueryOrder
<1>2. /\ mailbox[c] # <<>> /\ m.type = "QueryCardState" /\ account' = account
      /\ card' = IF Op[m.op].kind = "Bill" THEN [card EXCEPT ![c].consumed = 0] ELSE card
  BY <1>0 DEF CardQuery, HasMail
<1>3. m.op \in Ops
  <2>1. c \in Actors /\ c # Router /\ c \notin Accounts
    BY CardType
  <2>2. Good(c, m)
    BY <1>0, <1>2, <2>1, HeadLemma
  <2> QED
    BY <1>2, <2>1, <2>2, GrowsLemma DEF Good, CardMail
<1>4. Simple => card' = card
  BY <1>2, <1>3 DEF Simple, HasKind
<1> QED
  BY <1>1, <1>2, <1>4, CalmSum

\* Every step preserves the sums.
LEMMA NextSum ==
  ASSUME AllOK, OrderInv, SumOK, [Next]_vars
  PROVE  SumOK'
<1>1. AllOK' /\ Grows /\ OrderInv'
  BY NextOK, NextOrder
<1>2. ASSUME Calm, UNCHANGED <<account, card>> PROVE SumOK'
  BY <1>1, <1>2, CalmSum
<1>3. ASSUME ~Unreplaced PROVE SumOK'
  BY <1>1, <1>3, SimpleBefore DEF SumOK, Simple
<1>4. CASE UNCHANGED vars \/ Recv
  <2>1. UNCHANGED <<account, card>> /\ Calm
    BY <1>1, <1>4, IdleOrder DEF vars, Recv, routerVars, history
  <2> QED
    BY <1>2, <2>1
<1>5. CASE Send
  <2>1. UNCHANGED <<account, card>> /\ Calm
    BY <1>1, <1>5, SendOrder DEF Send
  <2> QED
    BY <1>2, <2>1
<1>6. CASE RouterStep
  <2>1. UNCHANGED <<account, card>>
    BY <1>6, RouterUnchanged
  <2>2. ASSUME NEW o \in Ops,
               \/ ExecuteOnCard(o) \/ ExecuteLimitAccount(o) \/ ExecuteQuery(o)
               \/ ExecuteGetDatabase(o) \/ ExecuteReplaceDatabase(o)
        PROVE  Calm
    BY <1>1, <2>2, ExecuteOnCardOrder, ExecuteLimitAccountOrder, ExecuteQueryOrder,
       ExecuteGetDatabaseOrder, ExecuteReplaceDatabaseOrder
  <2>3. Calm
    BY <1>1, <1>6, <2>2, RouterCompletedOrder, RouterDebugOrder, RouterSnapshotOrder DEF RouterStep
  <2> QED
    BY <1>2, <2>1, <2>3
<1>7. ASSUME NEW a \in Accounts, AccountStep(a) PROVE SumOK'
  <2>1. CASE AccountReplace(a)
    <3>1. ~Unreplaced
      <4>0. PICK m : m = Head(mailbox[a])
        OBVIOUS
      <4>1. mailbox[a] # <<>> /\ m.type = "ReplaceState"
        BY <2>1, <4>0 DEF AccountReplace, HasMail
      <4>2. Good(a, m) /\ a # Router
        BY <1>7, <4>0, <4>1, AccountType, HeadLemma
      <4> QED
        BY <1>7, <4>1, <4>2 DEF Good, AccountMail, Unreplaced
    <3> QED
      BY <1>3, <3>1
  <2> QED
    BY <1>1, <1>7, <2>1, AccountChargeSum, AccountStepSum DEF AccountStep
<1>8. ASSUME NEW c \in Cards, CardStep(c) PROVE SumOK'
  <2>1. CASE CardSnapshot(c)
    <3>1. UNCHANGED <<account, card>> /\ Calm
      BY <1>1, <2>1, CardSnapshotOrder DEF CardSnapshot
    <3> QED
      BY <1>2, <3>1
  <2>2. CASE CardReplace(c)
    BY <1>1, <1>3, <2>2, CardReplaceOrder
  <2> QED
    BY <1>1, <1>8, <2>1, <2>2, CardTaskSum, CardReplySum, CardQuerySum DEF CardStep
<1> QED
  BY <1>4, <1>5, <1>6, <1>7, <1>8 DEF Next

\* Nothing is consumed initially.
LEMMA InitSum == Init => SumOK
<1> SUFFICES ASSUME Init, NEW a \in Accounts
             PROVE  account[a].consumed = SumFunction([c \in CardsOf(a) |-> Owed(c)])
  BY DEF SumOK
<1>0. PICK D, f : D = CardsOf(a) /\ f = [c \in CardsOf(a) |-> Owed(c)]
  OBVIOUS
<1>1. account[a].consumed = 0
  BY DEF Init
<1>2. \A c \in Cards : Owed(c) = 0
  BY DEF Init, Owed, Outstanding, IsAccepted
<1>3. IsFiniteSet(D) /\ D \subseteq Cards
  BY <1>0, ActorsAssumption, FS_Subset DEF CardsOf
<1>4. f \in [D -> Nat] /\ \A c \in D : f[c] = 0
  BY <1>0, <1>2, <1>3
<1>5. SumFunction(f) = 0
  BY <1>3, <1>4, SumType
<1> QED
  BY <1>0, <1>1, <1>5

\* The consumption of an account is the sum of what its cards have spent, at every
\* instant, as long as nothing is billed or replaced (AccountActor::consumed).
THEOREM AccountsAreSums == Spec => []AccountIsSumOfCards
<1>1. Init => SumOK
  BY InitSum
<1>2. AllOK /\ OrderInv /\ SumOK /\ [Next]_vars => SumOK'
  BY NextSum
<1>3. AllOK /\ OrderInv /\ SumOK => AccountIsSumOfCards
  BY SumParts
<1> QED
  BY <1>1, <1>2, <1>3, DatabaseInvariance, PTL DEF Spec

\* The inductive invariant: types, messages, the order of a card's operations, the
\* limits with the room for the charge a card waits for, and the sums.
THEOREM DInvariance == Spec => []DInv
<1>1. Init => LimitsInv
  BY InitLimits
<1>2. AllOK /\ OrderInv /\ LimitsInv /\ [Next]_vars => LimitsInv'
  BY NextLimits
<1>3. AllOK => TypeOK /\ MailInv
  BY AllParts
<1>4. TypeOK /\ MailInv /\ OrderInv /\ LimitsInv /\ AccountIsSumOfCards => DInv
  BY DEF DInv
<1> QED
  BY <1>1, <1>2, <1>3, <1>4, DatabaseInvariance, AccountsAreSums, PTL DEF Spec
=============================================================================
